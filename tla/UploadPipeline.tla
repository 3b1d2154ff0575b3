---------------------------- MODULE UploadPipeline ----------------------------
(***************************************************************************)
(* The upload of one changed file in processFile (internal/agent/agent.go, *)
(* internal/agent/encrypt.go, internal/transfer/sftp.go): the worker       *)
(* copies the read end of a pipe to the server while a goroutine encrypts  *)
(* the file into its write end; with compression a second goroutine feeds  *)
(* the encryption through a pipe of its own.                               *)
(*                                                                         *)
(* An io.Pipe has no buffer: a write waits until a read has taken its data *)
(* or the read end is closed (then it fails); a read waits for a write or  *)
(* for the write end to be closed.  The data is counted in units: the      *)
(* header, the file's chunks and, with compression, the gzip trailer.      *)
(***************************************************************************)
EXTENDS Naturals

CONSTANTS
    MaxChunks,   \* bound: chunks of the file
    FailingWith  \* the settings of compression with which the server may fail

ASSUME UploadPipelineAssumption ==
    /\ MaxChunks \in Nat
    /\ FailingWith \subseteq BOOLEAN

VARIABLES
    compress,   \* opts.CompressionEnabled
    chunks,     \* the chunks the file has
    left,       \* the units its reader has not read yet
    comp, enc, main,  \* where the two goroutines and the worker are
    inner, outer,     \* the compressor's and the encryptor's pipe
    compErr, encErr, uploadErr,
    received    \* the units the server has got

file == <<compress, chunks>>  \* what the upload is given
vars == <<file, left, comp, enc, main, inner, outer, compErr, encErr,
          uploadErr, received>>

\* full: a write waits to be taken; wend: how the write end was closed.
NewPipe == [full |-> FALSE, wend |-> "open", rend |-> "open"]
Pipes == [full : BOOLEAN, wend : {"open", "eof", "error"}, rend : {"open", "closed"}]

\* A complete blob: the header, the chunks and the gzip trailer.
Whole == 1 + chunks + (IF compress THEN 1 ELSE 0)

Init ==
    /\ compress \in BOOLEAN
    /\ chunks \in 0 .. MaxChunks /\ left = chunks
    /\ comp = (IF compress THEN "read" ELSE "done")
    /\ enc = "header" /\ main = "open"
    /\ inner = NewPipe /\ outer = NewPipe
    /\ compErr = FALSE /\ encErr = FALSE /\ uploadErr = FALSE
    /\ received = 0

UploadMayFail == compress \in FailingWith

Written(p) == ~p.full
Refused(p) == p.rend = "closed"
CloseWithError(p, err) == [p EXCEPT !.wend = IF err THEN "error" ELSE "eof"]

-----------------------------------------------------------------------------
(* The compressing goroutine of CompressAndEncryptFile *)

\* io.Copy reads the file and writes to the gzip writer, that is, the pipe;
\* at the end of the file gz.Close writes the trailer.
CompRead ==
    /\ comp = "read"
    /\ IF left > 0
       THEN left' = left - 1 /\ comp' = "write"
       ELSE comp' = "trailer" /\ UNCHANGED left
    /\ inner' = [inner EXCEPT !.full = TRUE]
    /\ UNCHANGED <<file, enc, main, outer, compErr, encErr, uploadErr, received>>

CompReadFails ==
    /\ comp = "read"
    /\ compErr' = TRUE /\ comp' = "close"
    /\ UNCHANGED <<file, left, enc, main, inner, outer, encErr, uploadErr, received>>

\* The write returns; nothing in CompressAndEncryptFile closes the read end.
CompWritten ==
    /\ comp \in {"write", "trailer"}
    /\ Written(inner)
    /\ comp' = IF comp = "write" THEN "read" ELSE "close"
    /\ UNCHANGED <<file, left, enc, main, inner, outer, compErr, encErr,
                   uploadErr, received>>

CompClose ==
    /\ comp = "close"
    /\ inner' = CloseWithError(inner, compErr)
    /\ comp' = "done"
    /\ UNCHANGED <<file, left, enc, main, outer, compErr, encErr, uploadErr, received>>

-----------------------------------------------------------------------------
(* The encrypting goroutine: encryptFileWithMagic, then CloseWithError *)

EncHeader ==
    /\ enc = "header"
    /\ outer' = [outer EXCEPT !.full = TRUE]
    /\ enc' = "write"
    /\ UNCHANGED <<file, left, comp, main, inner, compErr, encErr, uploadErr, received>>

\* Fault: the end of the file is not looked at.
EncReadFilePastEnd ==
    /\ enc = "read" /\ ~compress
    /\ left' = left - 1
    /\ outer' = [outer EXCEPT !.full = TRUE]
    /\ enc' = "write"
    /\ UNCHANGED <<file, comp, main, inner, compErr, encErr, uploadErr, received>>

\* io.ReadFull from the file: a chunk, which is then written, or its end.
EncReadFile ==
    /\ enc = "read" /\ ~compress
    /\ IF left > 0
       THEN /\ left' = left - 1
            /\ outer' = [outer EXCEPT !.full = TRUE]
            /\ enc' = "write"
       ELSE enc' = "returned" /\ UNCHANGED <<left, outer>>
    /\ UNCHANGED <<file, comp, main, inner, compErr, encErr, uploadErr, received>>

\* Fault: a read error is taken for the end of the file.
EncReadErrorIsEOF ==
    /\ enc = "read" /\ ~compress
    /\ enc' = "returned"
    /\ UNCHANGED <<file, left, comp, main, inner, outer, compErr, encErr,
                   uploadErr, received>>

EncReadFails ==
    /\ enc = "read" /\ ~compress
    /\ encErr' = TRUE /\ enc' = "returned"
    /\ UNCHANGED <<file, left, comp, main, inner, outer, compErr, uploadErr, received>>

\* io.ReadFull from the compressor's pipe.
EncReadPipe ==
    /\ enc = "read" /\ compress
    /\ \/ /\ inner.full
          /\ inner' = [inner EXCEPT !.full = FALSE]
          /\ outer' = [outer EXCEPT !.full = TRUE]
          /\ enc' = "write"
          /\ UNCHANGED encErr
       \/ /\ ~inner.full /\ inner.wend # "open"
          /\ encErr' = (inner.wend = "error")
          /\ enc' = "returned"
          /\ UNCHANGED <<inner, outer>>
    /\ UNCHANGED <<file, left, comp, main, compErr, uploadErr, received>>

\* dst.Write returns: the unit was taken, or the read end was closed.
EncWritten ==
    /\ enc = "write"
    /\ IF Written(outer)
       THEN enc' = "read" /\ UNCHANGED encErr
       ELSE /\ Refused(outer)
            /\ encErr' = TRUE /\ enc' = "returned"
    /\ UNCHANGED <<file, left, comp, main, inner, outer, compErr, uploadErr, received>>

\* "<-compErrCh" with compression; then the write end is closed with the error.
EncClose ==
    /\ enc = "returned" /\ comp = "done"
    /\ encErr' = (encErr \/ compErr)
    /\ outer' = CloseWithError(outer, encErr')
    /\ enc' = "done"
    /\ UNCHANGED <<file, left, comp, main, inner, compErr, uploadErr, received>>

-----------------------------------------------------------------------------
(* The worker: UploadBlob, then the end of processFile *)

\* Fault: processFile returns at once when the upload cannot be opened.
OpenReturnsEarly ==
    /\ main = "open"
    /\ \/ main' = "copy" /\ UNCHANGED uploadErr
       \/ UploadMayFail /\ uploadErr' = TRUE /\ main' = "error"
    /\ UNCHANGED <<file, left, comp, enc, inner, outer, compErr, encErr, received>>

\* MkdirAll, NewSession, StdinPipe and Start
Open ==
    /\ main = "open"
    /\ \/ main' = "copy" /\ UNCHANGED uploadErr
       \/ UploadMayFail /\ uploadErr' = TRUE /\ main' = "closepipe"
    /\ UNCHANGED <<file, left, comp, enc, inner, outer, compErr, encErr, received>>

\* io.Copy takes a unit from the pipe and writes it to the remote "cat".
Copy ==
    /\ main = "copy" /\ outer.full
    /\ outer' = [outer EXCEPT !.full = FALSE]
    /\ \/ received' = received + 1 /\ UNCHANGED <<main, uploadErr>>
       \/ UploadMayFail /\ uploadErr' = TRUE /\ main' = "closepipe" /\ UNCHANGED received
    /\ UNCHANGED <<file, left, comp, enc, inner, compErr, encErr>>

\* io.Copy sees the end of the pipe, or the error it was closed with; stdin is
\* closed and the session waited for.
CopyEnds ==
    /\ main = "copy" /\ ~outer.full /\ outer.wend # "open"
    /\ \/ uploadErr' = (outer.wend = "error")
       \/ UploadMayFail /\ uploadErr' = TRUE
    /\ main' = "closepipe"
    /\ UNCHANGED <<file, left, comp, enc, inner, outer, compErr, encErr, received>>

\* Fault: the read end is left open.
ClosePipeForgotten ==
    /\ main = "closepipe"
    /\ main' = "await"
    /\ UNCHANGED <<file, left, comp, enc, inner, outer, compErr, encErr,
                   uploadErr, received>>

\* pr.CloseWithError(uploadErr), or pr.Close()
ClosePipe ==
    /\ main = "closepipe"
    /\ outer' = [outer EXCEPT !.rend = "closed"]
    /\ main' = "await"
    /\ UNCHANGED <<file, left, comp, enc, inner, compErr, encErr, uploadErr, received>>

\* "<-encErrCh", and the errors are looked at.
Return ==
    /\ main = "await" /\ enc = "done"
    /\ main' = IF uploadErr \/ encErr THEN "error" ELSE "ok"
    /\ UNCHANGED <<file, left, comp, enc, inner, outer, compErr, encErr,
                   uploadErr, received>>

-----------------------------------------------------------------------------
Compressor == CompRead \/ CompReadFails \/ CompWritten \/ CompClose
Encryptor ==
    EncHeader \/ EncReadFile \/ EncReadFails \/ EncReadPipe \/ EncWritten \/ EncClose
Worker == Open \/ Copy \/ CopyEnds \/ ClosePipe \/ Return

Next == Compressor \/ Encryptor \/ Worker

\* Goroutines that can run do.
Spec == /\ Init /\ [][Next]_vars
        /\ WF_vars(Compressor) /\ WF_vars(Encryptor) /\ WF_vars(Worker)

-----------------------------------------------------------------------------
(* Properties *)

\* Type invariant of the pipes and of the three goroutines.
TypeOK ==
    /\ compress \in BOOLEAN
    /\ chunks \in Nat /\ left \in 0 .. chunks
    /\ comp \in {"read", "write", "trailer", "close", "done"}
    /\ enc \in {"header", "read", "write", "returned", "done"}
    /\ main \in {"open", "copy", "closepipe", "await", "ok", "error"}
    /\ inner \in Pipes /\ outer \in Pipes
    /\ {compErr, encErr, uploadErr} \subseteq BOOLEAN
    /\ received \in Nat

\* An upload is taken for done only when the server has the whole blob: a
\* source error or a lost connection half-way always surfaces as an error, so
\* the version that is recorded next is complete.
OkMeansWhole == main = "ok" => received = Whole

\* "It returns ... when an error prevented the file from being backed up"
\* (agent.go:525-528): processFile comes back from every upload.
UploadReturns == <>(main \in {"ok", "error"})

\* No goroutine outlives its upload for ever.
GoroutinesEnd == <>[](comp = "done" /\ enc = "done")
=============================================================================
