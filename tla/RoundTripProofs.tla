---------------------------- MODULE RoundTripProofs ----------------------------
(***************************************************************************)
(* Proofs about UploadPipeline and RoundTrip, for files of any number of   *)
(* chunks: an upload that ends well has put the whole blob on the server,  *)
(* and a restore ends well only with the whole file, and badly only for a  *)
(* reason.                                                                 *)
(***************************************************************************)
EXTENDS RoundTrip, TLAPS

\* What each end of a pipe knows of the other.
PipeInv ==
    /\ enc \in {"header", "read"} => outer.full = FALSE
    /\ enc \in {"returned", "done"} /\ encErr = FALSE => outer.full = FALSE
    /\ outer.wend # "open" <=> enc = "done"
    /\ enc = "done" /\ outer.wend = "eof" => encErr = FALSE
    /\ comp = "read" => inner.full = FALSE
    /\ inner.wend # "open" => comp = "done"
    /\ inner.wend = "eof" => compErr = FALSE
    /\ comp \in {"read", "write", "trailer"} => compErr = FALSE /\ compress = TRUE
    /\ main \in {"open", "copy"} => uploadErr = FALSE /\ outer.rend = "open"
    /\ main \in {"closepipe", "await", "ok"} /\ uploadErr = FALSE =>
            outer.wend = "eof" /\ outer.full = FALSE

\* Who has ended without an error has read everything there was.
DrainInv ==
    /\ comp = "trailer" => left = 0
    /\ compress = TRUE /\ comp \in {"close", "done"} /\ compErr = FALSE => left = 0
    /\ enc \in {"returned", "done"} /\ encErr = FALSE =>
        IF compress = TRUE THEN inner.wend = "eof" /\ inner.full = FALSE ELSE left = 0
    /\ main = "ok" => uploadErr = FALSE /\ encErr = FALSE /\ enc = "done"

Bit(b) == IF b THEN 1 ELSE 0

\* The compressor has handed over the gzip trailer.
TrailerSent == comp = "trailer" \/ (comp \in {"close", "done"} /\ compErr = FALSE)

\* The units that the encryptor has been given after the header.
Taken ==
    IF compress = TRUE
    THEN (chunks - left) + Bit(TrailerSent) - Bit(inner.full = TRUE)
    ELSE chunks - left

\* Until the upload fails, the server has every unit but the one in the pipe.
CountInv ==
    uploadErr = FALSE =>
        received + Bit(outer.full = TRUE) = Bit(enc # "header") + Taken

UploadInv == TypeOK /\ PipeInv /\ DrainInv /\ CountInv

-----------------------------------------------------------------------------
(* The upload *)

LEMMA PipesType ==
    \A p \in Pipes : [p EXCEPT !.full = TRUE] \in Pipes /\ [p EXCEPT !.full = FALSE] \in Pipes
  BY DEF Pipes

LEMMA UploadTypeStep == TypeOK /\ [Next]_vars => TypeOK'
<1>. SUFFICES ASSUME TypeOK, [Next]_vars PROVE TypeOK'
  OBVIOUS
<1>. USE UploadPipelineAssumption DEF TypeOK, Pipes, file
<1>1. ASSUME CompRead PROVE TypeOK'
  <2>1. inner' \in Pipes
    BY <1>1, PipesType, Zenon DEF CompRead
  <2>2. left' \in 0 .. chunks
    BY <1>1 DEF CompRead
  <2>. QED
    BY <1>1, <2>1, <2>2 DEF CompRead
<1>2. ASSUME CompReadFails PROVE TypeOK'
  <2>1. compErr' \in BOOLEAN
    BY <1>2, Zenon DEF CompReadFails
  <2>2. encErr' \in BOOLEAN /\ uploadErr' \in BOOLEAN
    BY <1>2, Zenon DEF CompReadFails
  <2>3. /\ compress' \in BOOLEAN /\ chunks' \in Nat /\ left' \in 0 .. chunks'
        /\ comp' \in {"read", "write", "trailer", "close", "done"}
        /\ enc' \in {"header", "read", "write", "returned", "done"}
        /\ main' \in {"open", "copy", "closepipe", "await", "ok", "error"}
        /\ inner' \in Pipes /\ outer' \in Pipes /\ received' \in Nat
    BY <1>2 DEF CompReadFails
  <2>. QED
    BY <2>1, <2>2, <2>3, Zenon
<1>3. ASSUME CompWritten PROVE TypeOK'
  BY <1>3 DEF CompWritten, Written
<1>4. ASSUME CompClose PROVE TypeOK'
  BY <1>4 DEF CompClose, CloseWithError
<1>5. ASSUME EncHeader PROVE TypeOK'
  BY <1>5 DEF EncHeader
<1>6. ASSUME EncReadFile PROVE TypeOK'
  <2>1. outer' \in Pipes
    BY <1>6, PipesType, Zenon DEF EncReadFile
  <2>2. left' \in 0 .. chunks
    BY <1>6 DEF EncReadFile
  <2>. QED
    BY <1>6, <2>1, <2>2 DEF EncReadFile
<1>7. ASSUME EncReadFails PROVE TypeOK'
  <2>1. encErr' \in BOOLEAN
    BY <1>7, Zenon DEF EncReadFails
  <2>2. compErr' \in BOOLEAN /\ uploadErr' \in BOOLEAN
    BY <1>7, Zenon DEF EncReadFails
  <2>3. /\ compress' \in BOOLEAN /\ chunks' \in Nat /\ left' \in 0 .. chunks'
        /\ comp' \in {"read", "write", "trailer", "close", "done"}
        /\ enc' \in {"header", "read", "write", "returned", "done"}
        /\ main' \in {"open", "copy", "closepipe", "await", "ok", "error"}
        /\ inner' \in Pipes /\ outer' \in Pipes /\ received' \in Nat
    BY <1>7 DEF EncReadFails
  <2>. QED
    BY <2>1, <2>2, <2>3, Zenon
<1>8. ASSUME EncReadPipe PROVE TypeOK'
  <2>1. encErr' \in BOOLEAN
    BY <1>8, Zenon DEF EncReadPipe
  <2>2. compErr' \in BOOLEAN /\ uploadErr' \in BOOLEAN
    BY <1>8, Zenon DEF EncReadPipe
  <2>3. /\ compress' \in BOOLEAN /\ chunks' \in Nat /\ left' \in 0 .. chunks'
        /\ comp' \in {"read", "write", "trailer", "close", "done"}
        /\ enc' \in {"header", "read", "write", "returned", "done"}
        /\ main' \in {"open", "copy", "closepipe", "await", "ok", "error"}
        /\ inner' \in Pipes /\ outer' \in Pipes /\ received' \in Nat
    BY <1>8 DEF EncReadPipe
  <2>. QED
    BY <2>1, <2>2, <2>3, Zenon
<1>9. ASSUME EncWritten PROVE TypeOK'
  <2>1. encErr' \in BOOLEAN
    BY <1>9, Zenon DEF EncWritten, Written, Refused
  <2>2. compErr' \in BOOLEAN /\ uploadErr' \in BOOLEAN
    BY <1>9, Zenon DEF EncWritten, Written, Refused
  <2>3. /\ compress' \in BOOLEAN /\ chunks' \in Nat /\ left' \in 0 .. chunks'
        /\ comp' \in {"read", "write", "trailer", "close", "done"}
        /\ enc' \in {"header", "read", "write", "returned", "done"}
        /\ main' \in {"open", "copy", "closepipe", "await", "ok", "error"}
        /\ inner' \in Pipes /\ outer' \in Pipes /\ received' \in Nat
    BY <1>9 DEF EncWritten, Written, Refused
  <2>. QED
    BY <2>1, <2>2, <2>3, Zenon
<1>10. ASSUME EncClose PROVE TypeOK'
  <2>1. encErr' \in BOOLEAN
    BY <1>10, Zenon DEF EncClose, CloseWithError
  <2>2. compErr' \in BOOLEAN /\ uploadErr' \in BOOLEAN
    BY <1>10, Zenon DEF EncClose, CloseWithError
  <2>3. /\ compress' \in BOOLEAN /\ chunks' \in Nat /\ left' \in 0 .. chunks'
        /\ comp' \in {"read", "write", "trailer", "close", "done"}
        /\ enc' \in {"header", "read", "write", "returned", "done"}
        /\ main' \in {"open", "copy", "closepipe", "await", "ok", "error"}
        /\ inner' \in Pipes /\ outer' \in Pipes /\ received' \in Nat
    BY <1>10 DEF EncClose, CloseWithError
  <2>. QED
    BY <2>1, <2>2, <2>3, Zenon
<1>11. ASSUME Open PROVE TypeOK'
  <2>1. uploadErr' \in BOOLEAN
    BY <1>11, Zenon DEF Open, UploadMayFail
  <2>2. compErr' \in BOOLEAN /\ encErr' \in BOOLEAN
    BY <1>11, Zenon DEF Open, UploadMayFail
  <2>3. /\ compress' \in BOOLEAN /\ chunks' \in Nat /\ left' \in 0 .. chunks'
        /\ comp' \in {"read", "write", "trailer", "close", "done"}
        /\ enc' \in {"header", "read", "write", "returned", "done"}
        /\ main' \in {"open", "copy", "closepipe", "await", "ok", "error"}
        /\ inner' \in Pipes /\ outer' \in Pipes /\ received' \in Nat
    BY <1>11 DEF Open, UploadMayFail
  <2>. QED
    BY <2>1, <2>2, <2>3, Zenon
<1>12. ASSUME Copy PROVE TypeOK'
  <2>1. uploadErr' \in BOOLEAN
    BY <1>12, Zenon DEF Copy, UploadMayFail
  <2>2. compErr' \in BOOLEAN /\ encErr' \in BOOLEAN
    BY <1>12, Zenon DEF Copy, UploadMayFail
  <2>3. outer' \in Pipes
    BY <1>12, PipesType, Zenon DEF Copy
  <2>4. received' \in Nat
    BY <1>12 DEF Copy
  <2>5. /\ compress' \in BOOLEAN /\ chunks' \in Nat /\ left' \in 0 .. chunks'
        /\ comp' \in {"read", "write", "trailer", "close", "done"}
        /\ enc' \in {"header", "read", "write", "returned", "done"}
        /\ main' \in {"open", "copy", "closepipe", "await", "ok", "error"}
        /\ inner' \in Pipes /\ outer' \in Pipes /\ received' \in Nat
    BY <1>12, <2>3, <2>4 DEF Copy
  <2>. QED
    BY <2>1, <2>2, <2>5, Zenon
<1>13. ASSUME CopyEnds PROVE TypeOK'
  <2>1. uploadErr' \in BOOLEAN
    BY <1>13, Zenon DEF CopyEnds, UploadMayFail
  <2>2. compErr' \in BOOLEAN /\ encErr' \in BOOLEAN
    BY <1>13, Zenon DEF CopyEnds, UploadMayFail
  <2>3. /\ compress' \in BOOLEAN /\ chunks' \in Nat /\ left' \in 0 .. chunks'
        /\ comp' \in {"read", "write", "trailer", "close", "done"}
        /\ enc' \in {"header", "read", "write", "returned", "done"}
        /\ main' \in {"open", "copy", "closepipe", "await", "ok", "error"}
        /\ inner' \in Pipes /\ outer' \in Pipes /\ received' \in Nat
    BY <1>13 DEF CopyEnds, UploadMayFail
  <2>. QED
    BY <2>1, <2>2, <2>3, Zenon
<1>14. ASSUME ClosePipe PROVE TypeOK'
  BY <1>14 DEF ClosePipe
<1>15. ASSUME Return PROVE TypeOK'
  BY <1>15 DEF Return
<1>16. ASSUME UNCHANGED vars PROVE TypeOK'
  BY <1>16 DEF vars
<1>. QED
  BY <1>1, <1>2, <1>3, <1>4, <1>5, <1>6, <1>7, <1>8, <1>9, <1>10, <1>11, <1>12, <1>13,
     <1>14, <1>15, <1>16 DEF Next, Compressor, Encryptor, Worker

LEMMA PipeStep == TypeOK /\ PipeInv /\ [Next]_vars => PipeInv'
<1>. SUFFICES ASSUME TypeOK, PipeInv, [Next]_vars PROVE PipeInv'
  OBVIOUS
<1>. USE UploadPipelineAssumption DEF TypeOK, Pipes, PipeInv, file
<1>1. ASSUME CompRead PROVE PipeInv'
  BY <1>1 DEF CompRead
<1>2. ASSUME CompReadFails PROVE PipeInv'
  BY <1>2 DEF CompReadFails
<1>3. ASSUME CompWritten PROVE PipeInv'
  BY <1>3 DEF CompWritten, Written
<1>4. ASSUME CompClose PROVE PipeInv'
  BY <1>4 DEF CompClose, CloseWithError
<1>5. ASSUME EncHeader PROVE PipeInv'
  BY <1>5 DEF EncHeader
<1>6. ASSUME EncReadFile PROVE PipeInv'
  BY <1>6 DEF EncReadFile
<1>7. ASSUME EncReadFails PROVE PipeInv'
  BY <1>7 DEF EncReadFails
<1>8. ASSUME EncReadPipe PROVE PipeInv'
  BY <1>8 DEF EncReadPipe
<1>9. ASSUME EncWritten PROVE PipeInv'
  BY <1>9 DEF EncWritten, Written, Refused
<1>10. ASSUME EncClose PROVE PipeInv'
  BY <1>10 DEF EncClose, CloseWithError
<1>11. ASSUME Open PROVE PipeInv'
  BY <1>11 DEF Open, UploadMayFail
<1>12. ASSUME Copy PROVE PipeInv'
  BY <1>12 DEF Copy, UploadMayFail
<1>13. ASSUME CopyEnds PROVE PipeInv'
  BY <1>13 DEF CopyEnds, UploadMayFail
<1>14. ASSUME ClosePipe PROVE PipeInv'
  BY <1>14 DEF ClosePipe
<1>15. ASSUME Return PROVE PipeInv'
  BY <1>15 DEF Return
<1>16. ASSUME UNCHANGED vars PROVE PipeInv'
  BY <1>16 DEF vars
<1>. QED
  BY <1>1, <1>2, <1>3, <1>4, <1>5, <1>6, <1>7, <1>8, <1>9, <1>10, <1>11, <1>12, <1>13,
     <1>14, <1>15, <1>16 DEF Next, Compressor, Encryptor, Worker

LEMMA DrainStep == TypeOK /\ PipeInv /\ DrainInv /\ [Next]_vars => DrainInv'
<1>. SUFFICES ASSUME TypeOK, PipeInv, DrainInv, [Next]_vars PROVE DrainInv'
  OBVIOUS
<1>. USE UploadPipelineAssumption DEF TypeOK, Pipes, PipeInv, DrainInv, file
<1>1. ASSUME CompRead PROVE DrainInv'
  BY <1>1 DEF CompRead
<1>2. ASSUME CompReadFails PROVE DrainInv'
  BY <1>2 DEF CompReadFails
<1>3. ASSUME CompWritten PROVE DrainInv'
  BY <1>3 DEF CompWritten, Written
<1>4. ASSUME CompClose PROVE DrainInv'
  BY <1>4 DEF CompClose, CloseWithError
<1>5. ASSUME EncHeader PROVE DrainInv'
  BY <1>5 DEF EncHeader
<1>6. ASSUME EncReadFile PROVE DrainInv'
  BY <1>6 DEF EncReadFile
<1>7. ASSUME EncReadFails PROVE DrainInv'
  BY <1>7 DEF EncReadFails
<1>8. ASSUME EncReadPipe PROVE DrainInv'
  BY <1>8 DEF EncReadPipe
<1>9. ASSUME EncWritten PROVE DrainInv'
  BY <1>9 DEF EncWritten, Written, Refused
<1>10. ASSUME EncClose PROVE DrainInv'
  BY <1>10 DEF EncClose, CloseWithError
<1>11. ASSUME Open PROVE DrainInv'
  BY <1>11 DEF Open, UploadMayFail
<1>12. ASSUME Copy PROVE DrainInv'
  BY <1>12 DEF Copy, UploadMayFail
<1>13. ASSUME CopyEnds PROVE DrainInv'
  BY <1>13 DEF CopyEnds, UploadMayFail
<1>14. ASSUME ClosePipe PROVE DrainInv'
  BY <1>14 DEF ClosePipe
<1>15. ASSUME Return PROVE DrainInv'
  BY <1>15 DEF Return
<1>16. ASSUME UNCHANGED vars PROVE DrainInv'
  BY <1>16 DEF vars
<1>. QED
  BY <1>1, <1>2, <1>3, <1>4, <1>5, <1>6, <1>7, <1>8, <1>9, <1>10, <1>11, <1>12, <1>13,
     <1>14, <1>15, <1>16 DEF Next, Compressor, Encryptor, Worker

LEMMA CountStep == TypeOK /\ PipeInv /\ DrainInv /\ CountInv /\ [Next]_vars => CountInv'
<1>. SUFFICES ASSUME TypeOK, PipeInv, DrainInv, CountInv, [Next]_vars PROVE CountInv'
  OBVIOUS
<1>. USE UploadPipelineAssumption
     DEF TypeOK, Pipes, PipeInv, DrainInv, CountInv, Taken, TrailerSent, Bit, file
<1>1. ASSUME CompRead PROVE CountInv'
  BY <1>1 DEF CompRead
<1>2. ASSUME CompReadFails PROVE CountInv'
  BY <1>2 DEF CompReadFails
<1>3. ASSUME CompWritten PROVE CountInv'
  BY <1>3 DEF CompWritten, Written
<1>4. ASSUME CompClose PROVE CountInv'
  BY <1>4 DEF CompClose, CloseWithError
<1>5. ASSUME EncHeader PROVE CountInv'
  BY <1>5 DEF EncHeader
<1>6. ASSUME EncReadFile PROVE CountInv'
  BY <1>6 DEF EncReadFile
<1>7. ASSUME EncReadFails PROVE CountInv'
  BY <1>7 DEF EncReadFails
<1>8. ASSUME EncReadPipe PROVE CountInv'
  BY <1>8 DEF EncReadPipe
<1>9. ASSUME EncWritten PROVE CountInv'
  BY <1>9 DEF EncWritten, Written, Refused
<1>10. ASSUME EncClose PROVE CountInv'
  BY <1>10 DEF EncClose, CloseWithError
<1>11. ASSUME Open PROVE CountInv'
  BY <1>11 DEF Open, UploadMayFail
<1>12. ASSUME Copy PROVE CountInv'
  BY <1>12 DEF Copy, UploadMayFail
<1>13. ASSUME CopyEnds PROVE CountInv'
  BY <1>13 DEF CopyEnds, UploadMayFail
<1>14. ASSUME ClosePipe PROVE CountInv'
  BY <1>14 DEF ClosePipe
<1>15. ASSUME Return PROVE CountInv'
  BY <1>15 DEF Return
<1>16. ASSUME UNCHANGED vars PROVE CountInv'
  BY <1>16 DEF vars
<1>. QED
  BY <1>1, <1>2, <1>3, <1>4, <1>5, <1>6, <1>7, <1>8, <1>9, <1>10, <1>11, <1>12, <1>13,
     <1>14, <1>15, <1>16 DEF Next, Compressor, Encryptor, Worker

LEMMA UploadInvInit == Init => UploadInv
<1>. SUFFICES ASSUME Init PROVE UploadInv
  OBVIOUS
<1>. USE UploadPipelineAssumption
<1>1. /\ compErr = FALSE /\ encErr = FALSE /\ uploadErr = FALSE /\ compress \in BOOLEAN
      /\ inner = NewPipe /\ outer = NewPipe
  BY Zenon DEF Init
<1>2. /\ chunks \in Nat /\ left = chunks /\ enc = "header" /\ main = "open" /\ received = 0
      /\ comp = IF compress THEN "read" ELSE "done"
  BY DEF Init
<1>3. /\ NewPipe \in Pipes /\ NewPipe.full = FALSE /\ NewPipe.wend = "open"
      /\ NewPipe.rend = "open"
  BY DEF NewPipe, Pipes
<1>4. TypeOK
  <2>1. {compErr, encErr, uploadErr} \subseteq BOOLEAN
    BY <1>1, Zenon
  <2>. QED
    BY <1>1, <1>2, <1>3, <2>1 DEF TypeOK
<1>5. PipeInv /\ DrainInv
  BY <1>1, <1>2, <1>3 DEF PipeInv, DrainInv
<1>6. CountInv
  BY <1>1, <1>2, <1>3 DEF CountInv, Taken, TrailerSent, Bit
<1>. QED
  BY <1>4, <1>5, <1>6 DEF UploadInv

LEMMA UploadInvStep == UploadInv /\ [Next]_vars => UploadInv'
  BY UploadTypeStep, PipeStep, DrainStep, CountStep DEF UploadInv

LEMMA UploadWhole == UploadInv => OkMeansWhole
<1>. SUFFICES ASSUME UploadInv, main = "ok" PROVE received = Whole
  BY DEF OkMeansWhole
<1>1. /\ uploadErr = FALSE /\ encErr = FALSE /\ enc = "done"
      /\ outer.full = FALSE /\ outer.wend = "eof"
  BY DEF UploadInv, DrainInv, PipeInv
<1>2. received = 1 + Taken
  BY <1>1 DEF UploadInv, CountInv, Bit, TypeOK, Taken
<1>3. CASE compress = TRUE
  <2>1. inner.wend = "eof" /\ inner.full = FALSE /\ comp = "done" /\ compErr = FALSE
    BY <1>1, <1>3 DEF UploadInv, DrainInv, PipeInv
  <2>2. left = 0
    BY <1>3, <2>1 DEF UploadInv, DrainInv
  <2>. QED
    BY <1>2, <1>3, <2>1, <2>2 DEF Taken, TrailerSent, Bit, Whole, UploadInv, TypeOK
<1>4. CASE compress = FALSE
  <2>1. left = 0
    BY <1>1, <1>4 DEF UploadInv, DrainInv
  <2>. QED
    BY <1>2, <1>4, <2>1 DEF Taken, Whole, UploadInv, TypeOK
<1>. QED
  BY <1>3, <1>4 DEF UploadInv, TypeOK

\* The uploads alone, with a server that may fail with compression too: whenever
\* processFile sees no error, the server has the header, every chunk and the
\* gzip trailer.
THEOREM UploadOkMeansWhole == Spec => []OkMeansWhole
  BY UploadInvInit, UploadInvStep, UploadWhole, PTL DEF Spec

\* An upload that has ended well changes nothing any more.
LEMMA OkStays == main = "ok" /\ [Next]_vars => main' = "ok" /\ received' = received
  BY DEF vars, Next, Compressor, Encryptor, Worker, CompRead, CompReadFails, CompWritten,
         CompClose, EncHeader, EncReadFile, EncReadFails, EncReadPipe, EncWritten, EncClose,
         Open, Copy, CopyEnds, ClosePipe, Return

\* The upload never changes what it was given, and the server loses nothing.
LEMMA UploadGrows ==
    TypeOK /\ [Next]_vars =>
        compress' = compress /\ chunks' = chunks /\ received' \in {received, received + 1}
  BY DEF TypeOK, file, vars, Next, Compressor, Encryptor, Worker, CompRead, CompReadFails,
         CompWritten, CompClose, EncHeader, EncReadFile, EncReadFails, EncReadPipe, EncWritten,
         EncClose, Open, Copy, CopyEnds, ClosePipe, Return

-----------------------------------------------------------------------------
(* The restore *)

\* How much has come out of how much, at each step of the restore.
WholeInv ==
    /\ rst # "waiting" => main = "ok"
    /\ rst \in {"waiting", "open"} => served = 0
    /\ rst \in {"header", "chunk", "gzip", "copy", "close", "await", "restored"} => dest.new = TRUE
    /\ rst \in {"waiting", "open", "create", "header"} => dest.chunks = 0
    /\ rst \in {"create", "header"} /\ cut = FALSE => served = received
    /\ rst = "chunk" =>
        /\ compress = FALSE /\ dest.chunks + served <= chunks
        /\ cut = FALSE => dest.chunks + served = chunks
    /\ rst \in {"gzip", "copy", "close", "await"} => compress = TRUE
    /\ dec # "off" => compress = TRUE /\ rst \notin {"waiting", "open", "create", "header"}
    /\ rst = "restored" /\ compress = FALSE =>
        dest.chunks = chunks \/ (cut = TRUE /\ torn = FALSE)
    /\ rst = "restored" /\ compress = TRUE => copyErr = FALSE
    /\ rst \in {"waiting", "open", "create", "header"} => trailer = FALSE
    /\ trailer = TRUE => dest.chunks = chunks
    /\ rst \in {"close", "await", "restored"} /\ compress = TRUE /\ copyErr = FALSE =>
        trailer = TRUE

\* While nothing was cut and nothing refused, no goroutine has met an error: the
\* units are all on their way, and the read end is closed after the last of them.
AlarmInv ==
    /\ rst \in {"waiting", "open", "create"} => dest.new = FALSE
    /\ cut = FALSE => torn = FALSE
    /\ cut = FALSE /\ dest.refused = FALSE /\ compress = TRUE /\ dest.new = TRUE =>
        /\ rst # "failed" /\ decErr = FALSE /\ copyErr = FALSE
        /\ plain.wend # "error"
        /\ plain.full = TRUE => dec = "write"
        /\ dec = "off" => rst = "header"
        /\ dec \in {"returned", "done"} => served = 0
        /\ plain.wend = "open" <=> dec # "done"
        /\ rst \in {"close", "await", "restored"} => dec = "done"
        /\ plain.rend = "closed" => dec = "done"
        /\ rst = "gzip" => dest.chunks = 0 /\ trailer = FALSE
        /\ rst \in {"gzip", "copy"} =>
            served + Bit(plain.full = TRUE) + dest.chunks + Bit(trailer = TRUE) = chunks + 1
    /\ cut = FALSE /\ dest.refused = FALSE /\ compress = FALSE /\ dest.new = TRUE =>
        rst # "failed"
    /\ rst \in {"waiting", "open", "create", "header"} =>
        plain = NewPipe /\ decErr = FALSE /\ copyErr = FALSE /\ dec = "off"

RoundTripInv == UploadInv /\ RestoreTypeOK /\ WholeInv /\ AlarmInv

LEMMA UploadKept == UploadInv /\ [RNext]_rvars => UploadInv' /\ TypeOK'
<1>. SUFFICES ASSUME UploadInv, [RNext]_rvars PROVE UploadInv'
  BY DEF UploadInv
<1>1. Next \/ UNCHANGED vars
  BY DEF RNext, Upload, Restorer, Decryptor, rvars, PickVersion, Download, DownloadFails,
         Create, Header, Chunk, GzipOpen, Inflate, InflateClose, InflateEnd, DecRead,
         DecWritten, DecClose
<1>. QED
  BY <1>1, UploadInvStep

LEMMA RestoreTypeStep == UploadInv /\ RestoreTypeOK /\ WholeInv /\ [RNext]_rvars =>
    RestoreTypeOK'
<1>. SUFFICES ASSUME UploadInv, RestoreTypeOK, WholeInv, [RNext]_rvars PROVE RestoreTypeOK'
  OBVIOUS
<1>. USE RoundTripAssumption DEF RestoreTypeOK, TypeOK, Pipes, WholeInv, download,
         result, vars, file
<1>1. ASSUME Upload PROVE RestoreTypeOK'
  <2>1. {cut', torn'} \subseteq BOOLEAN /\ {decErr', copyErr', trailer'} \subseteq BOOLEAN
    BY <1>1, Zenon DEF Upload
  <2>2. plain' \in Pipes
    BY <1>1 DEF Upload
  <2>3. /\ served' \in 0 .. received'
        /\ rst' \in {"waiting", "open", "create", "header", "chunk", "gzip", "copy", "close",
                     "await", "restored", "failed"}
        /\ dec' \in {"off", "read", "write", "returned", "done"}
    BY <1>1, UploadGrows DEF Upload
  <2>4. dest' \in [new : BOOLEAN, chunks : 0 .. chunks', refused : BOOLEAN]
    BY <1>1, UploadGrows DEF Upload
  <2>. QED
    BY <2>1, <2>2, <2>3, <2>4, UploadKept, Zenon DEF RestoreTypeOK
<1>2. ASSUME PickVersion PROVE RestoreTypeOK'
  <2>1. {cut', torn'} \subseteq BOOLEAN /\ {decErr', copyErr', trailer'} \subseteq BOOLEAN
    BY <1>2, Zenon DEF PickVersion
  <2>2. plain' \in Pipes
    BY <1>2 DEF PickVersion
  <2>3. /\ served' \in 0 .. received'
        /\ rst' \in {"waiting", "open", "create", "header", "chunk", "gzip", "copy", "close",
                     "await", "restored", "failed"}
        /\ dec' \in {"off", "read", "write", "returned", "done"}
    BY <1>2 DEF PickVersion
  <2>4. dest' \in [new : BOOLEAN, chunks : 0 .. chunks', refused : BOOLEAN]
    BY <1>2 DEF PickVersion
  <2>. QED
    BY <2>1, <2>2, <2>3, <2>4, UploadKept, Zenon DEF RestoreTypeOK
<1>3. ASSUME Download PROVE RestoreTypeOK'
  BY <1>3 DEF Download
<1>4. ASSUME DownloadFails PROVE RestoreTypeOK'
  BY <1>4 DEF DownloadFails
<1>5. ASSUME Create PROVE RestoreTypeOK'
  <2>1. {cut', torn'} \subseteq BOOLEAN /\ {decErr', copyErr', trailer'} \subseteq BOOLEAN
    BY <1>5, Zenon DEF Create, Untouched
  <2>2. plain' \in Pipes
    BY <1>5 DEF Create, Untouched
  <2>3. /\ served' \in 0 .. received'
        /\ rst' \in {"waiting", "open", "create", "header", "chunk", "gzip", "copy", "close",
                     "await", "restored", "failed"}
        /\ dec' \in {"off", "read", "write", "returned", "done"}
    BY <1>5 DEF Create, Untouched
  <2>4. dest' \in [new : BOOLEAN, chunks : 0 .. chunks', refused : BOOLEAN]
    BY <1>5 DEF Create, Untouched
  <2>. QED
    BY <2>1, <2>2, <2>3, <2>4, UploadKept, Zenon DEF RestoreTypeOK
<1>6. ASSUME Header PROVE RestoreTypeOK'
  BY <1>6 DEF Header
<1>7. ASSUME Chunk PROVE RestoreTypeOK'
  <2>1. {cut', torn'} \subseteq BOOLEAN /\ {decErr', copyErr', trailer'} \subseteq BOOLEAN
    BY <1>7, Zenon DEF Chunk, AtEOF
  <2>2. plain' \in Pipes
    BY <1>7 DEF Chunk, AtEOF
  <2>3. /\ served' \in 0 .. received'
        /\ rst' \in {"waiting", "open", "create", "header", "chunk", "gzip", "copy", "close",
                     "await", "restored", "failed"}
        /\ dec' \in {"off", "read", "write", "returned", "done"}
    BY <1>7 DEF Chunk, AtEOF
  <2>4. dest' \in [new : BOOLEAN, chunks : 0 .. chunks', refused : BOOLEAN]
    <3>1. \/ dest' = dest \/ dest' = [dest EXCEPT !.refused = TRUE]
          \/ dest' = [dest EXCEPT !.chunks = @ + 1] /\ dest.chunks + 1 \in 0 .. chunks
      BY <1>7 DEF Chunk, AtEOF
    <3>2. chunks' = chunks
      BY <1>7 DEF Chunk
    <3>. QED
      BY <3>1, <3>2
  <2>. QED
    BY <2>1, <2>2, <2>3, <2>4, UploadKept, Zenon DEF RestoreTypeOK
<1>8. ASSUME GzipOpen PROVE RestoreTypeOK'
  <2>1. {cut', torn'} \subseteq BOOLEAN /\ {decErr', copyErr', trailer'} \subseteq BOOLEAN
    BY <1>8, Zenon DEF GzipOpen
  <2>2. plain' \in Pipes
    BY <1>8 DEF GzipOpen
  <2>3. /\ served' \in 0 .. received'
        /\ rst' \in {"waiting", "open", "create", "header", "chunk", "gzip", "copy", "close",
                     "await", "restored", "failed"}
        /\ dec' \in {"off", "read", "write", "returned", "done"}
    BY <1>8 DEF GzipOpen
  <2>4. dest' \in [new : BOOLEAN, chunks : 0 .. chunks', refused : BOOLEAN]
    BY <1>8 DEF GzipOpen
  <2>. QED
    BY <2>1, <2>2, <2>3, <2>4, UploadKept, Zenon DEF RestoreTypeOK
<1>9. ASSUME Inflate PROVE RestoreTypeOK'
  <2>1. {cut', torn'} \subseteq BOOLEAN /\ {decErr', copyErr', trailer'} \subseteq BOOLEAN
    BY <1>9, ZenonT(60) DEF Inflate, GzipEnd
  <2>2. plain' \in Pipes
    BY <1>9 DEF Inflate, GzipEnd
  <2>3. /\ served' \in 0 .. received'
        /\ rst' \in {"waiting", "open", "create", "header", "chunk", "gzip", "copy", "close",
                     "await", "restored", "failed"}
        /\ dec' \in {"off", "read", "write", "returned", "done"}
    BY <1>9 DEF Inflate, GzipEnd
  <2>4. dest' \in [new : BOOLEAN, chunks : 0 .. chunks', refused : BOOLEAN]
    <3>1. \/ dest' = dest \/ dest' = [dest EXCEPT !.refused = TRUE]
          \/ dest' = [dest EXCEPT !.chunks = @ + 1] /\ dest.chunks + 1 \in 0 .. chunks
      BY <1>9 DEF Inflate, GzipEnd
    <3>2. chunks' = chunks
      BY <1>9 DEF Inflate
    <3>. QED
      BY <3>1, <3>2
  <2>. QED
    BY <2>1, <2>2, <2>3, <2>4, UploadKept, Zenon DEF RestoreTypeOK
<1>10. ASSUME InflateClose PROVE RestoreTypeOK'
  BY <1>10 DEF InflateClose
<1>11. ASSUME InflateEnd PROVE RestoreTypeOK'
  BY <1>11 DEF InflateEnd
<1>12. ASSUME DecRead PROVE RestoreTypeOK'
  <2>1. {cut', torn'} \subseteq BOOLEAN /\ {decErr', copyErr', trailer'} \subseteq BOOLEAN
    BY <1>12, Zenon DEF DecRead, AtEOF
  <2>2. plain' \in Pipes
    BY <1>12 DEF DecRead, AtEOF
  <2>3. /\ served' \in 0 .. received'
        /\ rst' \in {"waiting", "open", "create", "header", "chunk", "gzip", "copy", "close",
                     "await", "restored", "failed"}
        /\ dec' \in {"off", "read", "write", "returned", "done"}
    BY <1>12 DEF DecRead, AtEOF
  <2>4. dest' \in [new : BOOLEAN, chunks : 0 .. chunks', refused : BOOLEAN]
    BY <1>12 DEF DecRead, AtEOF
  <2>. QED
    BY <2>1, <2>2, <2>3, <2>4, UploadKept, Zenon DEF RestoreTypeOK
<1>13. ASSUME DecWritten PROVE RestoreTypeOK'
  <2>1. {cut', torn'} \subseteq BOOLEAN /\ {decErr', copyErr', trailer'} \subseteq BOOLEAN
    BY <1>13, Zenon DEF DecWritten, Written, Refused
  <2>2. plain' \in Pipes
    BY <1>13 DEF DecWritten, Written, Refused
  <2>3. /\ served' \in 0 .. received'
        /\ rst' \in {"waiting", "open", "create", "header", "chunk", "gzip", "copy", "close",
                     "await", "restored", "failed"}
        /\ dec' \in {"off", "read", "write", "returned", "done"}
    BY <1>13 DEF DecWritten, Written, Refused
  <2>4. dest' \in [new : BOOLEAN, chunks : 0 .. chunks', refused : BOOLEAN]
    BY <1>13 DEF DecWritten, Written, Refused
  <2>. QED
    BY <2>1, <2>2, <2>3, <2>4, UploadKept, Zenon DEF RestoreTypeOK
<1>14. ASSUME DecClose PROVE RestoreTypeOK'
  BY <1>14 DEF DecClose, CloseWithError
<1>15. ASSUME UNCHANGED rvars PROVE RestoreTypeOK'
  BY <1>15 DEF rvars
<1>. QED
  BY <1>1, <1>2, <1>3, <1>4, <1>5, <1>6, <1>7, <1>8, <1>9, <1>10, <1>11, <1>12, <1>13,
     <1>14, <1>15 DEF RNext, Restorer, Decryptor

LEMMA WholeStep == UploadInv /\ RestoreTypeOK /\ WholeInv /\ [RNext]_rvars => WholeInv'
<1>. SUFFICES ASSUME UploadInv, RestoreTypeOK, WholeInv, [RNext]_rvars PROVE WholeInv'
  OBVIOUS
<1>. USE RoundTripAssumption DEF RestoreTypeOK, TypeOK, Pipes, WholeInv, download,
         result, vars, file
<1>1. ASSUME Upload PROVE WholeInv'
  <2>1. compress' = compress /\ chunks' = chunks
    BY <1>1, UploadGrows DEF Upload
  <2>2. main = "ok" => main' = "ok" /\ received' = received
    BY <1>1, OkStays DEF Upload
  <2>3. UNCHANGED <<download, rst, dec, plain, result>>
    BY <1>1 DEF Upload
  <2>. QED
    BY <2>1, <2>2, <2>3
<1>2. ASSUME PickVersion PROVE WholeInv'
  BY <1>2 DEF PickVersion
<1>3. ASSUME Download PROVE WholeInv'
  <2>1. PICK n \in 0 .. received, t \in BOOLEAN :
            served' = n /\ torn' = t /\ cut' = (n < received)
    BY <1>3 DEF Download
  <2>2. cut' = FALSE => served' = received
    <3>1. cut' = FALSE => ~(n < received)
      BY <2>1, Zenon
    <3>. QED
      BY <2>1, <3>1
  <2>3. /\ rst = "open" /\ rst' = "create"
        /\ UNCHANGED <<vars, dec, plain, result>>
    BY <1>3 DEF Download
  <2>. QED
    BY <2>2, <2>3
<1>4. ASSUME DownloadFails PROVE WholeInv'
  BY <1>4 DEF DownloadFails
<1>5. ASSUME Create PROVE WholeInv'
  BY <1>5 DEF Create, Untouched
<1>6. ASSUME Header PROVE WholeInv'
  <2>1. received = Whole /\ main = "ok"
    BY <1>6, UploadWhole DEF Header, OkMeansWhole
  <2>2. compress = FALSE => received = 1 + chunks
    BY <2>1 DEF Whole
  <2>3. CASE served = 0
    BY <1>6, <2>3 DEF Header
  <2>4. CASE served # 0 /\ compress = TRUE
    BY <1>6, <2>4 DEF Header
  <2>5. CASE served # 0 /\ compress = FALSE
    <3>1. /\ served' = served - 1 /\ rst' = "chunk" /\ rst = "header"
          /\ UNCHANGED <<vars, cut, torn, plain, result, dec>>
      BY <1>6, <2>5 DEF Header
    <3>2. dest' = dest /\ received' = received /\ chunks' = chunks
      BY <3>1
    <3>3. served' <= chunks /\ (cut = FALSE => served' = chunks)
      BY <2>2, <2>5, <3>1
    <3>. QED
      BY <2>1, <2>5, <3>1, <3>2, <3>3
  <2>. QED
    BY <2>3, <2>4, <2>5
<1>7. ASSUME Chunk PROVE WholeInv'
  BY <1>7 DEF Chunk, AtEOF
<1>8. ASSUME GzipOpen PROVE WholeInv'
  BY <1>8 DEF GzipOpen
<1>9. ASSUME Inflate PROVE WholeInv'
  BY <1>9 DEF Inflate, GzipEnd
<1>10. ASSUME InflateClose PROVE WholeInv'
  BY <1>10 DEF InflateClose
<1>11. ASSUME InflateEnd PROVE WholeInv'
  BY <1>11 DEF InflateEnd
<1>12. ASSUME DecRead PROVE WholeInv'
  BY <1>12 DEF DecRead, AtEOF
<1>13. ASSUME DecWritten PROVE WholeInv'
  BY <1>13 DEF DecWritten, Written, Refused
<1>14. ASSUME DecClose PROVE WholeInv'
  BY <1>14 DEF DecClose, CloseWithError
<1>15. ASSUME UNCHANGED rvars PROVE WholeInv'
  BY <1>15 DEF rvars
<1>. QED
  BY <1>1, <1>2, <1>3, <1>4, <1>5, <1>6, <1>7, <1>8, <1>9, <1>10, <1>11, <1>12, <1>13,
     <1>14, <1>15 DEF RNext, Restorer, Decryptor

LEMMA AlarmStep ==
    UploadInv /\ RestoreTypeOK /\ WholeInv /\ AlarmInv /\ [RNext]_rvars => AlarmInv'
<1>. SUFFICES ASSUME UploadInv, RestoreTypeOK, WholeInv, AlarmInv, [RNext]_rvars
              PROVE  AlarmInv'
  OBVIOUS
<1>. USE RoundTripAssumption DEF RestoreTypeOK, TypeOK, Pipes, AlarmInv, download, result,
         vars, file, Bit, NewPipe
<1>1. ASSUME Upload PROVE AlarmInv'
  <2>1. compress' = compress /\ chunks' = chunks
    BY <1>1, UploadGrows DEF Upload
  <2>2. UNCHANGED <<download, rst, dec, plain, result>>
    BY <1>1 DEF Upload
  <2>. QED
    BY <2>1, <2>2
<1>2. ASSUME PickVersion PROVE AlarmInv'
  BY <1>2 DEF PickVersion
<1>3. ASSUME Download PROVE AlarmInv'
  <2>1. PICK n \in 0 .. received, t \in BOOLEAN :
            (t => n < received) /\ served' = n /\ torn' = t /\ cut' = (n < received)
    BY <1>3 DEF Download
  <2>2. cut' = FALSE => torn' = FALSE
    BY <2>1, Zenon
  <2>3. rst = "open" /\ rst' = "create" /\ UNCHANGED <<vars, dec, plain, result>>
    BY <1>3 DEF Download
  <2>. QED
    BY <2>2, <2>3
<1>4. ASSUME DownloadFails PROVE AlarmInv'
  BY <1>4 DEF DownloadFails
<1>5. ASSUME Create PROVE AlarmInv'
  BY <1>5 DEF Create, Untouched
<1>6. ASSUME Header PROVE AlarmInv'
  <2>1. received = Whole
    BY <1>6, UploadWhole DEF Header, OkMeansWhole, WholeInv
  <2>2. cut = FALSE => served = received
    BY <1>6 DEF Header, WholeInv
  <2>3. dest.chunks = 0 /\ trailer = FALSE
    BY <1>6 DEF Header, WholeInv
  <2>. QED
    BY <1>6, <2>1, <2>2, <2>3 DEF Header, Whole
<1>7. ASSUME Chunk PROVE AlarmInv'
  BY <1>7 DEF Chunk, AtEOF, WholeInv
<1>8. ASSUME GzipOpen PROVE AlarmInv'
  BY <1>8 DEF GzipOpen, WholeInv
<1>9. ASSUME Inflate PROVE AlarmInv'
  BY <1>9 DEF Inflate, GzipEnd, WholeInv
<1>10. ASSUME InflateClose PROVE AlarmInv'
  BY <1>10 DEF InflateClose
<1>11. ASSUME InflateEnd PROVE AlarmInv'
  BY <1>11 DEF InflateEnd, WholeInv
<1>12. ASSUME DecRead PROVE AlarmInv'
  BY <1>12 DEF DecRead, AtEOF, WholeInv
<1>13. ASSUME DecWritten PROVE AlarmInv'
  BY <1>13 DEF DecWritten, Written, Refused, WholeInv
<1>14. ASSUME DecClose PROVE AlarmInv'
  BY <1>14 DEF DecClose, CloseWithError, WholeInv
<1>15. ASSUME UNCHANGED rvars PROVE AlarmInv'
  BY <1>15 DEF rvars
<1>. QED
  BY <1>1, <1>2, <1>3, <1>4, <1>5, <1>6, <1>7, <1>8, <1>9, <1>10, <1>11, <1>12, <1>13,
     <1>14, <1>15 DEF RNext, Restorer, Decryptor

-----------------------------------------------------------------------------
(* The theorems *)

LEMMA RoundTripInit == RInit => RoundTripInv
<1>. SUFFICES ASSUME RInit PROVE RoundTripInv
  OBVIOUS
<1>1. UploadInv
  BY UploadInvInit DEF RInit
<1>2. /\ cut = FALSE /\ torn = FALSE /\ decErr = FALSE /\ copyErr = FALSE /\ trailer = FALSE
      /\ dest = Untouched /\ plain = NewPipe
  BY Zenon DEF RInit
<1>3. rst = "waiting" /\ dec = "off" /\ served = 0
  BY DEF RInit
<1>4. chunks \in Nat /\ received \in Nat
  BY <1>1 DEF UploadInv, TypeOK
<1>5. RestoreTypeOK
  <2>1. {cut, torn} \subseteq BOOLEAN /\ {decErr, copyErr, trailer} \subseteq BOOLEAN
    BY <1>2, Zenon
  <2>2. plain \in Pipes
    BY <1>2 DEF NewPipe, Pipes
  <2>3. dest \in [new : BOOLEAN, chunks : 0 .. chunks, refused : BOOLEAN]
    BY <1>2, <1>4 DEF Untouched
  <2>4. served \in 0 .. received
    BY <1>3, <1>4
  <2>. QED
    BY <1>1, <1>3, <2>1, <2>2, <2>3, <2>4 DEF RestoreTypeOK, UploadInv
<1>6. WholeInv
  BY <1>2, <1>3 DEF WholeInv, Untouched
<1>7. AlarmInv
  BY <1>2, <1>3 DEF AlarmInv, Untouched
<1>. QED
  BY <1>1, <1>5, <1>6, <1>7 DEF RoundTripInv

LEMMA RoundTripStep == RoundTripInv /\ [RNext]_rvars => RoundTripInv'
  BY UploadKept, RestoreTypeStep, WholeStep, AlarmStep DEF RoundTripInv

\* The strengthened invariant of an upload and the restore that follows it.
THEOREM RoundTripInvariant == RSpec => []RoundTripInv
  BY RoundTripInit, RoundTripStep, PTL DEF RSpec

\* Types; a download never delivers more than was sent, nor a restore more chunks
\* than the file has.
THEOREM RestoreTypeCorrect == RSpec => []RestoreTypeOK
<1>1. RoundTripInv => RestoreTypeOK
  BY DEF RoundTripInv
<1>. QED
  BY <1>1, RoundTripInvariant, PTL

\* What a later restore finds: nothing but whole blobs are recorded.
THEOREM OkMeansWholeHolds == RSpec => []OkMeansWhole
<1>1. RoundTripInv => OkMeansWhole
  BY UploadWhole DEF RoundTripInv
<1>. QED
  BY <1>1, RoundTripInvariant, PTL

\* A restore that reports success has every chunk of the file, except for an
\* uncompressed blob that was cut exactly between two chunks.
THEOREM RestoredWholeHolds == RSpec => []RestoredWhole
<1>1. RoundTripInv => RestoredWhole
  <2>. SUFFICES ASSUME RoundTripInv, rst = "restored"
                PROVE  dest.new /\ (dest.chunks = chunks \/ (~compress /\ cut /\ ~torn))
    BY DEF RestoredWhole
  <2>1. dest.new = TRUE
    BY DEF RoundTripInv, WholeInv
  <2>2. CASE compress = FALSE
    <3>1. dest.chunks = chunks \/ (cut = TRUE /\ torn = FALSE)
      BY <2>2 DEF RoundTripInv, WholeInv
    <3>. QED
      BY <2>1, <2>2, <3>1, Zenon
  <2>3. CASE compress = TRUE
    <3>1. copyErr = FALSE => dest.chunks = chunks
      BY <2>3 DEF RoundTripInv, WholeInv
    <3>. QED
      BY <2>1, <2>3, <3>1 DEF RoundTripInv, WholeInv, RestoreTypeOK
  <2>. QED
    BY <2>2, <2>3 DEF RoundTripInv, UploadInv, TypeOK
<1>. QED
  BY <1>1, RoundTripInvariant, PTL

\* A restore whose destination is open fails for a reason: the download was not
\* whole, or the destination refused a chunk.  The closing of the pipe from either
\* end, in whatever order the two goroutines come to it, is none.
THEOREM NoFalseAlarmHolds == RSpec => []NoFalseAlarm
<1>1. RoundTripInv => NoFalseAlarm
  BY DEF RoundTripInv, AlarmInv, NoFalseAlarm, RestoreTypeOK, UploadInv, TypeOK
<1>. QED
  BY <1>1, RoundTripInvariant, PTL

-----------------------------------------------------------------------------
(* Progress of the upload.  ENABLED is out of the prover's reach, so what      *)
(* UploadReturns and GoroutinesEnd need of the code is stated by the guards of *)
(* the actions and by a measure.                                               *)

CompressorReady ==
    \/ comp \in {"read", "close"}
    \/ comp \in {"write", "trailer"} /\ inner.full = FALSE

EncryptorReady ==
    \/ enc = "header"
    \/ enc = "read" /\ (compress = FALSE \/ inner.full = TRUE \/ inner.wend # "open")
    \/ enc = "write" /\ (outer.full = FALSE \/ outer.rend = "closed")
    \/ enc = "returned" /\ comp = "done"

WorkerReady ==
    \/ main \in {"open", "closepipe"}
    \/ main = "copy" /\ (outer.full = TRUE \/ outer.wend # "open")
    \/ main = "await" /\ enc = "done"

UploadReady == CompressorReady \/ EncryptorReady \/ WorkerReady

UploadDone == main \in {"ok", "error"} /\ enc = "done" /\ comp = "done"

\* The compressor writes to a pipe whose reader, the encryptor, has given up and
\* waits for the compressor; the worker waits for the encryptor.
Orphaned ==
    /\ compress = TRUE /\ uploadErr = TRUE
    /\ comp \in {"write", "trailer"} /\ inner.full = TRUE
    /\ enc = "returned" /\ encErr = TRUE /\ main = "await"

\* What one of the three knows of the others while it waits.
WaitInv ==
    /\ compress = FALSE => comp = "done"
    /\ compress = TRUE /\ comp = "done" => inner.wend # "open"
    /\ enc = "done" => comp = "done"
    /\ enc = "returned" /\ comp # "done" => encErr = TRUE /\ outer.rend = "closed"
    /\ outer.rend = "closed" <=> main \in {"await", "ok", "error"}
    /\ main \in {"ok", "error"} => enc = "done"
    /\ outer.rend = "closed" /\ enc # "done" => uploadErr = TRUE
    /\ uploadErr = TRUE /\ enc # "done" => UploadMayFail

LEMMA WaitStep == TypeOK /\ PipeInv /\ WaitInv /\ [Next]_vars => WaitInv'
<1>. SUFFICES ASSUME TypeOK, PipeInv, WaitInv, [Next]_vars PROVE WaitInv'
  OBVIOUS
<1>. USE UploadPipelineAssumption DEF TypeOK, Pipes, PipeInv, WaitInv, UploadMayFail, file
<1>1. ASSUME CompRead PROVE WaitInv'
  BY <1>1 DEF CompRead
<1>2. ASSUME CompReadFails PROVE WaitInv'
  BY <1>2 DEF CompReadFails
<1>3. ASSUME CompWritten PROVE WaitInv'
  BY <1>3 DEF CompWritten, Written
<1>4. ASSUME CompClose PROVE WaitInv'
  BY <1>4 DEF CompClose, CloseWithError
<1>5. ASSUME EncHeader PROVE WaitInv'
  BY <1>5 DEF EncHeader
<1>6. ASSUME EncReadFile PROVE WaitInv'
  BY <1>6 DEF EncReadFile
<1>7. ASSUME EncReadFails PROVE WaitInv'
  BY <1>7 DEF EncReadFails
<1>8. ASSUME EncReadPipe PROVE WaitInv'
  BY <1>8 DEF EncReadPipe
<1>9. ASSUME EncWritten PROVE WaitInv'
  BY <1>9 DEF EncWritten, Written, Refused
<1>10. ASSUME EncClose PROVE WaitInv'
  BY <1>10 DEF EncClose, CloseWithError
<1>11. ASSUME Open PROVE WaitInv'
  BY <1>11 DEF Open
<1>12. ASSUME Copy PROVE WaitInv'
  BY <1>12 DEF Copy
<1>13. ASSUME CopyEnds PROVE WaitInv'
  BY <1>13 DEF CopyEnds
<1>14. ASSUME ClosePipe PROVE WaitInv'
  BY <1>14 DEF ClosePipe
<1>15. ASSUME Return PROVE WaitInv'
  BY <1>15 DEF Return
<1>16. ASSUME UNCHANGED vars PROVE WaitInv'
  BY <1>16 DEF vars
<1>. QED
  BY <1>1, <1>2, <1>3, <1>4, <1>5, <1>6, <1>7, <1>8, <1>9, <1>10, <1>11, <1>12, <1>13,
     <1>14, <1>15, <1>16 DEF Next, Compressor, Encryptor, Worker

LEMMA WaitInit == Init => WaitInv
<1>. SUFFICES ASSUME Init PROVE WaitInv
  OBVIOUS
<1>1. outer = NewPipe /\ uploadErr = FALSE
  BY Zenon DEF Init
<1>2. enc = "header" /\ main = "open" /\ comp = IF compress THEN "read" ELSE "done"
  BY DEF Init
<1>3. NewPipe.rend = "open"
  BY DEF NewPipe
<1>. QED
  BY <1>1, <1>2, <1>3 DEF WaitInv

\* A round trip takes the steps of an upload, or none of them.
LEMMA RoundTripUploads == RSpec => Init /\ [][Next]_vars
<1>1. RInit => Init
  BY DEF RInit
<1>2. [RNext]_rvars => [Next]_vars
  BY DEF RNext, Upload, Restorer, Decryptor, rvars, PickVersion, Download, DownloadFails,
         Create, Header, Chunk, GzipOpen, Inflate, InflateClose, InflateEnd, DecRead,
         DecWritten, DecClose
<1>. QED
  BY <1>1, <1>2, PTL DEF RSpec

LEMMA UploadInvariants == Init /\ [][Next]_vars => [](UploadInv /\ WaitInv)
<1>1. UploadInv /\ WaitInv /\ [Next]_vars => (UploadInv /\ WaitInv)'
  BY UploadInvStep, WaitStep DEF UploadInv
<1>. QED
  BY <1>1, UploadInvInit, WaitInit, PTL

LEMMA WaitingIsOrphaned ==
    ASSUME UploadInv, WaitInv, ~UploadDone, ~UploadReady
    PROVE  Orphaned
<1>. USE DEF UploadInv, TypeOK, PipeInv, WaitInv, Pipes
<1>1. comp \in {"write", "trailer", "done"} /\ (comp # "done" => inner.full = TRUE)
  BY DEF UploadReady, CompressorReady
<1>2. main \in {"copy", "await", "ok", "error"}
  BY DEF UploadReady, WorkerReady
<1>3. enc # "header"
  BY DEF UploadReady, EncryptorReady
<1>4. enc # "read"
  <2>. SUFFICES ASSUME enc = "read" PROVE FALSE
    OBVIOUS
  <2>1. compress = TRUE /\ inner.full = FALSE /\ inner.wend = "open"
    BY DEF UploadReady, EncryptorReady
  <2>. QED
    BY <1>1, <2>1
<1>5. enc # "write"
  <2>. SUFFICES ASSUME enc = "write" PROVE FALSE
    OBVIOUS
  <2>1. outer.full = TRUE /\ outer.rend = "open"
    BY DEF UploadReady, EncryptorReady
  <2>2. main = "copy"
    BY <1>2, <2>1
  <2>. QED
    BY <2>1, <2>2 DEF UploadReady, WorkerReady
<1>6. enc # "done"
  <2>. SUFFICES ASSUME enc = "done" PROVE FALSE
    OBVIOUS
  <2>1. outer.wend # "open" /\ comp = "done"
    OBVIOUS
  <2>. QED
    BY <1>2, <2>1 DEF UploadReady, WorkerReady, UploadDone
<1>7. enc = "returned" /\ comp # "done"
  BY <1>3, <1>4, <1>5, <1>6 DEF UploadReady, EncryptorReady
<1>8. compress = TRUE /\ encErr = TRUE /\ uploadErr = TRUE
  BY <1>7
<1>9. main = "await"
  BY <1>2, <1>7
<1>. QED
  BY <1>1, <1>7, <1>8, <1>9 DEF Orphaned

\* An upload that is not over can go on, with one exception: compression is on,
\* the upload has failed, and the compressor is left writing to a pipe that
\* nobody reads (encrypt.go:236 closes a read end, but only on restore).
THEOREM UploadStuckOnlyOrphaned ==
    Init /\ [][Next]_vars => [](~UploadDone => UploadReady \/ Orphaned)
<1>1. UploadInv /\ WaitInv => (~UploadDone => UploadReady \/ Orphaned)
  BY WaitingIsOrphaned
<1>. QED
  BY <1>1, UploadInvariants, PTL

\* That state is final: no goroutine of the upload ever takes a step again.
THEOREM OrphanedForEver == Init /\ [][Next]_vars => [][~Orphaned]_vars
<1>1. ASSUME Next, Orphaned PROVE FALSE
  <2>. USE <1>1 DEF Orphaned
  <2>1. ~Compressor
    BY DEF Compressor, CompRead, CompReadFails, CompWritten, CompClose, Written
  <2>2. ~Encryptor
    BY DEF Encryptor, EncHeader, EncReadFile, EncReadFails, EncReadPipe, EncWritten, EncClose
  <2>3. ~Worker
    BY DEF Worker, Open, Copy, CopyEnds, ClosePipe, Return
  <2>. QED
    BY <2>1, <2>2, <2>3 DEF Next
<1>2. [Next]_vars => [~Orphaned]_vars
  BY <1>1
<1>. QED
  BY <1>2, PTL

\* Without a failure of the server while compression is on, no goroutine of an
\* upload is ever left behind, wherever its source fails.
THEOREM UploadNeverStuck ==
    ASSUME TRUE \notin FailingWith
    PROVE  Init /\ [][Next]_vars => [](~UploadDone => UploadReady)
<1>1. UploadInv /\ WaitInv => ~Orphaned
  BY DEF Orphaned, WaitInv, UploadMayFail
<1>. QED
  BY <1>1, UploadInvariants, UploadStuckOnlyOrphaned, PTL

-----------------------------------------------------------------------------
CompRank == [read |-> 6, write |-> 7, trailer |-> 2, close |-> 1, done |-> 0]
EncRank == [header |-> 5, read |-> 2, write |-> 3, returned |-> 1, done |-> 0]
MainRank == [open |-> 4, copy |-> 3, closepipe |-> 2, await |-> 1, ok |-> 0, error |-> 0]

\* No step of an upload can be taken more often than this.
UploadLeft ==
    5 * left + CompRank[comp] + 3 * Bit(inner.full = TRUE) + EncRank[enc]
        + Bit(outer.full = TRUE) + MainRank[main]

LEMMA UploadRanks ==
    /\ CompRank["read"] = 6 /\ CompRank["write"] = 7 /\ CompRank["trailer"] = 2
    /\ CompRank["close"] = 1 /\ CompRank["done"] = 0
    /\ EncRank["header"] = 5 /\ EncRank["read"] = 2 /\ EncRank["write"] = 3
    /\ EncRank["returned"] = 1 /\ EncRank["done"] = 0
    /\ MainRank["open"] = 4 /\ MainRank["copy"] = 3 /\ MainRank["closepipe"] = 2
    /\ MainRank["await"] = 1 /\ MainRank["ok"] = 0 /\ MainRank["error"] = 0
  BY DEF CompRank, EncRank, MainRank

LEMMA Bits == Bit(TRUE) = 1 /\ Bit(FALSE) = 0
  BY DEF Bit

\* The parts of the measure.
LEMMA UploadParts ==
    TypeOK =>
        /\ left \in Nat /\ CompRank[comp] \in Nat /\ EncRank[enc] \in Nat
        /\ MainRank[main] \in Nat
        /\ Bit(inner.full = TRUE) \in {0, 1} /\ Bit(outer.full = TRUE) \in {0, 1}
        /\ UploadLeft \in Nat
  <1>. SUFFICES ASSUME TypeOK
                PROVE  /\ left \in Nat /\ CompRank[comp] \in Nat /\ EncRank[enc] \in Nat
                       /\ MainRank[main] \in Nat
                       /\ Bit(inner.full = TRUE) \in {0, 1} /\ Bit(outer.full = TRUE) \in {0, 1}
                       /\ UploadLeft \in Nat
    OBVIOUS
  <1>1. left \in Nat
    BY DEF TypeOK
  <1>2. CompRank[comp] \in Nat /\ EncRank[enc] \in Nat /\ MainRank[main] \in Nat
    BY UploadRanks DEF TypeOK
  <1>3. Bit(inner.full = TRUE) \in {0, 1} /\ Bit(outer.full = TRUE) \in {0, 1}
    BY DEF Bit
  <1>. QED
    BY <1>1, <1>2, <1>3 DEF UploadLeft

LEMMA UploadLeftStep == UploadInv /\ Next => UploadLeft' < UploadLeft
<1>. SUFFICES ASSUME UploadInv, TypeOK, Next PROVE UploadLeft' < UploadLeft
  BY DEF UploadInv
<1>0. /\ left \in Nat /\ CompRank[comp] \in Nat /\ EncRank[enc] \in Nat
      /\ MainRank[main] \in Nat
      /\ Bit(inner.full = TRUE) \in {0, 1} /\ Bit(outer.full = TRUE) \in {0, 1}
      /\ Bit(inner'.full = TRUE) \in {0, 1} /\ Bit(outer'.full = TRUE) \in {0, 1}
  BY UploadParts DEF Bit
<1>. USE UploadRanks DEF file
<1>1. ASSUME CompRead PROVE UploadLeft' < UploadLeft
  <2>1. /\ comp = "read" /\ UNCHANGED <<enc, main, outer>>
        /\ \/ left > 0 /\ left' = left - 1 /\ comp' = "write"
           \/ left' = left /\ comp' = "trailer"
    BY <1>0, <1>1 DEF CompRead
  <2>. QED
    BY <1>0, <2>1 DEF UploadLeft
<1>2. ASSUME CompReadFails \/ CompWritten PROVE UploadLeft' < UploadLeft
  <2>1. /\ UNCHANGED <<left, enc, main, inner, outer>>
        /\ \/ comp = "read" /\ comp' = "close"
           \/ comp = "write" /\ comp' = "read"
           \/ comp = "trailer" /\ comp' = "close"
    BY <1>2 DEF CompReadFails, CompWritten
  <2>. QED
    BY <1>0, <2>1 DEF UploadLeft
<1>3. ASSUME CompClose PROVE UploadLeft' < UploadLeft
  <2>1. /\ comp = "close" /\ comp' = "done" /\ UNCHANGED <<left, enc, main, outer>>
        /\ inner'.full = inner.full
    BY <1>3 DEF CompClose, CloseWithError, TypeOK, Pipes
  <2>. QED
    BY <1>0, <2>1 DEF UploadLeft
<1>4. ASSUME EncHeader PROVE UploadLeft' < UploadLeft
  <2>1. /\ enc = "header" /\ enc' = "write" /\ UNCHANGED <<left, comp, main, inner>>
    BY <1>4 DEF EncHeader
  <2>. QED
    BY <1>0, <2>1 DEF UploadLeft
<1>5. ASSUME EncReadFile PROVE UploadLeft' < UploadLeft
  <2>1. /\ enc = "read" /\ UNCHANGED <<comp, main, inner>>
        /\ \/ left > 0 /\ left' = left - 1 /\ enc' = "write"
           \/ left' = left /\ enc' = "returned" /\ outer' = outer
    BY <1>5 DEF EncReadFile
  <2>. QED
    BY <1>0, <2>1 DEF UploadLeft
<1>6. ASSUME EncReadPipe PROVE UploadLeft' < UploadLeft
  <2>1. /\ enc = "read" /\ UNCHANGED <<left, comp, main>>
        /\ \/ inner.full = TRUE /\ inner'.full = FALSE /\ enc' = "write"
           \/ enc' = "returned" /\ UNCHANGED <<inner, outer>>
    BY <1>6 DEF EncReadPipe, TypeOK, Pipes
  <2>2. inner.full = TRUE => Bit(inner.full = TRUE) = 1
    BY DEF Bit
  <2>3. inner'.full = FALSE => Bit(inner'.full = TRUE) = 0
    BY DEF Bit
  <2>. QED
    BY <1>0, <2>1, <2>2, <2>3 DEF UploadLeft
<1>7. ASSUME EncReadFails \/ EncWritten PROVE UploadLeft' < UploadLeft
  <2>1. /\ UNCHANGED <<left, comp, main, inner, outer>>
        /\ \/ enc = "read" /\ enc' = "returned"
           \/ enc = "write" /\ enc' \in {"read", "returned"}
    BY <1>7 DEF EncReadFails, EncWritten
  <2>. QED
    BY <1>0, <2>1 DEF UploadLeft
<1>8. ASSUME EncClose PROVE UploadLeft' < UploadLeft
  <2>1. /\ enc = "returned" /\ enc' = "done" /\ UNCHANGED <<left, comp, main, inner>>
        /\ outer'.full = outer.full
    BY <1>8 DEF EncClose, CloseWithError, TypeOK, Pipes
  <2>. QED
    BY <1>0, <2>1 DEF UploadLeft
<1>9. ASSUME Copy PROVE UploadLeft' < UploadLeft
  <2>1. /\ main = "copy" /\ main' \in {"copy", "closepipe"} /\ UNCHANGED <<left, comp, enc, inner>>
        /\ outer.full = TRUE /\ outer'.full = FALSE
    BY <1>9 DEF Copy, TypeOK, Pipes
  <2>2. Bit(outer.full = TRUE) = 1 /\ Bit(outer'.full = TRUE) = 0
    BY <2>1 DEF Bit
  <2>. QED
    BY <1>0, <2>1, <2>2 DEF UploadLeft
<1>10. ASSUME Open \/ CopyEnds \/ Return PROVE UploadLeft' < UploadLeft
  <2>1. /\ UNCHANGED <<left, comp, enc, inner, outer>>
        /\ \/ main = "open" /\ main' \in {"copy", "closepipe"}
           \/ main = "copy" /\ main' = "closepipe"
           \/ main = "await" /\ main' \in {"ok", "error"}
    BY <1>10 DEF Open, CopyEnds, Return
  <2>. QED
    BY <1>0, <2>1 DEF UploadLeft
<1>11. ASSUME ClosePipe PROVE UploadLeft' < UploadLeft
  <2>1. /\ main = "closepipe" /\ main' = "await" /\ UNCHANGED <<left, comp, enc, inner>>
        /\ outer'.full = outer.full
    BY <1>11 DEF ClosePipe, TypeOK, Pipes
  <2>. QED
    BY <1>0, <2>1 DEF UploadLeft
<1>. QED
  BY <1>1, <1>2, <1>3, <1>4, <1>5, <1>6, <1>7, <1>8, <1>9, <1>10, <1>11
     DEF Next, Compressor, Encryptor, Worker

\* Every step of an upload brings its end nearer, whatever fails: with
\* UploadNeverStuck, processFile comes back from an upload and leaves no
\* goroutine behind (UploadReturns, GoroutinesEnd).
THEOREM UploadComesToAnEnd ==
    Init /\ [][Next]_vars => [](UploadLeft \in Nat) /\ [][UploadLeft' < UploadLeft]_vars
<1>1. UploadInv => UploadLeft \in Nat
  BY UploadParts DEF UploadInv
<1>2. UploadInv /\ [Next]_vars => [UploadLeft' < UploadLeft]_vars
  BY UploadLeftStep
<1>. QED
  BY <1>1, <1>2, UploadInvariants, PTL

-----------------------------------------------------------------------------
(* Progress of the restore *)

RestorerReady ==
    \/ rst = "waiting" /\ main = "ok"
    \/ rst \in {"open", "create", "header", "chunk", "close"}
    \/ rst \in {"gzip", "copy"} /\ (plain.full = TRUE \/ plain.wend # "open")
    \/ rst = "await" /\ dec = "done"

DecryptorReady ==
    \/ dec \in {"read", "returned"}
    \/ dec = "write" /\ (plain.full = FALSE \/ plain.rend = "closed")

RestoreDone == rst \in {"restored", "failed"} /\ dec \in {"off", "done"}

\* What the restore and its decrypting goroutine know of each other.
RestoreWaitInv ==
    /\ rst \in {"gzip", "copy", "close", "await"} => dec # "off"
    /\ rst \in {"restored", "failed"} => dec \in {"off", "done"}
    /\ plain.wend # "open" <=> dec = "done"
    /\ rst = "await" => plain.rend = "closed"

LEMMA RestoreWaitStep ==
    RestoreTypeOK /\ WholeInv /\ RestoreWaitInv /\ [RNext]_rvars => RestoreWaitInv'
<1>. SUFFICES ASSUME RestoreTypeOK, WholeInv, RestoreWaitInv, [RNext]_rvars
              PROVE  RestoreWaitInv'
  OBVIOUS
<1>. USE DEF RestoreTypeOK, Pipes, WholeInv, RestoreWaitInv, download, result
<1>1. ASSUME Upload PROVE RestoreWaitInv'
  BY <1>1 DEF Upload
<1>2. ASSUME PickVersion PROVE RestoreWaitInv'
  BY <1>2 DEF PickVersion
<1>3. ASSUME Download PROVE RestoreWaitInv'
  BY <1>3 DEF Download
<1>4. ASSUME DownloadFails PROVE RestoreWaitInv'
  BY <1>4 DEF DownloadFails
<1>5. ASSUME Create PROVE RestoreWaitInv'
  BY <1>5 DEF Create
<1>6. ASSUME Header PROVE RestoreWaitInv'
  BY <1>6 DEF Header
<1>7. ASSUME Chunk PROVE RestoreWaitInv'
  BY <1>7 DEF Chunk, AtEOF
<1>8. ASSUME GzipOpen PROVE RestoreWaitInv'
  BY <1>8 DEF GzipOpen
<1>9. ASSUME Inflate PROVE RestoreWaitInv'
  BY <1>9 DEF Inflate, GzipEnd
<1>10. ASSUME InflateClose PROVE RestoreWaitInv'
  BY <1>10 DEF InflateClose
<1>11. ASSUME InflateEnd PROVE RestoreWaitInv'
  BY <1>11 DEF InflateEnd
<1>12. ASSUME DecRead PROVE RestoreWaitInv'
  BY <1>12 DEF DecRead, AtEOF
<1>13. ASSUME DecWritten PROVE RestoreWaitInv'
  BY <1>13 DEF DecWritten, Written, Refused
<1>14. ASSUME DecClose PROVE RestoreWaitInv'
  BY <1>14 DEF DecClose, CloseWithError
<1>15. ASSUME UNCHANGED rvars PROVE RestoreWaitInv'
  BY <1>15 DEF rvars
<1>. QED
  BY <1>1, <1>2, <1>3, <1>4, <1>5, <1>6, <1>7, <1>8, <1>9, <1>10, <1>11, <1>12, <1>13,
     <1>14, <1>15 DEF RNext, Restorer, Decryptor

LEMMA RestoreInvariants == RSpec => [](RoundTripInv /\ RestoreWaitInv)
<1>1. RInit => RestoreWaitInv
  <2>. SUFFICES ASSUME RInit PROVE RestoreWaitInv
    OBVIOUS
  <2>1. plain = NewPipe
    BY Zenon DEF RInit
  <2>2. rst = "waiting" /\ dec = "off"
    BY DEF RInit
  <2>. QED
    BY <2>1, <2>2 DEF RestoreWaitInv, NewPipe
<1>2. RoundTripInv /\ RestoreWaitInv /\ [RNext]_rvars => (RoundTripInv /\ RestoreWaitInv)'
  BY RoundTripStep, RestoreWaitStep DEF RoundTripInv
<1>. QED
  BY <1>1, <1>2, RoundTripInit, PTL DEF RSpec

\* A restore of a recorded upload that is not over can always go on: neither of
\* its goroutines waits for the other, whatever the download delivers and the
\* destination refuses ("avoiding a deadlock", encrypt.go:235).
THEOREM RestoreNeverStuck ==
    RSpec => [](main = "ok" /\ ~RestoreDone => RestorerReady \/ DecryptorReady)
<1>1. ASSUME RoundTripInv, RestoreWaitInv, main = "ok", ~RestoreDone,
             ~RestorerReady, ~DecryptorReady
      PROVE  FALSE
  <2>. USE <1>1 DEF RoundTripInv, RestoreTypeOK, Pipes, RestoreWaitInv
  <2>1. rst \in {"gzip", "copy", "await", "restored", "failed"}
    BY DEF RestorerReady
  <2>2. rst \in {"gzip", "copy", "await"}
    BY <2>1 DEF RestoreDone
  <2>3. dec \in {"write", "done"}
    BY <2>2 DEF DecryptorReady
  <2>4. CASE dec = "done"
    BY <2>2, <2>4 DEF RestorerReady
  <2>5. CASE dec = "write"
    <3>1. plain.full = TRUE /\ plain.rend = "open"
      BY <2>5 DEF DecryptorReady
    <3>. QED
      BY <2>2, <3>1 DEF RestorerReady
  <2>. QED
    BY <2>3, <2>4, <2>5
<1>2. RoundTripInv /\ RestoreWaitInv =>
          (main = "ok" /\ ~RestoreDone => RestorerReady \/ DecryptorReady)
  BY <1>1
<1>. QED
  BY <1>2, RestoreInvariants, PTL

RstRank ==
    [waiting |-> 8, open |-> 7, create |-> 6, header |-> 5, gzip |-> 4, copy |-> 3, close |-> 2,
     chunk |-> 1, await |-> 1, restored |-> 0, failed |-> 0]
DecRank == [off |-> 0, read |-> 2, write |-> 3, returned |-> 1, done |-> 0]

\* The units a restore may still get: those of the whole blob before the download.
ToRead == IF rst \in {"waiting", "open"} THEN Whole ELSE served

\* No step of a restore can be taken more often than this.
RestoreLeft == RstRank[rst] + DecRank[dec] + Bit(plain.full = TRUE) + 3 * ToRead

LEMMA RestoreRanks ==
    /\ RstRank["waiting"] = 8 /\ RstRank["open"] = 7 /\ RstRank["create"] = 6
    /\ RstRank["header"] = 5 /\ RstRank["gzip"] = 4 /\ RstRank["copy"] = 3
    /\ RstRank["close"] = 2 /\ RstRank["chunk"] = 1 /\ RstRank["await"] = 1
    /\ RstRank["restored"] = 0 /\ RstRank["failed"] = 0
    /\ DecRank["off"] = 0 /\ DecRank["read"] = 2 /\ DecRank["write"] = 3
    /\ DecRank["returned"] = 1 /\ DecRank["done"] = 0
  BY DEF RstRank, DecRank

\* The parts of the measure.
LEMMA RestoreParts ==
    RestoreTypeOK =>
        /\ RstRank[rst] \in Nat /\ DecRank[dec] \in Nat /\ Bit(plain.full = TRUE) \in {0, 1}
        /\ served \in Nat /\ Whole \in Nat /\ ToRead \in Nat /\ RestoreLeft \in Nat
  <1>. SUFFICES ASSUME RestoreTypeOK
                PROVE  /\ RstRank[rst] \in Nat /\ DecRank[dec] \in Nat
                       /\ Bit(plain.full = TRUE) \in {0, 1} /\ served \in Nat
                       /\ Whole \in Nat /\ ToRead \in Nat /\ RestoreLeft \in Nat
    OBVIOUS
  <1>1. RstRank[rst] \in Nat /\ DecRank[dec] \in Nat
    BY RestoreRanks DEF RestoreTypeOK
  <1>2. Bit(plain.full = TRUE) \in {0, 1}
    BY DEF Bit
  <1>3. served \in Nat /\ Whole \in Nat
    BY DEF RestoreTypeOK, TypeOK, Whole
  <1>4. ToRead \in Nat
    BY <1>3 DEF ToRead
  <1>. QED
    BY <1>1, <1>2, <1>3, <1>4 DEF RestoreLeft

LEMMA RestoreLeftStep ==
    RoundTripInv /\ (Restorer \/ Decryptor) => RestoreLeft' < RestoreLeft /\ vars' = vars
<1>. SUFFICES ASSUME RoundTripInv, Restorer \/ Decryptor
              PROVE  RestoreLeft' < RestoreLeft /\ vars' = vars
  OBVIOUS
<1>0. /\ RstRank[rst] \in Nat /\ DecRank[dec] \in Nat /\ served \in Nat /\ Whole \in Nat
      /\ Bit(plain.full = TRUE) \in {0, 1} /\ Bit(plain'.full = TRUE) \in {0, 1}
  BY RestoreParts DEF RoundTripInv, Bit
<1>v. vars' = vars
  BY DEF Restorer, Decryptor, PickVersion, Download, DownloadFails, Create, Header, Chunk,
         GzipOpen, Inflate, InflateClose, InflateEnd, DecRead, DecWritten, DecClose
<1>w. Whole' = Whole
  BY <1>v DEF vars, file, Whole
<1>. USE RestoreRanks DEF download, result
<1>1. ASSUME PickVersion PROVE RestoreLeft' < RestoreLeft
  <2>1. rst = "waiting" /\ rst' \in {"open", "failed"} /\ UNCHANGED <<dec, plain, served>>
    BY <1>1 DEF PickVersion
  <2>2. received = Whole
    <3>1. main = "ok"
      BY <1>1 DEF PickVersion
    <3>. QED
      BY <3>1, UploadWhole DEF RoundTripInv, OkMeansWhole
  <2>3. served <= Whole
    BY <2>2 DEF RoundTripInv, RestoreTypeOK, TypeOK
  <2>. QED
    BY <1>0, <1>w, <2>1, <2>3 DEF RestoreLeft, ToRead
<1>2. ASSUME Download \/ DownloadFails PROVE RestoreLeft' < RestoreLeft
  <2>1. main = "ok" /\ rst = "open"
    BY <1>2 DEF Download, DownloadFails, RoundTripInv, WholeInv
  <2>2. received = Whole
    BY <2>1, UploadWhole DEF RoundTripInv, OkMeansWhole
  <2>3. served <= Whole
    BY <2>2 DEF RoundTripInv, RestoreTypeOK, TypeOK
  <2>4. /\ UNCHANGED <<dec, plain>> /\ rst' \in {"create", "failed"}
        /\ served' \in 0 .. Whole
    BY <1>0, <1>2, <2>2, <2>3 DEF Download, DownloadFails
  <2>. QED
    BY <1>0, <2>1, <2>4 DEF RestoreLeft, ToRead
<1>3. ASSUME Create \/ InflateEnd PROVE RestoreLeft' < RestoreLeft
  <2>1. /\ UNCHANGED <<dec, plain, served>>
        /\ \/ rst = "create" /\ rst' \in {"header", "failed"}
           \/ rst = "await" /\ rst' \in {"failed", "restored"}
    BY <1>3 DEF Create, InflateEnd
  <2>. QED
    BY <1>0, <2>1 DEF RestoreLeft, ToRead
<1>4. ASSUME Header PROVE RestoreLeft' < RestoreLeft
  <2>1. /\ plain' = plain /\ rst = "header"
        /\ \/ rst' = "failed" /\ UNCHANGED <<served, dec>>
           \/ served # 0 /\ served' = served - 1 /\ rst' = "gzip" /\ dec' = "read"
           \/ served # 0 /\ served' = served - 1 /\ rst' = "chunk" /\ dec' = dec
    BY <1>4 DEF Header
  <2>2. dec = "off"
    BY <2>1 DEF RoundTripInv, WholeInv
  <2>. QED
    BY <1>0, <2>1, <2>2 DEF RestoreLeft, ToRead
<1>5. ASSUME Chunk PROVE RestoreLeft' < RestoreLeft
  <2>1. /\ UNCHANGED <<dec, plain>> /\ rst = "chunk"
        /\ \/ rst' \in {"restored", "failed"} /\ served' = served
           \/ served > 0 /\ served' = served - 1 /\ rst' \in {"chunk", "failed"}
    BY <1>5 DEF Chunk
  <2>. QED
    BY <1>0, <2>1 DEF RestoreLeft, ToRead
<1>6. ASSUME GzipOpen \/ InflateClose PROVE RestoreLeft' < RestoreLeft
  <2>1. /\ UNCHANGED <<dec, served>> /\ plain'.full = plain.full
        /\ \/ rst = "gzip" /\ rst' \in {"copy", "await"}
           \/ rst = "close" /\ rst' = "await"
    BY <1>6 DEF GzipOpen, InflateClose, RoundTripInv, RestoreTypeOK, Pipes
  <2>. QED
    BY <1>0, <2>1 DEF RestoreLeft, ToRead
<1>7. ASSUME Inflate PROVE RestoreLeft' < RestoreLeft
  <2>1. /\ UNCHANGED <<dec, served>> /\ rst = "copy"
        /\ \/ plain.full = TRUE /\ plain'.full = FALSE /\ rst' \in {"copy", "close"}
           \/ plain' = plain /\ rst' = "close"
    BY <1>7 DEF Inflate, RoundTripInv, RestoreTypeOK, Pipes
  <2>2. CASE plain.full = TRUE /\ plain'.full = FALSE /\ rst' \in {"copy", "close"}
    <3>1. Bit(plain.full = TRUE) = 1 /\ Bit(plain'.full = TRUE) = 0
      BY <2>2 DEF Bit
    <3>. QED
      BY <1>0, <2>1, <2>2, <3>1 DEF RestoreLeft, ToRead
  <2>3. CASE plain' = plain /\ rst' = "close"
    BY <1>0, <2>1, <2>3 DEF RestoreLeft, ToRead
  <2>. QED
    BY <2>1, <2>2, <2>3
<1>8. ASSUME DecRead PROVE RestoreLeft' < RestoreLeft
  <2>1. /\ rst' = rst /\ dec = "read"
        /\ \/ dec' = "returned" /\ UNCHANGED <<served, plain>>
           \/ served > 0 /\ served' = served - 1 /\ dec' = "write"
    BY <1>8 DEF DecRead
  <2>2. rst \notin {"waiting", "open"}
    BY <2>1 DEF RoundTripInv, WholeInv
  <2>. QED
    BY <1>0, <2>1, <2>2 DEF RestoreLeft, ToRead
<1>9. ASSUME DecWritten \/ DecClose PROVE RestoreLeft' < RestoreLeft
  <2>1. /\ UNCHANGED <<rst, served>> /\ plain'.full = plain.full
        /\ \/ dec = "write" /\ dec' \in {"read", "returned"}
           \/ dec = "returned" /\ dec' = "done"
    BY <1>9 DEF DecWritten, DecClose, CloseWithError, RoundTripInv, RestoreTypeOK, Pipes
  <2>. QED
    BY <1>0, <1>w, <2>1 DEF RestoreLeft, ToRead
<1>. QED
  BY <1>v, <1>1, <1>2, <1>3, <1>4, <1>5, <1>6, <1>7, <1>8, <1>9 DEF Restorer, Decryptor

LEMMA SumsDecrease ==
    \A a, b, c, d \in Nat : (c < a /\ d = b) \/ (d < b /\ c = a) => c + d < a + b
  OBVIOUS

\* Every step of an upload or of the restore that follows brings the end of both
\* nearer: with RestoreNeverStuck, a restore returns and leaves no goroutine
\* behind (RestoreReturns).
THEOREM RestoreComesToAnEnd ==
    RSpec => /\ [](UploadLeft + RestoreLeft \in Nat)
             /\ [][UploadLeft' + RestoreLeft' < UploadLeft + RestoreLeft]_rvars
<1>0. RoundTripInv => UploadLeft \in Nat /\ RestoreLeft \in Nat
  BY UploadParts, RestoreParts DEF RoundTripInv, UploadInv
<1>1. RoundTripInv' => (UploadLeft \in Nat /\ RestoreLeft \in Nat)'
  BY <1>0, PTL
<1>2. ASSUME RoundTripInv, RoundTripInv', Upload
      PROVE  UploadLeft' < UploadLeft /\ RestoreLeft' = RestoreLeft
  <2>1. UploadLeft' < UploadLeft
    BY <1>2, UploadLeftStep DEF Upload, RoundTripInv
  <2>2. UNCHANGED <<rst, dec, plain, served>>
    BY <1>2 DEF Upload, download
  <2>3. Whole' = Whole
    BY <1>2, UploadGrows DEF Upload, Whole, RoundTripInv, UploadInv
  <2>. QED
    BY <2>1, <2>2, <2>3 DEF RestoreLeft, ToRead
<1>3. ASSUME RoundTripInv, Restorer \/ Decryptor
      PROVE  RestoreLeft' < RestoreLeft /\ UploadLeft' = UploadLeft
  BY <1>3, RestoreLeftStep DEF vars, UploadLeft
<1>4. ASSUME RoundTripInv, RoundTripInv', RNext
      PROVE  UploadLeft' + RestoreLeft' < UploadLeft + RestoreLeft
  <2>1. UploadLeft \in Nat /\ RestoreLeft \in Nat /\ UploadLeft' \in Nat /\ RestoreLeft' \in Nat
    BY <1>0, <1>1, <1>4
  <2>2. \/ UploadLeft' < UploadLeft /\ RestoreLeft' = RestoreLeft
        \/ RestoreLeft' < RestoreLeft /\ UploadLeft' = UploadLeft
    BY <1>2, <1>3, <1>4, Zenon DEF RNext
  <2>. QED
    BY <2>1, <2>2, SumsDecrease, Zenon
<1>5. RoundTripInv => UploadLeft + RestoreLeft \in Nat
  BY <1>0
<1>6. RoundTripInv /\ RoundTripInv' /\ [RNext]_rvars =>
          [UploadLeft' + RestoreLeft' < UploadLeft + RestoreLeft]_rvars
  BY <1>4
<1>. QED
  BY <1>5, <1>6, RoundTripInvariant, PTL DEF RSpec

\* Upload and restore together: until both are over, one of the goroutines can
\* go on, with a source, a download and a destination that fail anywhere.
THEOREM RoundTripNeverStuck ==
    ASSUME TRUE \notin FailingWith
    PROVE  RSpec => [](~(UploadDone /\ (main = "ok" => RestoreDone)) =>
                           UploadReady \/ RestorerReady \/ DecryptorReady)
  BY RoundTripUploads, UploadNeverStuck, RestoreNeverStuck, PTL
=============================================================================
