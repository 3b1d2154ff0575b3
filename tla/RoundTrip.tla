------------------------------- MODULE RoundTrip -------------------------------
(***************************************************************************)
(* A file that UploadPipeline has put on the server comes back: restoreOne *)
(* (internal/agent/restore.go) chooses a version, opens the download and   *)
(* the destination and runs DecryptFile (internal/agent/encrypt.go); with  *)
(* compression a goroutine decrypts into a pipe that the restore reads     *)
(* through gzip.                                                           *)
(*                                                                         *)
(* The download is the output of a remote "cat" whose exit status nobody   *)
(* looks at: a missing blob is an empty download, and a blob that was cut, *)
(* or a connection that was lost, is the end of the data.                  *)
(***************************************************************************)
EXTENDS UploadPipeline, FiniteSets

CONSTANTS
    MaxVersion   \* bound: version numbers that were given

ASSUME RoundTripAssumption == MaxVersion \in Nat \ {0}

VARIABLES
    served,     \* the units that "cat" still delivers
    cut, torn,  \* the download stops short; it does so inside a unit
    rst, dec,   \* where the restore and its decrypting goroutine are
    plain,      \* the pipe from the goroutine to gzip
    decErr, copyErr,
    trailer,    \* gzip has seen the end of its stream
    dest        \* the destination: earlier content, or the chunks written, and
                \* whether it has refused one

download == <<served, cut, torn>>
result == <<decErr, copyErr, trailer, dest>>
rvars == <<vars, download, rst, dec, plain, result>>

Untouched == [new |-> FALSE, chunks |-> 0, refused |-> FALSE]

RInit ==
    /\ Init
    /\ served = 0 /\ cut = FALSE /\ torn = FALSE
    /\ rst = "waiting" /\ dec = "off" /\ plain = NewPipe
    /\ decErr = FALSE /\ copyErr = FALSE /\ trailer = FALSE
    /\ dest = Untouched

-----------------------------------------------------------------------------
(* restoreOne, up to DecryptFile *)

\* What GetFileVersions may return for the versions with the numbers ns: they
\* come by encrypted_at, latest first.  That column counts seconds; it grows with
\* the numbers, and versions of one second come in any order.
Listings(ns) ==
    {vs \in [1 .. Cardinality(ns) -> ns] :
        \E at \in [ns -> 1 .. MaxVersion] :
            /\ \A m, n \in ns : m < n => at[m] <= at[n]
            /\ \A i, j \in DOMAIN vs :
                  i < j => vs[i] # vs[j] /\ at[vs[i]] >= at[vs[j]]}

\* The version a request for n restores: the first of the list for 0, the one
\* with the number, or failing that the one at that position; 0: none of them.
Chosen(vs, n) ==
    IF \E i \in DOMAIN vs : vs[i] = n THEN n
    ELSE LET i == IF n = 0 THEN 1 ELSE n
         IN  IF i \in DOMAIN vs THEN vs[i] ELSE 0

\* A request for a file whose upload has been recorded; purges may have removed
\* any of its versions.
PickVersion ==
    /\ main = "ok" /\ rst = "waiting"
    /\ \E ns \in SUBSET (1 .. MaxVersion), n \in 0 .. MaxVersion :
          \E vs \in Listings(ns) :
              rst' = IF Chosen(vs, n) = 0 THEN "failed" ELSE "open"
    /\ UNCHANGED <<vars, download, dec, plain, result>>

\* DownloadBlob starts "cat": what it will deliver is up to the server.
Download ==
    /\ rst = "open"
    /\ \E n \in 0 .. received, t \in BOOLEAN :
          /\ t => n < received
          /\ served' = n /\ torn' = t /\ cut' = (n < received)
    /\ rst' = "create"
    /\ UNCHANGED <<vars, dec, plain, result>>

\* NewClient, NewSession or Start fails.
DownloadFails ==
    /\ rst = "open"
    /\ rst' = "failed"
    /\ UNCHANGED <<vars, download, dec, plain, result>>

\* os.Create truncates the destination, or fails (as MkdirAll may).
Create ==
    /\ rst = "create"
    /\ \/ dest' = [Untouched EXCEPT !.new = TRUE] /\ rst' = "header"
       \/ rst' = "failed" /\ UNCHANGED dest
    /\ UNCHANGED <<vars, download, dec, plain, decErr, copyErr, trailer>>

-----------------------------------------------------------------------------
(* DecryptFile *)

\* The magic, which selects the format, and the size header after it.
Header ==
    /\ rst = "header"
    /\ IF served = 0
       THEN rst' = "failed" /\ UNCHANGED <<served, dec>>
       ELSE /\ served' = served - 1
            /\ IF compress
               THEN rst' = "gzip" /\ dec' = "read"
               ELSE rst' = "chunk" /\ UNCHANGED dec
    /\ UNCHANGED <<vars, cut, torn, plain, result>>

\* Faults: a chunk that ends early is taken for the end; the end of the download
\* is always taken for a chunk that ends early.
TornIsEOF == served = 0
EOFIsTorn == FALSE

\* io.ReadFull on the length of a chunk sees the end between two chunks.
AtEOF == served = 0 /\ ~torn

\* Without compression decryptChunked writes to the destination.
Chunk ==
    /\ rst = "chunk"
    /\ \/ /\ AtEOF
          /\ rst' = "restored" /\ UNCHANGED <<served, dest>>
       \/ /\ ~AtEOF /\ served = 0
          /\ rst' = "failed" /\ UNCHANGED <<served, dest>>
       \/ /\ served > 0
          /\ served' = served - 1
          /\ \/ dest' = [dest EXCEPT !.chunks = @ + 1] /\ UNCHANGED rst
             \/ dest' = [dest EXCEPT !.refused = TRUE] /\ rst' = "failed"
    /\ UNCHANGED <<vars, cut, torn, dec, plain, decErr, copyErr, trailer>>

\* With compression decryptChunked runs in the goroutine.
DecRead ==
    /\ dec = "read"
    /\ \/ /\ AtEOF
          /\ dec' = "returned" /\ UNCHANGED <<served, plain, decErr>>
       \/ /\ ~AtEOF /\ served = 0
          /\ decErr' = TRUE /\ dec' = "returned" /\ UNCHANGED <<served, plain>>
       \/ /\ served > 0
          /\ served' = served - 1
          /\ plain' = [plain EXCEPT !.full = TRUE]
          /\ dec' = "write" /\ UNCHANGED decErr
    /\ UNCHANGED <<vars, cut, torn, rst, copyErr, trailer, dest>>

DecWritten ==
    /\ dec = "write"
    /\ IF Written(plain)
       THEN dec' = "read" /\ UNCHANGED decErr
       ELSE /\ Refused(plain)
            /\ decErr' = TRUE /\ dec' = "returned"
    /\ UNCHANGED <<vars, download, rst, plain, copyErr, trailer, dest>>

DecClose ==
    /\ dec = "returned"
    /\ plain' = CloseWithError(plain, decErr)
    /\ dec' = "done"
    /\ UNCHANGED <<vars, download, rst, result>>

\* gzip.NewReader needs the first unit; without it the read end is closed.
GzipOpen ==
    /\ rst = "gzip"
    /\ \/ plain.full /\ rst' = "copy" /\ UNCHANGED <<plain, copyErr>>
       \/ /\ ~plain.full /\ plain.wend # "open"
          /\ plain' = [plain EXCEPT !.rend = "closed"]
          /\ copyErr' = TRUE /\ rst' = "await"
    /\ UNCHANGED <<vars, download, dec, decErr, trailer, dest>>

\* gzip ends without an error when its trailer was the last thing before EOF.
GzipEnd == plain.wend = "eof" /\ trailer

\* io.Copy: a unit is taken, the last one of a stream being the trailer; the
\* destination may refuse a chunk; the end of the pipe ends the copy.
Inflate ==
    /\ rst = "copy"
    /\ \/ /\ plain.full
          /\ plain' = [plain EXCEPT !.full = FALSE]
          /\ IF dest.chunks = chunks
             THEN trailer' = TRUE /\ UNCHANGED <<rst, copyErr, dest>>
             ELSE \/ /\ dest' = [dest EXCEPT !.chunks = @ + 1]
                     /\ UNCHANGED <<rst, copyErr, trailer>>
                  \/ /\ dest' = [dest EXCEPT !.refused = TRUE]
                     /\ copyErr' = TRUE /\ rst' = "close" /\ UNCHANGED trailer
       \/ /\ ~plain.full /\ plain.wend # "open"
          /\ copyErr' = ~GzipEnd
          /\ rst' = "close" /\ UNCHANGED <<plain, trailer, dest>>
    /\ UNCHANGED <<vars, download, dec, decErr>>

\* Fault: the read end stays open.
InflateCloseForgotten ==
    /\ rst = "close"
    /\ rst' = "await"
    /\ UNCHANGED <<vars, download, dec, plain, result>>

\* pr.CloseWithError(copyErr)
InflateClose ==
    /\ rst = "close"
    /\ plain' = [plain EXCEPT !.rend = "closed"]
    /\ rst' = "await"
    /\ UNCHANGED <<vars, download, dec, result>>

\* "<-decErrCh"
InflateEnd ==
    /\ rst = "await" /\ dec = "done"
    /\ rst' = IF copyErr \/ decErr THEN "failed" ELSE "restored"
    /\ UNCHANGED <<vars, download, dec, plain, result>>

-----------------------------------------------------------------------------
Upload == Next /\ UNCHANGED <<download, rst, dec, plain, result>>

Restorer ==
    \/ PickVersion \/ Download \/ DownloadFails \/ Create \/ Header \/ Chunk
    \/ GzipOpen \/ Inflate \/ InflateClose \/ InflateEnd

Decryptor == DecRead \/ DecWritten \/ DecClose

RNext == Upload \/ Restorer \/ Decryptor

\* Goroutines that can run do, as in UploadPipeline.
RSpec ==
    /\ RInit /\ [][RNext]_rvars
    /\ WF_vars(Compressor) /\ WF_vars(Encryptor) /\ WF_vars(Worker)
    /\ WF_rvars(Restorer) /\ WF_rvars(Decryptor)

-----------------------------------------------------------------------------
(* Properties *)

\* Type invariant of the restore; a download never delivers more than was sent.
RestoreTypeOK ==
    /\ TypeOK
    /\ served \in 0 .. received /\ {cut, torn} \subseteq BOOLEAN
    /\ rst \in {"waiting", "open", "create", "header", "chunk", "gzip", "copy",
                "close", "await", "restored", "failed"}
    /\ dec \in {"off", "read", "write", "returned", "done"}
    /\ plain \in Pipes
    /\ {decErr, copyErr, trailer} \subseteq BOOLEAN
    /\ dest \in [new : BOOLEAN, chunks : 0 .. chunks, refused : BOOLEAN]

\* A restore that reports success has written the whole file: with compression
\* always, the trailer vouches for it; without compression unless the blob was
\* cut between two chunks, which nothing can tell from its end (encrypt.go:182).
RestoredWhole ==
    rst = "restored" =>
        /\ dest.new
        /\ dest.chunks = chunks \/ (~compress /\ cut /\ ~torn)

\* And one that fails has a reason: once the destination is open, a restore whose
\* download was whole and whose destination took every chunk succeeds.  None of
\* the ends that the goroutines give their pipe while they leave it becomes an
\* error of the restore (decryptChunkedDecompress, encrypt.go:207-245).
NoFalseAlarm == rst = "failed" /\ dest.new => cut \/ dest.refused

\* A restore returns and leaves no goroutine behind ("avoiding a deadlock",
\* encrypt.go:235), whatever the download and the destination do.
RestoreReturns ==
    (main = "ok") ~> (rst \in {"restored", "failed"} /\ dec \in {"off", "done"})
=============================================================================
