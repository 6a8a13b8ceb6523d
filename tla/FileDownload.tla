---------------------------- MODULE FileDownload ----------------------------
(***************************************************************************)
(* util.downloadFile: a goroutine reads the file from IPFS, strips the     *)
(* header of the DC network, decrypts block by block and writes to a pipe; *)
(* another one writes what comes out of the pipe to disk; the caller waits *)
(* for the second one.  A byte is its position in what IPFS delivers.      *)
(***************************************************************************)
EXTENDS SequencesExt, FiniteSetsExt

CONSTANTS
  HeadLen,    \* length of the header of the DC network (32 in the code)
  BlockLen,   \* plaintext of one block (3 << 20)
  Overhead,   \* what encryption adds to a block (28)
  MaxSize,    \* bound on what IPFS delivers
  Unflushed,  \* bound on what bufio.Writer holds back
  FaultKinds  \* what may go wrong: "read", "disk", "timeout"

ASSUME DownloadAssumption ==
  /\ HeadLen \in Nat \ {0} /\ BlockLen \in Nat \ {0} /\ Overhead \in Nat \ {0}
  /\ HeadLen < BlockLen
  /\ MaxSize \in Nat /\ Unflushed \in Nat
  /\ FaultKinds \subseteq {"read", "disk", "timeout"}

VARIABLES
  src,        \* what is asked for: [size, head, secret]
  pos,        \* how much of it has been read
  waitBuffer, \* read and not yet written to the pipe
  headDeal,   \* headDealFlag: the header has been looked for
  reader,     \* where the reading goroutine is
  content,    \* what it is writing to the pipe
  writer,     \* where the writing goroutine is
  buffered,   \* what bufio.Writer holds back
  disk,       \* the file
  complete,   \* completeFlag
  report,     \* last UpdateTransmitSize of the writing goroutine
  result,     \* what downloadFile returns
  faults      \* what has gone wrong

vars == <<src, pos, waitBuffer, headDeal, reader, content, writer, buffered,
          disk, complete, report, result, faults>>

readerVars == <<pos, waitBuffer, headDeal, reader, content, complete>>
writerVars == <<writer, buffered, disk, report>>

\* "none": as stored; "wrong": a key that does not decrypt it; "malformed":
\* sym.FromString refuses it.
Secrets == {"none", "right", "wrong", "malformed"}

Sources ==
  {s \in [size : 0 .. MaxSize, head : BOOLEAN, secret : Secrets] :
     s.head => s.size >= HeadLen}

\* What encryption has added to each block, and the length of a block.
added  == IF src.secret = "none" THEN 0 ELSE Overhead
bufLen == BlockLen + added

\* What has been stored: the delivered bytes without the header.
offset == IF src.head THEN HeadLen ELSE 0
Stored == [i \in 1 .. src.size - offset |-> offset + i]

\* Whether w is one block as it was encrypted; the last one may be shorter.
IsCipherBlock(w) ==
  \E k \in 0 .. MaxSize :
    LET last == Min({(k + 1) * bufLen, Len(Stored)})
    IN  last - k * bufLen > Overhead /\ w = SubSeq(Stored, k * bufLen + 1, last)

\* symKey.Decrypt: it fails on anything but a block, and with the wrong key.
Decrypts(w) == src.secret = "none" \/ (src.secret = "right" /\ IsCipherBlock(w))
Plain(w) == SubSeq(w, added + 1, Len(w))

\* What downloadFile is asked to save: of every block what has not been added.
\* Byte j of it is byte (j - 1) % BlockLen + 1 of what a block is the cipher of.
TextLen == Len(Stored) - added * ((Len(Stored) + bufLen - 1) \div bufLen)
Expected ==
  [j \in 1 .. TextLen |->
     Stored[((j - 1) \div BlockLen) * bufLen + added + ((j - 1) % BlockLen) + 1]]

\* A file that was encrypted has no block of nothing but overhead.
WellFormed ==
  src.secret \in {"none", "malformed"} \/ Len(Stored) = 0
    \/ (Len(Stored) - 1) % bufLen >= Overhead

\* The cache never holds a whole block.
TypeOK ==
  /\ src \in Sources
  /\ pos \in 0 .. src.size
  /\ waitBuffer \in Seq(1 .. src.size) /\ content \in Seq(1 .. src.size)
  /\ Len(waitBuffer) < bufLen
  /\ headDeal \in BOOLEAN /\ complete \in BOOLEAN
  /\ reader \in {"idle", "loop", "write", "tail", "writeTail", "done"}
  /\ writer \in {"idle", "create", "loop", "flush", "finish", "close", "done"}
  /\ buffered \in Seq(1 .. src.size) /\ disk \in Seq(1 .. src.size)
  /\ report \in {"none", "success", "fail"}
  /\ result \in {"none", "nil", "error"}
  /\ faults \subseteq FaultKinds

Init ==
  /\ src \in Sources /\ WellFormed
  /\ pos = 0 /\ waitBuffer = <<>> /\ headDeal = FALSE /\ content = <<>>
  /\ reader = "idle" /\ writer = "idle"
  /\ buffered = <<>> /\ disk = <<>>
  /\ complete = FALSE /\ report = "none" /\ result = "none"
  /\ faults = {}

Fault(kind) == kind \in FaultKinds /\ faults' = faults \cup {kind}

-----------------------------------------------------------------------------
(* The caller.                                                             *)

Begin ==
  /\ result = "none" /\ reader = "idle"
  /\ IF src.secret = "malformed"
       THEN result' = "error" /\ UNCHANGED <<reader, writer>>
       ELSE reader' = "loop" /\ writer' = "create" /\ UNCHANGED result
  /\ UNCHANGED <<src, pos, waitBuffer, headDeal, content, buffered, disk,
                 complete, report, faults>>

\* Mutant: wg.Done is deferred last, so that it comes before w.Flush.
ReturnBeforeFlush ==
  /\ result = "none"
  /\ writer \in {"flush", "finish", "close", "done"}
  /\ result' = IF complete THEN "nil" ELSE "error"
  /\ UNCHANGED <<src, readerVars, writerVars, faults>>

\* wg.Wait waits for the writing goroutine alone.
Return ==
  /\ result = "none"
  /\ writer \in {"close", "done"}
  /\ result' = IF complete THEN "nil" ELSE "error"
  /\ UNCHANGED <<src, readerVars, writerVars, faults>>

\* The time the caller has given is over.
Timeout ==
  /\ "timeout" \notin faults /\ Fault("timeout")
  /\ UNCHANGED <<src, readerVars, writerVars, result>>

-----------------------------------------------------------------------------
(* The reading goroutine.                                                  *)

Reading == UNCHANGED <<src, writerVars, result>>

ReaderCancelled ==
  /\ reader = "loop" /\ "timeout" \in faults
  /\ reader' = "done"
  /\ UNCHANGED <<pos, waitBuffer, headDeal, content, complete, faults>> /\ Reading

\* ioReader.Read into a buffer of the given length, which it need not fill.
Received(n) == SubSeq([i \in 1 .. src.size |-> i], pos + 1, pos + n)
Chunks(length) == 1 .. Min({length, src.size - pos})

\* Mutant: the header is stripped from whatever the first read returns.
ReadHeadAtOnce ==
  /\ reader = "loop" /\ ~headDeal
  /\ \E n \in Chunks(HeadLen) :
       /\ pos' = pos + n
       /\ headDeal' = TRUE
       /\ waitBuffer' = IF src.head THEN <<>> ELSE Received(n)
  /\ UNCHANGED <<reader, content, complete, faults>> /\ Reading

ReadHead ==
  /\ reader = "loop" /\ ~headDeal
  /\ \E n \in Chunks(HeadLen - Len(waitBuffer)) :
       LET buffer == waitBuffer \o Received(n)
       IN  /\ pos' = pos + n
           /\ headDeal' = (Len(buffer) = HeadLen)
           /\ waitBuffer' = IF headDeal' /\ src.head THEN <<>> ELSE buffer
  /\ UNCHANGED <<reader, content, complete, faults>> /\ Reading

\* Mutant: what a read returns is decrypted as it is, without the cache.
ReadBlockUncached ==
  /\ reader = "loop" /\ headDeal
  /\ \E n \in Chunks(bufLen) :
       LET buffer == waitBuffer \o Received(n)
       IN  /\ pos' = pos + n
           /\ waitBuffer' = <<>>
           /\ reader' = IF Decrypts(buffer) THEN "write" ELSE "done"
           /\ content' = IF Decrypts(buffer) THEN Plain(buffer) ELSE content
  /\ UNCHANGED <<headDeal, complete, faults>> /\ Reading

\* A block is taken from the cache when that holds the given length.
ReadBlockFrom(length) ==
  /\ reader = "loop" /\ headDeal
  /\ \E n \in Chunks(bufLen) :
       LET buffer == waitBuffer \o Received(n)
           block  == SubSeq(buffer, 1, bufLen)
       IN  /\ pos' = pos + n
           /\ IF Len(buffer) < length
                THEN waitBuffer' = buffer /\ UNCHANGED <<reader, content>>
                ELSE /\ waitBuffer' = SubSeq(buffer, bufLen + 1, Len(buffer))
                     /\ reader' = IF Decrypts(block) THEN "write" ELSE "done"
                     /\ content' = IF Decrypts(block) THEN Plain(block) ELSE content
  /\ UNCHANGED <<headDeal, complete, faults>> /\ Reading

\* Mutant: a block that the cache holds exactly is left there.
ReadBlockLate == ReadBlockFrom(bufLen + 1)

ReadBlock == ReadBlockFrom(bufLen)

\* io.EOF: the flag is set before the rest is decrypted and written.
ReadEof ==
  /\ reader = "loop" /\ pos = src.size
  /\ complete' = TRUE
  /\ reader' = "tail"
  /\ UNCHANGED <<pos, waitBuffer, headDeal, content, faults>> /\ Reading

\* Mutant: any error is taken for the end of the file.
ReadFailsAsEof ==
  /\ reader = "loop"
  /\ Fault("read")
  /\ reader' = "tail"
  /\ complete' = TRUE
  /\ UNCHANGED <<pos, waitBuffer, headDeal, content>> /\ Reading

\* Mutant: a read that fails is tried again.
ReadFailsRetried ==
  /\ reader = "loop"
  /\ Fault("read")
  /\ UNCHANGED <<pos, waitBuffer, headDeal, reader, content, complete>> /\ Reading

ReadFails ==
  /\ reader = "loop"
  /\ Fault("read")
  /\ reader' = "tail"
  /\ UNCHANGED <<pos, waitBuffer, headDeal, content, complete>> /\ Reading

\* After an end or an error, what is left in the cache is written.
ReadTail ==
  /\ reader = "tail"
  /\ LET written == waitBuffer # <<>> /\ Decrypts(waitBuffer)
     IN  /\ reader' = IF written THEN "writeTail" ELSE "done"
         /\ content' = IF written THEN Plain(waitBuffer) ELSE content
  /\ UNCHANGED <<pos, waitBuffer, headDeal, complete, faults>> /\ Reading

\* wp.Write returns io.ErrClosedPipe.
PipeClosed ==
  /\ reader \in {"write", "writeTail"}
  /\ writer = "done"
  /\ reader' = "done"
  /\ UNCHANGED <<pos, waitBuffer, headDeal, content, complete, faults>> /\ Reading

-----------------------------------------------------------------------------
(* The writing goroutine.                                                  *)

CreateFile ==
  /\ writer = "create"
  /\ \/ writer' = "loop" /\ UNCHANGED faults
     \/ writer' = "finish" /\ Fault("disk")
  /\ UNCHANGED <<src, readerVars, buffered, disk, report, result>>

WriterCancelled ==
  /\ writer = "loop" /\ "timeout" \in faults
  /\ writer' = "flush"
  /\ UNCHANGED <<src, readerVars, buffered, disk, report, result, faults>>

\* rp.Read takes all that wp.Write offers; w.Write passes on all but the last
\* bytes of it, or fails having written some.
Transfer ==
  /\ writer = "loop"
  /\ reader \in {"write", "writeTail"}
  /\ reader' = IF reader = "write" THEN "loop" ELSE "done"
  /\ LET all == disk \o buffered \o content
         upTo(n) == disk' = SubSeq(all, 1, n)
     IN  \/ /\ \E held \in 0 .. Min({Unflushed, Len(all) - Len(disk)}) :
                 /\ upTo(Len(all) - held)
                 /\ buffered' = SubSeq(all, Len(all) - held + 1, Len(all))
            /\ UNCHANGED <<writer, faults>>
         \/ /\ \E n \in Len(disk) .. Len(all) - 1 : upTo(n)
            /\ buffered' = <<>>
            /\ writer' = "finish"
            /\ Fault("disk")
  /\ UNCHANGED <<src, pos, waitBuffer, headDeal, content, complete, report, result>>

\* wp has been closed.
PipeEof ==
  /\ writer = "loop" /\ reader = "done"
  /\ report' = IF complete THEN "success" ELSE "fail"
  /\ writer' = "flush"
  /\ UNCHANGED <<src, readerVars, buffered, disk, result, faults>>

\* The deferred w.Flush; nobody looks at its error.
Flush ==
  /\ writer = "flush"
  /\ writer' = "finish"
  /\ buffered' = <<>>
  /\ \/ disk' = disk \o buffered /\ UNCHANGED faults
     \/ buffered # <<>> /\ UNCHANGED disk /\ Fault("disk")
  /\ UNCHANGED <<src, readerVars, report, result>>

\* The deferred wg.Done, and then rp.Close.
Finish ==
  /\ writer = "finish"
  /\ writer' = "close"
  /\ UNCHANGED <<src, readerVars, buffered, disk, report, result, faults>>

\* Mutant: the read end of the pipe is closed only after a regular end.
ClosePipeOnEof ==
  /\ writer = "close" /\ report # "none"
  /\ writer' = "done"
  /\ UNCHANGED <<src, readerVars, buffered, disk, report, result, faults>>

ClosePipe ==
  /\ writer = "close"
  /\ writer' = "done"
  /\ UNCHANGED <<src, readerVars, buffered, disk, report, result, faults>>

ReaderStep ==
  \/ ReaderCancelled \/ ReadHead \/ ReadBlock \/ ReadEof \/ ReadFails \/ ReadTail
  \/ PipeClosed

WriterStep ==
  \/ CreateFile \/ WriterCancelled \/ Transfer \/ PipeEof \/ Flush \/ Finish
  \/ ClosePipe

Next == Begin \/ Return \/ Timeout \/ ReaderStep \/ WriterStep

Spec == Init /\ [][Next]_vars

\* The goroutines are scheduled, and a read from IPFS answers or fails: its
\* context ends with the time the caller gives.
Fairness == WF_vars(Begin \/ Return) /\ WF_vars(ReaderStep) /\ WF_vars(WriterStep)
FairSpec == Spec /\ Fairness

-----------------------------------------------------------------------------
\* litepeer.go:205, the cache is there "to prevent the read from returning
\* before it is full, resulting in unsuccessful decryption": downloadFile fails
\* only if something else has, however the reads are cut.
ErrorMeansFault ==
  (result = "error" /\ src.secret \in {"none", "right"}) => faults # {}

\* The file holds a beginning of what was asked for, in order, whatever fails;
\* only a download that ends within the header may save a piece of that.
FileIsPrefix == headDeal => IsPrefix(disk \o buffered, Expected)

\* litepeer.go:333-337: without an error the file is all there, unless the key
\* is wrong, the disk fails or the time is over.  Failing reads do not matter.
NilMeansComplete ==
  (result = "nil" /\ src.secret # "wrong" /\ faults \subseteq {"read"}) => disk = Expected

\* downloadFile returns, and neither goroutine outlives it for good.
EverythingEnds == <>(result # "none" /\ reader \in {"idle", "done"} /\ writer \in {"idle", "done"})

\* Nothing that downloadFile does is done for ever: each of its steps brings it
\* nearer to its end, which is never more than twice the bytes that are still
\* to be read and fourteen steps away, even when reads return one byte or fail.
ReaderWork == [idle |-> 6, write |-> 5, loop |-> 4, tail |-> 3, writeTail |-> 2, done |-> 0]
WriterWork ==
  [idle |-> 6, create |-> 5, loop |-> 4, flush |-> 3, finish |-> 2, close |-> 1, done |-> 0]
CallerWork ==
  (IF result = "none" THEN 1 ELSE 0) + (IF "timeout" \in faults THEN 0 ELSE 1)
Left == 2 * (src.size - pos) + ReaderWork[reader] + WriterWork[writer] + CallerWork
WorkRunsOut == [][Left' \in 0 .. Left - 1]_vars

\* downloadFile keeps what FileTransfer promises to the folder download: a nil
\* or an error that means something, and a file that does not change after it.
FT == INSTANCE FileTransfer WITH
        secret <- src.secret, whole <- disk = Expected, answer <- result,
        troubles <- faults
FileTransferSpec == FT!TransferSpec
=============================================================================
