------------------------------ MODULE Ingester ------------------------------
(***************************************************************************)
(* The threads of noaaportIngester and the byte FIFO between them, from    *)
(* their start to the end of the process: the reader thread (readerStart() *)
(* of reader.c), the product-maker thread (the reads of pmStart() in       *)
(* productMaker.c), the main thread (main() from pthread_join() on) and    *)
(* SIGTERM, which cancels the reader thread.                               *)
(*                                                                         *)
(* The statistics thread and SIGUSR1 are module Statistics.  Here is only  *)
(* what they can do to the end of the process: a thread waits for ever for *)
(* a lock whose owner was cancelled or waits in the signal handler.        *)
(*                                                                         *)
(* Every call of the FIFO is a call of module Fifo, step by step; only the *)
(* values of the bytes are left out (Octet is the one value).  What the    *)
(* product-maker does with the bytes is module ProductMaker; here a frame  *)
(* is the sequence of amounts it is read in.                               *)
(***************************************************************************)
EXTENDS Naturals, Sequences

CONSTANTS Reader, Maker, Main,  \* the threads
          NoThread, Octet,
          Size,                 \* of the FIFO
          MaxSizes,             \* the values of reader->maxSize
          FrameReads,           \* the amounts in which pmStart() reads a frame
          InputBytes,           \* how many bytes arrive at most
          Sources,              \* what is read: files, multicast groups, or both
          Sigusr1               \* whether SIGUSR1 comes

ASSUME InputAssumption ==
    InputBytes \in Nat /\ Sources \subseteq {"file", "multicast"} /\ Sources # {}
ASSUME FrameAssumption == FrameReads \in Seq(Nat) /\ FrameReads # <<>>
                                                  /\ FrameReads[1] = 1

ASSUME SignalAssumption == Sigusr1 \in BOOLEAN

\* There are few maxima: a page, a datagram.  One of them is the greatest.
ASSUME MaxSizeAssumption ==
    /\ MaxSizes \subseteq Nat \ {0}
    /\ \E m \in MaxSizes : \A n \in MaxSizes : n <= m
ASSUME SizeAssumption == Size \in Nat \ {0}
ASSUME ThreadAssumption ==
    /\ Reader # Maker /\ Reader # Main /\ Maker # Main
    /\ NoThread \notin {Reader, Maker, Main}

VARIABLES buf, nextWrite, nbytes, nreserved, closeIfEmpty,
          mutex, writeMutex, readMutex, pc, want, ptr, data, got, result,
          at,           \* per thread: where it is in its own code
          source,       \* a file, which ends, or a multicast group, which does not
          input,        \* bytes that have not arrived yet
          maxSize,      \* reader->maxSize, the most one read(2) returns
          frameAt,      \* which read of a frame the product-maker is at
          readerStatus, \* reader->status
          makerStatus,  \* productMaker->status
          exitStatus,   \* the exit status of the process
          cancelled,    \* pthread_cancel(readerThread) has been called
          left          \* which lock, besides "mutex", a cancelled thread died with:
                        \* reader->mutex, productMaker->mutex, that of the log, none

Largest(S) == CHOOSE m \in S : \A n \in S : n <= m

F == INSTANCE Fifo WITH
        Writers <- {Reader}, Readers <- {Maker}, Closers <- {Main},
        Byte <- {Octet}, MaxWrite <- Largest(MaxSizes),
        MaxRead <- Largest({FrameReads[i] : i \in DOMAIN FrameReads})

Threads == {Reader, Maker, Main}

fifo == <<buf, nextWrite, nbytes, nreserved, closeIfEmpty,
          mutex, writeMutex, readMutex, pc, want, ptr, data, got, result>>
own == <<at, source, input, maxSize, frameAt, readerStatus, makerStatus, exitStatus,
         cancelled, left>>
vars == <<fifo, own>>

Init ==
    /\ F!Init
    /\ at = [t \in Threads |-> IF t = Main THEN "join_reader" ELSE "running"]
    /\ source \in Sources
    /\ input = InputBytes
    /\ maxSize \in MaxSizes
    /\ frameAt = 1
    /\ readerStatus = 0
    /\ makerStatus = 0
    /\ exitStatus = 0
    /\ cancelled = FALSE
    /\ left = "none"

Go(t, place) == at' = [at EXCEPT ![t] = place]

\* A thread goes on with the FIFO operation it is in.
Running(t) == at[t] \in {"running", "closing"} /\ at[Main] # "done"

FifoStep(t) ==
    /\ Running(t)
    /\ F!Step(t)
    /\ pc[t] # "fill"
    /\ UNCHANGED own

SpuriousWakeup(t) ==
    /\ Running(t)
    /\ F!SpuriousWakeup(t)
    /\ UNCHANGED own

-----------------------------------------------------------------------------
(***************************************************************************)
(* The reader thread.  However it ends, it keeps the reservation (and      *)
(* writeMutex) it has.                                                     *)
(***************************************************************************)
ReaderReserves ==
    /\ Running(Reader)
    /\ result[Reader] \in {"none", "ok"}
    /\ F!Begin(Reader, "write_begin", maxSize)
    /\ UNCHANGED own

\* fifoWriteReserve() fails: a request that exceeds the whole ring ("-b" pages
\* against the 65507 bytes of a datagram) does.
ReaderRefused ==
    /\ Running(Reader)
    /\ pc[Reader] = "idle"
    /\ result[Reader] \in {"closed", "usage"}
    /\ Go(Reader, "ended")
    /\ readerStatus' = 2
    /\ UNCHANGED <<fifo, source, input, maxSize, frameAt, makerStatus, exitStatus, cancelled, left>>

\* read(2) returns some of what has arrived.
ReadInput ==
    /\ Running(Reader)
    /\ F!Fill(Reader)
    /\ Len(data'[Reader]) <= input
    /\ input' = input - Len(data'[Reader])
    /\ UNCHANGED <<at, source, maxSize, frameAt, readerStatus, makerStatus, exitStatus, cancelled, left>>

\* read(2) returns 0 at the end of a file, or -1 on an error.
ReadEnds(status) ==
    /\ Running(Reader)
    /\ pc[Reader] = "fill"
    /\ status = 0 => source = "file" /\ input = 0
    /\ Go(Reader, "ended")
    /\ readerStatus' = status
    /\ UNCHANGED <<fifo, source, input, maxSize, frameAt, makerStatus, exitStatus, cancelled, left>>

(***************************************************************************)
(* Cancellation.  SIGTERM's handler calls pthread_cancel(); the reader     *)
(* dies at its next cancellation point: in read(2), or in the              *)
(* pthread_cond_wait() of fifoWriteReserve(), which locks fifo->mutex      *)
(* again before the thread dies.  There is no cleanup handler.  (After     *)
(* the join, pthread_cancel() of the same thread has no defined effect.)   *)
(***************************************************************************)
Sigterm ==
    /\ ~cancelled
    /\ at[Main] = "join_reader"
    /\ cancelled' = TRUE
    /\ UNCHANGED <<fifo, at, source, input, maxSize, frameAt, readerStatus, makerStatus,
                   exitStatus, left>>

CancelInRead ==
    /\ cancelled
    /\ Running(Reader)
    /\ pc[Reader] = "fill"
    /\ Go(Reader, "ended")
    /\ UNCHANGED <<fifo, source, input, maxSize, frameAt, readerStatus, makerStatus, exitStatus, cancelled, left>>

CancelInWait ==
    /\ cancelled
    /\ Running(Reader)
    /\ pc[Reader] = "write_wait"
    /\ mutex = NoThread
    /\ mutex' = Reader
    /\ F!Goto(Reader, "write_cs")
    /\ Go(Reader, "ended")
    /\ UNCHANGED <<buf, nextWrite, nbytes, nreserved, closeIfEmpty, writeMutex,
                   readMutex, want, ptr, data, got, result, source, input, maxSize, frameAt,
                   readerStatus, makerStatus, exitStatus, cancelled, left>>

\* The reader logs why it will end; the output of the log is a cancellation
\* point under the lock of the log.
CancelInLog ==
    /\ cancelled
    /\ Running(Reader)
    /\ pc[Reader] = "fill" \/ (pc[Reader] = "idle" /\ result[Reader] \in {"closed", "usage"})
    /\ Go(Reader, "ended")
    /\ left' = "log"
    /\ UNCHANGED <<fifo, source, input, maxSize, frameAt, readerStatus, makerStatus,
                   exitStatus, cancelled>>

-----------------------------------------------------------------------------
(***************************************************************************)
(* The product-maker thread.  It asks for one byte until that is the start *)
(* of a frame, then for the rest of the frame.  Any check on the way may   *)
(* send it back to the one byte, and so does every read that fails; only   *)
(* when the read of one byte fails does it end.                            *)
(***************************************************************************)
Refused_MidFrameOnly == frameAt # 1 /\ result[Maker] \in {"closed", "usage"}
Refused == frameAt = 1 /\ result[Maker] \in {"closed", "usage"}

MakerReads ==
    /\ Running(Maker)
    /\ ~Refused
    /\ \E next \in {1} \union
            (IF result[Maker] = "ok" /\ frameAt < Len(FrameReads)
             THEN {frameAt + 1} ELSE {}) :
          /\ frameAt' = next
          /\ F!Begin(Maker, "read_begin", FrameReads[next])
    /\ UNCHANGED <<at, source, input, maxSize, readerStatus, makerStatus, exitStatus, cancelled, left>>

MakerEnds ==
    /\ Running(Maker)
    /\ pc[Maker] = "idle"
    /\ Refused
    /\ Go(Maker, "ended")
    /\ makerStatus' = IF result[Maker] = "closed" THEN 0 ELSE 1
    /\ UNCHANGED <<fifo, source, input, maxSize, frameAt, readerStatus, exitStatus, cancelled, left>>

\* It counts, or logs, and the lock it needs will never be free.
MakerBlocks ==
    /\ Running(Maker)
    /\ pc[Maker] = "idle"
    /\ left \in {"maker", "log"}
    /\ Go(Maker, "blocked")
    /\ UNCHANGED <<fifo, source, input, maxSize, frameAt, readerStatus, makerStatus,
                   exitStatus, cancelled, left>>

-----------------------------------------------------------------------------
(***************************************************************************)
(* The main thread: join the reader, cancel and join the statistics        *)
(* thread, close the FIFO, join the product-maker, make a last report,     *)
(* return.                                                                 *)
(***************************************************************************)
\* The statistics thread is cancelled asynchronously, wherever it is in a report.
MainCancels_NoJoin ==
    /\ at[Main] = "join_reader"
    /\ Go(Main, "close")
    /\ UNCHANGED <<fifo, source, input, maxSize, frameAt, readerStatus, makerStatus,
                   exitStatus, cancelled, left>>

MainCancels ==
    /\ at[Main] = "join_reader"
    /\ at[Reader] = "ended"
    /\ Go(Main, "close")
    /\ \/ UNCHANGED left
       \/ Sigusr1 /\ left = "none" /\ left' \in {"reader", "maker", "log"}
    /\ UNCHANGED <<fifo, source, input, maxSize, frameAt, readerStatus, makerStatus,
                   exitStatus, cancelled>>

MainCloses ==
    /\ at[Main] = "close"
    /\ F!Begin(Main, "close", 0)
    /\ Go(Main, "closing")
    /\ UNCHANGED <<source, input, maxSize, frameAt, readerStatus, makerStatus, exitStatus,
                   cancelled, left>>

\* The product-maker is not waited for.
MainJoins_NoJoin ==
    /\ at[Main] = "closing"
    /\ pc[Main] = "idle"
    /\ Go(Main, "report")
    /\ exitStatus' = IF readerStatus # 0 THEN makerStatus ELSE 0
    /\ UNCHANGED <<fifo, source, input, maxSize, frameAt, readerStatus, makerStatus,
                   cancelled, left>>

\* The reader's status is replaced by the product-maker's when it is NOT zero.
MainJoins ==
    /\ at[Main] = "closing"
    /\ pc[Main] = "idle"
    /\ at[Maker] = "ended"
    /\ Go(Main, "report")
    /\ exitStatus' = IF readerStatus # 0 THEN makerStatus ELSE 0
    /\ UNCHANGED <<fifo, source, input, maxSize, frameAt, readerStatus, makerStatus,
                   cancelled, left>>

\* reportStats() needs all three locks.
MainReports ==
    /\ at[Main] = "report"
    /\ Go(Main, IF left = "none" THEN "done" ELSE "blocked")
    /\ UNCHANGED <<fifo, source, input, maxSize, frameAt, readerStatus, makerStatus,
                   exitStatus, cancelled, left>>

-----------------------------------------------------------------------------
(***************************************************************************)
(* SIGUSR1, in any of the threads.  Its handler locks "mutex".  That never *)
(* comes free when the statistics thread waits, inside a report, for a     *)
(* lock that the interrupted thread has (while it counts or logs, outside  *)
(* the FIFO), when it waits so for a lock of another one, or when it was   *)
(* cancelled, for it dies with "mutex".                                    *)
(***************************************************************************)
Blocked == \E t \in Threads : at[t] = "blocked"
ReportGoesOn == at[Main] = "join_reader" /\ left = "none" /\ ~Blocked

Sigusr1Blocks(t) ==
    /\ Sigusr1
    /\ at[t] \notin {"ended", "blocked"} /\ at[Main] # "done"
    /\ ReportGoesOn => t # Main /\ pc[t] \in {"idle", "fill"}
    /\ Go(t, "blocked")
    /\ UNCHANGED <<fifo, source, input, maxSize, frameAt, readerStatus, makerStatus,
                   exitStatus, cancelled, left>>

Next ==
    \/ \E t \in Threads : FifoStep(t) \/ SpuriousWakeup(t)
    \/ ReaderReserves \/ ReaderRefused \/ ReadInput
    \/ \E status \in {0, 2} : ReadEnds(status)
    \/ Sigterm \/ CancelInRead \/ CancelInWait \/ CancelInLog
    \/ MakerReads \/ MakerEnds \/ MakerBlocks
    \/ MainCancels \/ MainCloses \/ MainJoins \/ MainReports
    \/ \E t \in Threads : Sigusr1Blocks(t)

Spec == Init /\ [][Next]_vars

(***************************************************************************)
(* Fairness: threads keep running and get a mutex that is free again and   *)
(* again, a file can be read to its end, and the product-maker does not    *)
(* find a fault in every frame.  Nothing obliges the network to send, a    *)
(* signal to come or read(2) to fail.                                      *)
(***************************************************************************)
Fairness ==
    /\ \A t \in Threads : WF_vars(FifoStep(t)) /\ SF_vars(F!LockMutex(t) /\ FifoStep(t))
    /\ WF_vars(ReaderReserves) /\ WF_vars(ReaderRefused)
    /\ WF_vars(source = "file" /\ ReadInput) /\ WF_vars(ReadEnds(0))
    /\ WF_vars(CancelInRead) /\ WF_vars(CancelInWait)
    /\ WF_vars(MakerReads) /\ WF_vars(MakerEnds)
    /\ WF_vars(MainCancels) /\ WF_vars(MainCloses)
    /\ WF_vars(MainJoins) /\ WF_vars(MainReports)

FairSpec == Spec /\ Fairness

-----------------------------------------------------------------------------
(***************************************************************************)
(* Properties.                                                             *)
(***************************************************************************)
TypeOK ==
    /\ F!TypeOK
    /\ at \in [Threads -> {"running", "ended", "blocked", "join_reader", "close", "closing",
                           "report", "done"}]
    /\ source \in Sources
    /\ input \in 0..InputBytes
    /\ maxSize \in MaxSizes
    /\ frameAt \in 1..Len(FrameReads)
    /\ readerStatus \in {0, 2}
    /\ makerStatus \in {0, 1}
    /\ exitStatus \in {0, 1}
    /\ cancelled \in BOOLEAN
    /\ left \in {"none", "reader", "maker", "log"}

\* Nothing that was received is left behind: when the process returns, the
\* product-maker has taken every byte out of the FIFO, however the reader
\* thread ended.  (The FIFO closes when it is empty, not when it is told to.)
AllHandedOn == at[Main] = "done" => nbytes = 0

\* The FIFO is closed only after the last byte has been received: no read(2)
\* result is ever refused (main() joins the reader before it closes).
NoInputAfterClose == [][closeIfEmpty => input' = input]_vars

\* The product-maker waits for the rest of a frame that will never come.
Starved ==
    /\ at[Reader] = "ended" /\ closeIfEmpty
    /\ pc[Maker] = "read_wait" /\ 0 < nbytes

\* The reader thread was cancelled in pthread_cond_wait() and died with fifo->mutex.
DiedWithMutex == at[Reader] = "ended" /\ mutex = Reader

\* When the reader thread has ended (end of the file, a read error, a ring too
\* small for it) or SIGTERM has come, the process ends: main() joins the reader
\* thread, cancels the statistics thread, closes the FIFO, joins the product-maker,
\* makes the last report and returns.  There are three exceptions, all the code's:
\* the input ended inside what the product-maker takes for a frame; SIGTERM found
\* the reader thread waiting for room; a thread waits for a lock that a cancelled
\* thread, or one in the handler of SIGUSR1, has for good.
EndsOrStarves ==
    at[Reader] = "ended" \/ cancelled
        ~> at[Main] = "done" \/ Starved \/ DiedWithMutex \/ Blocked

\* The reader thread that waits for room gets it: what the product-maker takes
\* out, byte by byte or frame by frame, always wakes it in time.  Its cancellation,
\* and a thread that a lock blocks for good, are the exceptions.
ReaderIsServed == pc[Reader] = "write_wait" ~> pc[Reader] = "fill" \/ cancelled \/ Blocked

\* fifo.c:442-444, of the fifoCloseWhenEmpty() that main() calls: "Blocked ...
\* fifoRead() ... operations will error-return", whereupon the product-maker
\* ends; unless it starves, or the lock of the log is left locked.
CloseEndsMaker == at[Main] = "closing" ~> (at[Maker] = "ended" \/ Starved \/ Blocked)

\* Once fifoCloseWhenEmpty() has done its work, it is so: wherever the
\* product-maker was, it takes out what is left and ends, unless it starves or
\* waits for a lock that never comes free.
EndReachesMaker == closeIfEmpty ~> at[Maker] = "ended" \/ Starved \/ Blocked
=============================================================================
