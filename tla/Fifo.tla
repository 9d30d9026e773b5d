-------------------------------- MODULE Fifo --------------------------------
(***************************************************************************)
(* The FIFO of fifo.c: a ring of Size bytes between the threads that read  *)
(* the NOAAPORT stream from the network (writers) and the thread that      *)
(* makes data-products from it (a reader).                                 *)
(*                                                                         *)
(* The grain is the one at which POSIX threads interleave: locking a       *)
(* mutex, and the code between locking fifo->mutex and releasing it (by    *)
(* unlocking it or by waiting on a condition variable), which no other     *)
(* thread can observe half done.  The one piece of code that touches the   *)
(* ring WITHOUT fifo->mutex, the caller's read(2) into the region that     *)
(* fifoWriteReserve() returned, is an action of its own (Fill).            *)
(*                                                                         *)
(* Failures of the pthread functions themselves (status 2) are not         *)
(* modelled: the mutexes and conditions are initialised once and every     *)
(* thread unlocks what it locked.                                          *)
(***************************************************************************)
EXTENDS Naturals, Sequences

CONSTANTS Writers, Readers, Closers,  \* threads, by the functions they call
          NoThread,                   \* "nobody" as the owner of a mutex
          Byte,                       \* the values of a byte
          Size,                       \* fifo->size
          MaxWrite,                   \* the most a fifoWriteReserve() asks for
          MaxRead                     \* the most a fifoRead() asks for

Threads == Writers \union Readers \union Closers

ASSUME SizeAssumption == Size \in Nat \ {0}
ASSUME AmountAssumption == MaxWrite \in Nat \ {0} /\ MaxRead \in Nat \ {0}
ASSUME ThreadAssumption ==
    /\ Writers \intersect Readers = {}
    /\ Writers \intersect Closers = {}
    /\ Readers \intersect Closers = {}
    /\ NoThread \notin Threads

VARIABLES
    buf,          \* the bytes of the ring
    nextWrite,    \* offset of the next byte to write
    nbytes,       \* number of unread bytes
    nreserved,    \* number of bytes reserved for writing
    closeIfEmpty, \* close the FIFO when it is empty?
    mutex, writeMutex, readMutex,   \* the owners of the three mutexes
    pc,           \* per thread: where it is in fifo.c
    want,         \* per thread: the "nbytes" argument of its current call
    ptr,          \* per writer: the offset of the region reserved for it
    data,         \* per writer: the bytes it got from read(2), not yet added
    got,          \* per reader: the bytes its last fifoRead() returned
    result        \* per thread: the status of its last call

state == <<buf, nextWrite, nbytes, nreserved, closeIfEmpty>>
locks == <<mutex, writeMutex, readMutex>>
calls == <<want, ptr, data, got, result>>
vars == <<state, locks, pc, calls>>

(***************************************************************************)
(* Places.  A thread is about to lock fifo->mutex at a place of DOMAIN     *)
(* Locked and holds it at the place it maps to; at "write_wait" and        *)
(* "read_wait" it is in pthread_cond_wait(); at "fill" its reservation     *)
(* has succeeded and it is running its own code.                           *)
(***************************************************************************)
Locked == [write |-> "write_cs", update |-> "update_cs", copy |-> "copy_cs",
           read |-> "read_cs", close |-> "close_cs"]

Places == {"idle", "write_begin", "write", "write_cs", "write_wait", "fill",
           "update", "update_cs", "copy", "copy_cs", "read_begin", "read",
           "read_cs", "read_wait", "close", "close_cs"}

CriticalPlaces == {"write_cs", "update_cs", "copy_cs", "read_cs", "close_cs"}

\* Places of a thread that owns writeMutex, and that owns readMutex.
WritePlaces == {"write", "write_cs", "write_wait", "fill", "update",
                "update_cs", "copy", "copy_cs"}
ReadPlaces == {"read", "read_cs", "read_wait"}

\* Places of a writer between fifoWriteReserve() and the end of
\* fifoWriteUpdate() or fifoCopy(), and after its read(2).
Reserving == {"fill", "update", "update_cs", "copy", "copy_cs"}
Adding == {"update", "update_cs", "copy", "copy_cs"}

Blocks(max) == UNION {[1..m -> Byte] : m \in 1..max}

\* Position i bytes after offset o, for i at most Size.
Wrap(o, i) == IF o + i >= Size THEN o + i - Size ELSE o + i

\* The offset of the oldest unread byte: nextWrite - nbytes, plus the size
\* of the ring when that is negative.
NextRead == IF nextWrite >= nbytes THEN nextWrite - nbytes
                                   ELSE nextWrite + Size - nbytes

\* The unread bytes, oldest first.
Unread == [i \in 1..nbytes |-> buf[Wrap(NextRead, i - 1)]]

\* The second memcpy() of fifoCopy() forgotten.
Overwrite_OnePiece(o, d) ==
    [p \in 0..Size - 1 |->
        IF p \in o..o + Len(d) - 1 THEN d[p - o + 1] ELSE buf[p]]

\* The ring after d has been copied to it from offset o on, in two pieces
\* when it runs over the end.
Overwrite(o, d) ==
    [p \in 0..Size - 1 |->
        LET i == (IF p >= o THEN p - o ELSE p + Size - o) + 1
        IN  IF i <= Len(d) THEN d[i] ELSE buf[p]]

Init ==
    /\ buf \in [0..Size - 1 -> Byte]
    /\ nextWrite = 0
    /\ nbytes = 0
    /\ nreserved = 0
    /\ closeIfEmpty = FALSE
    /\ mutex = NoThread
    /\ writeMutex = NoThread
    /\ readMutex = NoThread
    /\ pc = [t \in Threads |-> "idle"]
    /\ want = [t \in Threads |-> 0]
    /\ ptr = [t \in Threads |-> 0]
    /\ data = [t \in Threads |-> <<>>]
    /\ got = [t \in Threads |-> <<>>]
    /\ result = [t \in Threads |-> "none"]

-----------------------------------------------------------------------------
(***************************************************************************)
(* A definition NAME_Fault is NAME with a plausible slip: the README says  *)
(* which property of which run notices it.                                 *)
(*                                                                         *)
(* Control.                                                                *)
(***************************************************************************)
Goto(t, place) == pc' = [pc EXCEPT ![t] = place]

\* The sets of threads that one pthread_cond_signal() may wake.
Signal(place) ==
    LET waiting == {t \in Threads : pc[t] = place}
    IN  IF waiting = {} THEN {{}} ELSE {{t} : t \in waiting}

\* t goes to a place while the threads in ww and rw leave the wait queues.
GotoWaking(t, place, ww, rw) ==
    pc' = [x \in Threads |-> IF x = t THEN place
                               ELSE IF x \in ww THEN "write"
                               ELSE IF x \in rw THEN "read" ELSE pc[x]]

\* A call begins, for n bytes.
Begin(t, place, n) ==
    /\ pc[t] = "idle"
    /\ Goto(t, place)
    /\ want' = [want EXCEPT ![t] = n]
    /\ result' = [result EXCEPT ![t] = "none"]
    /\ UNCHANGED <<state, locks, ptr, data, got>>

\* A request that exceeds the whole FIFO is refused before anything is locked.
TooLarge(t) ==
    /\ pc[t] \in {"write_begin", "read_begin"}
    /\ want[t] > Size
    /\ Goto(t, "idle")
    /\ result' = [result EXCEPT ![t] = "usage"]
    /\ UNCHANGED <<state, locks, want, ptr, data, got>>

\* pthread_mutex_lock(&fifo->mutex), also the one inside pthread_cond_wait().
LockMutex(t) ==
    /\ pc[t] \in DOMAIN Locked
    /\ mutex = NoThread
    /\ mutex' = t
    /\ Goto(t, Locked[pc[t]])
    /\ UNCHANGED <<state, writeMutex, readMutex, calls>>

\* pthread_cond_wait() may return although nobody signalled.
SpuriousWakeup(t) ==
    /\ \/ pc[t] = "write_wait" /\ Goto(t, "write")
       \/ pc[t] = "read_wait" /\ Goto(t, "read")
    /\ UNCHANGED <<state, locks, calls>>

Drained == closeIfEmpty /\ nbytes = 0

-----------------------------------------------------------------------------
(***************************************************************************)
(* fifoWriteReserve()                                                      *)
(***************************************************************************)
\* writeMutex not honoured: two reservations at a time.
LockWriteMutex_NotExclusive(t) ==
    /\ pc[t] = "write_begin"
    /\ want[t] <= Size
    /\ writeMutex' = t
    /\ Goto(t, "write")
    /\ UNCHANGED <<state, mutex, readMutex, calls>>

LockWriteMutex(t) ==
    /\ pc[t] = "write_begin"
    /\ want[t] <= Size
    /\ writeMutex = NoThread
    /\ writeMutex' = t
    /\ Goto(t, "write")
    /\ UNCHANGED <<state, mutex, readMutex, calls>>

HasRoom_OffByOne(t) == Size - nbytes + 1 >= want[t]
HasRoom(t) == Size - nbytes >= want[t]

ReserveClosed(t) ==
    /\ pc[t] = "write_cs"
    /\ Drained
    /\ mutex' = NoThread
    /\ writeMutex' = NoThread
    /\ Goto(t, "idle")
    /\ result' = [result EXCEPT ![t] = "closed"]
    /\ UNCHANGED <<state, readMutex, want, ptr, data, got>>

\* Success leaves writeMutex locked until the data has been added.
Reserve(t) ==
    /\ pc[t] = "write_cs"
    /\ ~Drained
    /\ HasRoom(t)
    /\ ptr' = [ptr EXCEPT ![t] = nextWrite]
    /\ nreserved' = want[t]
    /\ mutex' = NoThread
    /\ Goto(t, "fill")
    /\ UNCHANGED <<buf, nextWrite, nbytes, closeIfEmpty, writeMutex, readMutex,
                   want, data, got, result>>

ReserveWait(t) ==
    /\ pc[t] = "write_cs"
    /\ ~Drained
    /\ ~HasRoom(t)
    /\ mutex' = NoThread
    /\ Goto(t, "write_wait")
    /\ UNCHANGED <<state, writeMutex, readMutex, calls>>

(***************************************************************************)
(* The caller's read(2): straight into the ring when the region reserved   *)
(* is contiguous (the second output of fifoWriteReserve() says so), else   *)
(* into a buffer of its own (reader.c).  No lock protects the ring here.   *)
(***************************************************************************)
Fill(t) ==
    /\ pc[t] = "fill"
    /\ \E d \in Blocks(want[t]) :
        /\ data' = [data EXCEPT ![t] = d]
        /\ IF want[t] <= Size - ptr[t]
           THEN Goto(t, "update") /\ buf' = Overwrite(ptr[t], d)
           ELSE Goto(t, "copy") /\ UNCHANGED buf
    /\ UNCHANGED <<nextWrite, nbytes, nreserved, closeIfEmpty, locks, want, ptr,
                   got, result>>

(***************************************************************************)
(* fifoWriteUpdate() and fifoCopy().  Neither can add more than was        *)
(* reserved (the usage error, which leaves everything as it was).          *)
(***************************************************************************)
\* nextWrite moved by n bytes, and without the "% fifo->size".
Advanced_NoWrap(n) == nextWrite + n
Advanced(n) == (nextWrite + n) % Size

Added(t) ==
    /\ Len(data[t]) <= nreserved
    /\ \E rw \in Signal("read_wait") : GotoWaking(t, "idle", {}, rw)
    /\ nextWrite' = Advanced(Len(data[t]))
    /\ nbytes' = nbytes + Len(data[t])
    /\ nreserved' = 0
    /\ mutex' = NoThread
    /\ writeMutex' = NoThread
    /\ data' = [data EXCEPT ![t] = <<>>]
    /\ result' = [result EXCEPT ![t] = "ok"]
    /\ UNCHANGED <<closeIfEmpty, readMutex, want, ptr, got>>

WriteUpdate(t) ==
    /\ pc[t] = "update_cs"
    /\ Added(t)
    /\ UNCHANGED buf

Copy(t) ==
    /\ pc[t] = "copy_cs"
    /\ Added(t)
    /\ buf' = Overwrite(nextWrite, data[t])

-----------------------------------------------------------------------------
(***************************************************************************)
(* fifoRead()                                                              *)
(***************************************************************************)
LockReadMutex(t) ==
    /\ pc[t] = "read_begin"
    /\ want[t] <= Size
    /\ readMutex = NoThread
    /\ readMutex' = t
    /\ Goto(t, "read")
    /\ UNCHANGED <<state, mutex, writeMutex, calls>>

HasData_Strict(t) == nbytes > want[t]
HasData(t) == nbytes >= want[t]

ReadClosed(t) ==
    /\ pc[t] = "read_cs"
    /\ Drained
    /\ mutex' = NoThread
    /\ readMutex' = NoThread
    /\ Goto(t, "idle")
    /\ result' = [result EXCEPT ![t] = "closed"]
    /\ UNCHANGED <<state, writeMutex, want, ptr, data, got>>

\* The signal to the writers forgotten.
Read_NoSignal(t) ==
    /\ pc[t] = "read_cs"
    /\ ~Drained
    /\ HasData(t)
    /\ Goto(t, "idle")
    /\ got' = [got EXCEPT ![t] =
                  [i \in 1..want[t] |-> buf[Wrap(NextRead, i - 1)]]]
    /\ nbytes' = nbytes - want[t]
    /\ mutex' = NoThread
    /\ readMutex' = NoThread
    /\ result' = [result EXCEPT ![t] = "ok"]
    /\ UNCHANGED <<buf, nextWrite, nreserved, closeIfEmpty, writeMutex, want,
                   ptr, data>>

Read(t) ==
    /\ pc[t] = "read_cs"
    /\ ~Drained
    /\ HasData(t)
    /\ \E ww \in Signal("write_wait") : GotoWaking(t, "idle", ww, {})
    /\ got' = [got EXCEPT ![t] =
                  [i \in 1..want[t] |-> buf[Wrap(NextRead, i - 1)]]]
    /\ nbytes' = nbytes - want[t]
    /\ mutex' = NoThread
    /\ readMutex' = NoThread
    /\ result' = [result EXCEPT ![t] = "ok"]
    /\ UNCHANGED <<buf, nextWrite, nreserved, closeIfEmpty, writeMutex, want,
                   ptr, data>>

ReadWait(t) ==
    /\ pc[t] = "read_cs"
    /\ ~Drained
    /\ ~HasData(t)
    /\ mutex' = NoThread
    /\ Goto(t, "read_wait")
    /\ UNCHANGED <<state, writeMutex, readMutex, calls>>

-----------------------------------------------------------------------------
(***************************************************************************)
(* fifoCloseWhenEmpty()                                                    *)
(***************************************************************************)
\* Only the writers are told.
CloseWhenEmpty_WritersOnly(t) ==
    /\ pc[t] = "close_cs"
    /\ closeIfEmpty' = TRUE
    /\ \E ww \in Signal("write_wait") : GotoWaking(t, "idle", ww, {})
    /\ mutex' = NoThread
    /\ result' = [result EXCEPT ![t] = "ok"]
    /\ UNCHANGED <<buf, nextWrite, nbytes, nreserved, writeMutex, readMutex,
                   want, ptr, data, got>>

CloseWhenEmpty(t) ==
    /\ pc[t] = "close_cs"
    /\ closeIfEmpty' = TRUE
    /\ \E ww \in Signal("write_wait"), rw \in Signal("read_wait") :
          GotoWaking(t, "idle", ww, rw)
    /\ mutex' = NoThread
    /\ result' = [result EXCEPT ![t] = "ok"]
    /\ UNCHANGED <<buf, nextWrite, nbytes, nreserved, writeMutex, readMutex,
                   want, ptr, data, got>>

-----------------------------------------------------------------------------
\* The steps of a call that has begun.
WriterStep(t) ==
    \/ LockWriteMutex(t) \/ ReserveClosed(t) \/ Reserve(t) \/ ReserveWait(t)
    \/ Fill(t) \/ WriteUpdate(t) \/ Copy(t)

ReaderStep(t) == LockReadMutex(t) \/ ReadClosed(t) \/ Read(t) \/ ReadWait(t)

Step(t) == \/ TooLarge(t) \/ LockMutex(t)
           \/ WriterStep(t) \/ ReaderStep(t) \/ CloseWhenEmpty(t)

\* The callers' decisions, which nothing obliges them to take.  A reader may
\* ask for nothing (the data block of a frame can be empty).
CallWriteReserve(t) == \E n \in 1..MaxWrite : Begin(t, "write_begin", n)
CallRead(t, n) == Begin(t, "read_begin", n)
CallReadSome(t) == \E n \in 1..MaxRead : CallRead(t, n)
CallClose(t) == Begin(t, "close", 0)

Next ==
    \/ \E t \in Writers : CallWriteReserve(t)
    \/ \E t \in Readers : CallReadSome(t) \/ CallRead(t, 0)
    \/ \E t \in Closers : CallClose(t)
    \/ \E t \in Threads : Step(t) \/ SpuriousWakeup(t)

Spec == Init /\ [][Next]_vars

-----------------------------------------------------------------------------
(***************************************************************************)
(* Properties.                                                             *)
(***************************************************************************)
\* Every variable keeps the range its C type and its use give it; in
\* particular the offsets and counts of struct fifo stay inside the ring.
TypeOK ==
    /\ buf \in [0..Size - 1 -> Byte]
    /\ nextWrite \in 0..Size - 1
    /\ nbytes \in 0..Size
    /\ nreserved \in 0..Size
    /\ closeIfEmpty \in BOOLEAN
    /\ mutex \in Threads \union {NoThread}
    /\ writeMutex \in Writers \union {NoThread}
    /\ readMutex \in Readers \union {NoThread}
    /\ pc \in [Threads -> Places]
    /\ want \in [Threads -> Nat]
    /\ ptr \in [Threads -> 0..Size - 1]
    /\ data \in [Threads -> {<<>>} \union Blocks(MaxWrite)]
    /\ got \in [Threads -> {<<>>} \union Blocks(MaxRead)]
    /\ result \in [Threads -> {"none", "ok", "closed", "usage"}]

\* The region a writer fills without any lock never overlaps the unread
\* bytes, whatever readers and other writers do between fifoWriteReserve()
\* and fifoWriteUpdate(): what is unread and what is reserved fit the ring.
RegionsDisjoint == nbytes + nreserved <= Size

\* The pointer that fifoWriteReserve() returned is not stale when it is used:
\* until the data is added it is still where the next byte goes, and the
\* amount reserved is still this writer's, although fifo->mutex was released.
ReservationIsCurrent ==
    \A t \in Writers :
        pc[t] \in Reserving => ptr[t] = nextWrite /\ nreserved = want[t]

\* No wake-up is lost: a thread sits in pthread_cond_wait() only while what it
\* waits for has not happened, although each pthread_cond_signal() wakes just
\* one thread, several conditions share a condition variable, and the amounts
\* waited for differ.
WaitersHaveReason ==
    \A t \in Threads :
        /\ pc[t] = "write_wait" => ~HasRoom(t) /\ ~Drained
        /\ pc[t] = "read_wait" => ~HasData(t) /\ ~Drained

\* A writer that waits for room while a reader waits for data can be ended by
\* nobody.  It takes a ring that is smaller than the two requests together, less
\* one byte; whatever the other threads do, a larger one never gets there.  (The
\* "-b" option of noaaportIngester sets the size.)
NoMutualWait ==
    \A w \in Writers, r \in Readers :
        pc[w] = "write_wait" /\ pc[r] = "read_wait" => Size < want[w] + want[r] - 1

(***************************************************************************)
(* The invariant that the properties above follow from, in named parts.    *)
(***************************************************************************)

\* Each thread runs the functions of its kind, with arguments that can be met
\* once the first test of the function has been passed.
CallsOK ==
    \A t \in Threads :
        /\ pc[t] \in WritePlaces \union {"write_begin"} =>
              t \in Writers /\ want[t] \in 1..MaxWrite
        /\ pc[t] \in ReadPlaces \union {"read_begin"} =>
              t \in Readers /\ want[t] \in 0..MaxRead
        /\ pc[t] \in WritePlaces \union ReadPlaces => want[t] <= Size
        /\ pc[t] \in Adding => data[t] \in Blocks(want[t])

\* A mutex is owned by the thread that is at a place it protects, and only then.
MutexesOK ==
    \A t \in Threads :
        /\ pc[t] \in CriticalPlaces <=> mutex = t
        /\ pc[t] \in WritePlaces <=> writeMutex = t
        /\ pc[t] \in ReadPlaces <=> readMutex = t

IInv ==
    /\ TypeOK
    /\ CallsOK
    /\ MutexesOK
    /\ RegionsDisjoint
    /\ ReservationIsCurrent
    /\ WaitersHaveReason

\* The FIFO implements the byte queue: the bytes a reader gets are exactly the
\* ones that were added and not yet read, in order, none lost, doubled or
\* overwritten, and an operation is refused only when the FIFO is closed and
\* empty (or the request exceeds it).
MaxOf(a, b) == IF a >= b THEN a ELSE b
Queue == INSTANCE ByteQueue WITH
            Capacity <- Size, MaxAsk <- MaxOf(MaxWrite, MaxRead),
            queue <- Unread, closing <- closeIfEmpty, ask <- want,
            offer <- data
QueueSpec == Queue!Spec
=============================================================================
