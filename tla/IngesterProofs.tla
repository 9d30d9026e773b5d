--------------------------- MODULE IngesterProofs ---------------------------
(***************************************************************************)
(* Proofs about Ingester: the threads come to their ends in the right      *)
(* order, whatever the size of the ring, the amounts and the input.        *)
(*                                                                         *)
(* The steps of the FIFO are used through what each of them does to the    *)
(* variables of IInv; the FIFO's own invariants are not needed for that.   *)
(* That these hold too, although SIGTERM may end the reader thread inside  *)
(* the FIFO, is proved at the end with the lemmas of FifoProofs.           *)
(***************************************************************************)
EXTENDS Ingester, WellFoundedInduction, TLAPS

Stations == {"running", "ended", "blocked", "join_reader", "close", "closing", "report", "done"}

\* The values of the variables that the other conjuncts speak of.
Kinds ==
    /\ nbytes \in Nat
    /\ closeIfEmpty \in BOOLEAN
    /\ pc \in [Threads -> F!Places]
    /\ want \in [Threads -> Nat]
    /\ data \in [Threads -> Seq({Octet})]
    /\ result \in [Threads -> {"none", "ok", "closed", "usage"}]
    /\ at \in [Threads -> Stations]
    /\ input \in 0..InputBytes
    /\ maxSize \in MaxSizes
    /\ frameAt \in 1..Len(FrameReads)

\* Each thread is in the functions of fifo.c that it calls, and nowhere else.
RolesOK ==
    /\ pc[Reader] \in F!WritePlaces \union {"idle", "write_begin"}
    /\ pc[Maker] \in F!ReadPlaces \union {"idle", "read_begin"}
    /\ pc[Main] \in {"idle", "close", "close_cs"}
    /\ at[Reader] \in {"running", "ended", "blocked"}
    /\ at[Maker] \in {"running", "ended", "blocked"}
    /\ at[Main] \in {"join_reader", "close", "closing", "report", "done", "blocked"}

\* main() closes the FIFO after it has joined the reader thread.
ClosedLate ==
    \/ at[Main] \in {"close", "closing", "report", "done"} \/ pc[Main] # "idle" \/ closeIfEmpty
    => at[Reader] = "ended"

\* What the status of the product-maker's last read stands for.
StatusOK ==
    /\ pc[Maker] # "idle" \/ result[Maker] # "none" => want[Maker] = FrameReads[frameAt]
    /\ result[Maker] = "closed" => F!Drained
    /\ result[Maker] = "usage" => want[Maker] > Size

\* The product-maker ends when the FIFO is closed and empty, main() after it.
EndsOK ==
    /\ at[Maker] = "ended" => F!Drained
    /\ at[Main] \in {"report", "done"} => at[Maker] = "ended"

IInv == Kinds /\ RolesOK /\ ClosedLate /\ StatusOK /\ EndsOK

-----------------------------------------------------------------------------
\* The amounts that pmStart() reads are numbers, and there is a first one.
LEMMA Frame == /\ Len(FrameReads) \in Nat \ {0}
               /\ \A i \in 1..Len(FrameReads) : FrameReads[i] \in Nat
<1>1. Len(FrameReads) \in Nat /\ (Len(FrameReads) = 0 => FrameReads = <<>>)
  BY FrameAssumption
<1>2. \A i \in 1..Len(FrameReads) : FrameReads[i] \in Nat
  BY FrameAssumption
<1>3. QED
  BY <1>1, <1>2, FrameAssumption

\* What read(2) returns is a sequence of bytes.
LEMMA BlocksAreSequences ==
    ASSUME NEW n \in Nat, NEW d \in F!Blocks(n)
    PROVE  d \in Seq({Octet})
<1>1. PICK m \in 1..n : d \in [1..m -> {Octet}]
  BY DEF F!Blocks
<1>2. QED
  BY <1>1

\* main() starts the threads of which none has called anything.
LEMMA Initially == Init => IInv
<1> SUFFICES ASSUME Init PROVE IInv
  OBVIOUS
<1> USE ThreadAssumption, InputAssumption DEF Init, F!Init, Threads, F!Threads, Stations
<1>1. Kinds
  <2>1. 1 \in 1..Len(FrameReads)
    BY Frame
  <2>2. data \in [Threads -> Seq({Octet})]
    OBVIOUS
  <2>3. /\ pc \in [Threads -> F!Places] /\ want \in [Threads -> Nat]
        /\ result \in [Threads -> {"none", "ok", "closed", "usage"}]
        /\ at \in [Threads -> Stations]
    BY DEF F!Places
  <2>4. nbytes \in Nat /\ input \in 0..InputBytes
    OBVIOUS
  <2>5. closeIfEmpty \in BOOLEAN /\ maxSize \in MaxSizes /\ frameAt \in 1..Len(FrameReads)
    BY <2>1
  <2>6. QED
    BY <2>2, <2>3, <2>4, <2>5 DEF Kinds
<1>2. RolesOK /\ ClosedLate /\ StatusOK /\ EndsOK
  BY DEF RolesOK, ClosedLate, StatusOK, EndsOK
<1>3. QED
  BY <1>1, <1>2 DEF IInv

-----------------------------------------------------------------------------
(***************************************************************************)
(* The steps of fifo.c.                                                    *)
(***************************************************************************)
\* A thread that is woken goes on with the call it was in.
LEMMA Waking ==
    ASSUME pc \in [Threads -> F!Places], NEW t \in Threads, NEW place \in F!Places,
           NEW ww, NEW rw, F!GotoWaking(t, place, ww, rw),
           ww \subseteq {x \in Threads : pc[x] = "write_wait"},
           rw \subseteq {x \in Threads : pc[x] = "read_wait"}
    PROVE  /\ pc' \in [Threads -> F!Places]
           /\ pc'[t] = place
           /\ \A x \in Threads \ {t} :
                 \/ pc'[x] = pc[x]
                 \/ pc[x] = "write_wait" /\ pc'[x] = "write"
                 \/ pc[x] = "read_wait" /\ pc'[x] = "read"
  BY DEF F!GotoWaking, Threads, F!Threads, F!Places

\* The same of pthread_cond_signal(): it wakes threads that wait.
LEMMA Signalled ==
    ASSUME NEW place, NEW S \in F!Signal(place)
    PROVE  S \subseteq {x \in Threads : pc[x] = place}
  BY DEF F!Signal, Threads, F!Threads

\* The values the variables of the FIFO keep in any of its steps.
FifoKinds ==
    /\ nbytes \in Nat
    /\ closeIfEmpty \in BOOLEAN
    /\ pc \in [Threads -> F!Places]
    /\ want \in [Threads -> Nat]
    /\ data \in [Threads -> Seq({Octet})]
    /\ result \in [Threads -> {"none", "ok", "closed", "usage"}]

\* A step of t leaves the other threads in the calls they were in.
OthersStay(t) ==
    \A x \in Threads \ {t} :
        /\ want'[x] = want[x] /\ result'[x] = result[x]
        /\ \/ pc'[x] = pc[x]
           \/ pc[x] = "write_wait" /\ pc'[x] = "write"
           \/ pc[x] = "read_wait" /\ pc'[x] = "read"

\* fifoWriteReserve(), read(2), fifoWriteUpdate() and fifoCopy().
LEMMA WriterStepEffect ==
    ASSUME FifoKinds, NEW t \in Threads, F!WriterStep(t)
    PROVE  /\ FifoKinds' /\ OthersStay(t)
           /\ closeIfEmpty' = closeIfEmpty
           /\ pc[t] \in F!WritePlaces \union {"write_begin"}
           /\ pc'[t] \in F!WritePlaces \union {"idle"}
<1> USE DEF FifoKinds, OthersStay, F!WritePlaces, F!Places, F!Goto, F!locks, F!state, F!calls
<1>1. CASE F!LockWriteMutex(t)
  BY <1>1 DEF F!LockWriteMutex
<1>2. CASE F!ReserveClosed(t)
  BY <1>2 DEF F!ReserveClosed
<1>3. CASE F!Reserve(t)
  BY <1>3 DEF F!Reserve
<1>4. CASE F!ReserveWait(t)
  BY <1>4 DEF F!ReserveWait
<1>5. CASE F!Fill(t)
  <2>1. PICK d \in F!Blocks(want[t]) : data' = [data EXCEPT ![t] = d]
    BY <1>5 DEF F!Fill
  <2>2. d \in Seq({Octet})
    BY BlocksAreSequences
  <2>3. QED
    BY <1>5, <2>1, <2>2 DEF F!Fill
<1>6. ASSUME F!Added(t), pc[t] \in {"update_cs", "copy_cs"}
      PROVE  FifoKinds' /\ OthersStay(t) /\ closeIfEmpty' = closeIfEmpty /\ pc'[t] = "idle"
  <2>1. PICK rw \in F!Signal("read_wait") : F!GotoWaking(t, "idle", {}, rw)
    BY <1>6 DEF F!Added
  <2>2. /\ pc' \in [Threads -> F!Places] /\ pc'[t] = "idle"
        /\ \A x \in Threads \ {t} : \/ pc'[x] = pc[x]
                                    \/ pc[x] = "write_wait" /\ pc'[x] = "write"
                                    \/ pc[x] = "read_wait" /\ pc'[x] = "read"
    BY <2>1, Signalled, Waking
  <2>3. Len(data[t]) \in Nat
    OBVIOUS
  <2>4. /\ nbytes' \in Nat
        /\ want' = want /\ closeIfEmpty' = closeIfEmpty
        /\ result' = [result EXCEPT ![t] = "ok"] /\ data' = [data EXCEPT ![t] = <<>>]
    BY <1>6, <2>3 DEF F!Added
  <2>5. data' \in [Threads -> Seq({Octet})]
    BY <2>4
  <2>6. QED
    BY <2>2, <2>4, <2>5
<1>7. QED
  BY <1>1, <1>2, <1>3, <1>4, <1>5, <1>6 DEF F!WriterStep, F!WriteUpdate, F!Copy

\* TooLarge, the first test of fifoWriteReserve() and fifoRead(), and the lock.
LEMMA EntryEffect ==
    ASSUME FifoKinds, NEW t \in Threads, F!TooLarge(t) \/ F!LockMutex(t)
    PROVE  /\ FifoKinds' /\ OthersStay(t)
           /\ closeIfEmpty' = closeIfEmpty /\ nbytes' = nbytes /\ want' = want
           /\ \/ /\ pc[t] \in {"write_begin", "read_begin"} /\ pc'[t] = "idle"
                 /\ want[t] > Size /\ result'[t] = "usage"
              \/ /\ pc[t] \in DOMAIN F!Locked /\ pc'[t] = F!Locked[pc[t]]
                 /\ result' = result
<1> USE DEF FifoKinds, OthersStay, F!Places, F!Goto, F!locks, F!state, F!calls, F!Locked
<1>1. CASE F!TooLarge(t)
  BY <1>1 DEF F!TooLarge
<1>2. CASE F!LockMutex(t)
  BY <1>2 DEF F!LockMutex
<1>3. QED
  BY <1>1, <1>2

\* fifoRead(): refused only when the FIFO is closed and empty.
LEMMA ReaderStepEffect ==
    ASSUME FifoKinds, NEW t \in Threads, F!ReaderStep(t)
    PROVE  /\ FifoKinds' /\ OthersStay(t)
           /\ closeIfEmpty' = closeIfEmpty /\ want' = want
           /\ pc[t] \in F!ReadPlaces \union {"read_begin"}
           /\ pc'[t] \in F!ReadPlaces \union {"idle"}
           /\ nbytes = 0 => nbytes' = 0
           /\ \/ result' = result
              \/ result'[t] = "closed" /\ F!Drained
              \/ result'[t] = "ok"
<1> USE DEF FifoKinds, OthersStay, F!ReadPlaces, F!Places, F!Goto, F!locks, F!state, F!calls
<1>1. CASE F!LockReadMutex(t)
  BY <1>1 DEF F!LockReadMutex
<1>2. CASE F!ReadClosed(t)
  BY <1>2 DEF F!ReadClosed
<1>3. CASE F!Read(t)
  <2>1. PICK ww \in F!Signal("write_wait") : F!GotoWaking(t, "idle", ww, {})
    BY <1>3 DEF F!Read
  <2>2. /\ pc' \in [Threads -> F!Places] /\ pc'[t] = "idle"
        /\ \A x \in Threads \ {t} : \/ pc'[x] = pc[x]
                                    \/ pc[x] = "write_wait" /\ pc'[x] = "write"
                                    \/ pc[x] = "read_wait" /\ pc'[x] = "read"
    BY <2>1, Signalled, Waking
  <2>3. /\ nbytes' \in Nat /\ (nbytes = 0 => nbytes' = 0)
        /\ want' = want /\ closeIfEmpty' = closeIfEmpty /\ data' = data
        /\ result' = [result EXCEPT ![t] = "ok"] /\ pc[t] = "read_cs"
    BY <1>3 DEF F!Read, F!HasData
  <2>4. QED
    BY <2>2, <2>3
<1>4. CASE F!ReadWait(t)
  BY <1>4 DEF F!ReadWait
<1>5. QED
  BY <1>1, <1>2, <1>3, <1>4 DEF F!ReaderStep

\* fifoCloseWhenEmpty()
LEMMA CloseEffect ==
    ASSUME FifoKinds, NEW t \in Threads, F!CloseWhenEmpty(t)
    PROVE  /\ FifoKinds' /\ OthersStay(t)
           /\ closeIfEmpty' /\ nbytes' = nbytes
           /\ pc[t] = "close_cs" /\ pc'[t] = "idle"
<1> USE DEF FifoKinds, OthersStay
<1>1. PICK ww \in F!Signal("write_wait"), rw \in F!Signal("read_wait") :
          F!GotoWaking(t, "idle", ww, rw)
  BY DEF F!CloseWhenEmpty
<1>2. /\ pc' \in [Threads -> F!Places] /\ pc'[t] = "idle"
      /\ \A x \in Threads \ {t} : \/ pc'[x] = pc[x]
                                  \/ pc[x] = "write_wait" /\ pc'[x] = "write"
                                  \/ pc[x] = "read_wait" /\ pc'[x] = "read"
  <2>1. "idle" \in F!Places
    BY DEF F!Places
  <2>2. ww \subseteq {x \in Threads : pc[x] = "write_wait"}
    BY Signalled
  <2>3. rw \subseteq {x \in Threads : pc[x] = "read_wait"}
    BY Signalled
  <2>4. QED
    BY <1>1, <2>1, <2>2, <2>3, Waking
<1>3. /\ nbytes' = nbytes /\ want' = want /\ closeIfEmpty' = TRUE /\ data' = data
      /\ result' = [result EXCEPT ![t] = "ok"] /\ pc[t] = "close_cs"
  BY DEF F!CloseWhenEmpty
<1>4. QED
  BY <1>2, <1>3

-----------------------------------------------------------------------------
(***************************************************************************)
(* The steps of the process.                                               *)
(***************************************************************************)
\* What is left of IInv when the FIFO's values are taken out of it.
OwnKinds ==
    /\ at \in [Threads -> Stations]
    /\ input \in 0..InputBytes
    /\ maxSize \in MaxSizes
    /\ frameAt \in 1..Len(FrameReads)

\* The reader thread in a call of the FIFO.
LEMMA ReaderInFifo ==
    ASSUME IInv, Running(Reader), F!Step(Reader), at' = at, frameAt' = frameAt
    PROVE  FifoKinds' /\ RolesOK' /\ ClosedLate' /\ StatusOK' /\ EndsOK'
<1>1. FifoKinds /\ Reader \in Threads /\ Maker \in Threads /\ Main \in Threads
  BY DEF IInv, Kinds, FifoKinds, Threads
<1>2. /\ FifoKinds' /\ OthersStay(Reader) /\ closeIfEmpty' = closeIfEmpty
      /\ pc'[Reader] \in F!WritePlaces \union {"idle", "write_begin"}
  <2>1. CASE F!TooLarge(Reader) \/ F!LockMutex(Reader)
    BY <1>1, <2>1, EntryEffect DEF IInv, RolesOK, F!Locked, F!WritePlaces
  <2>2. CASE F!WriterStep(Reader)
    BY <1>1, <2>2, WriterStepEffect
  <2>3. CASE F!ReaderStep(Reader) \/ F!CloseWhenEmpty(Reader)
    <3>1. pc[Reader] \in F!ReadPlaces \union {"read_begin", "close_cs"}
      BY <1>1, <2>3, ReaderStepEffect, CloseEffect
    <3>2. QED
      BY <3>1 DEF IInv, RolesOK, F!WritePlaces, F!ReadPlaces
  <2>4. QED
    BY <2>1, <2>2, <2>3 DEF F!Step
<1>3. /\ at[Reader] = "running" /\ at[Main] \in {"join_reader", "blocked"}
      /\ ~closeIfEmpty /\ pc[Main] = "idle"
  BY DEF IInv, RolesOK, ClosedLate, Running
<1>4. /\ want'[Maker] = want[Maker] /\ result'[Maker] = result[Maker]
      /\ pc'[Maker] \in F!ReadPlaces \union {"idle", "read_begin"}
      /\ (pc'[Maker] # "idle" => pc[Maker] # "idle")
      /\ pc'[Main] = pc[Main]
  BY <1>1, <1>2, <1>3, ThreadAssumption DEF OthersStay, IInv, RolesOK, F!ReadPlaces
<1>5. QED
  BY <1>2, <1>3, <1>4
     DEF IInv, RolesOK, ClosedLate, StatusOK, EndsOK, F!Drained

\* The product-maker in a call of the FIFO.
LEMMA MakerInFifo ==
    ASSUME IInv, Running(Maker), F!Step(Maker), at' = at, frameAt' = frameAt
    PROVE  FifoKinds' /\ RolesOK' /\ ClosedLate' /\ StatusOK' /\ EndsOK'
<1>1. FifoKinds /\ Reader \in Threads /\ Maker \in Threads /\ Main \in Threads
  BY DEF IInv, Kinds, FifoKinds, Threads
<1>2. /\ FifoKinds' /\ OthersStay(Maker) /\ closeIfEmpty' = closeIfEmpty
      /\ want' = want
      /\ pc'[Maker] \in F!ReadPlaces \union {"idle", "read_begin"}
      /\ pc[Maker] # "idle"
      /\ nbytes = 0 => nbytes' = 0
      /\ result'[Maker] = "closed" => result[Maker] = "closed" \/ F!Drained
      /\ result'[Maker] = "usage" => result[Maker] = "usage" \/ want[Maker] > Size
  <2>1. CASE F!TooLarge(Maker) \/ F!LockMutex(Maker)
    BY <1>1, <2>1, EntryEffect DEF IInv, RolesOK, F!Locked, F!ReadPlaces
  <2>2. CASE F!ReaderStep(Maker)
    BY <1>1, <2>2, ReaderStepEffect DEF F!ReadPlaces
  <2>3. CASE F!WriterStep(Maker) \/ F!CloseWhenEmpty(Maker)
    <3>1. pc[Maker] \in F!WritePlaces \union {"write_begin", "close_cs"}
      BY <1>1, <2>3, WriterStepEffect, CloseEffect
    <3>2. QED
      BY <3>1 DEF IInv, RolesOK, F!WritePlaces, F!ReadPlaces
  <2>4. QED
    BY <2>1, <2>2, <2>3 DEF F!Step
<1>3. at[Maker] = "running" /\ at[Main] # "done"
  BY DEF IInv, RolesOK, Running
<1>4. /\ pc'[Reader] \in F!WritePlaces \union {"idle", "write_begin"}
      /\ pc'[Main] = pc[Main]
  BY <1>1, <1>2, ThreadAssumption DEF OthersStay, IInv, RolesOK, F!WritePlaces
<1>5. want[Maker] = FrameReads[frameAt]
  BY <1>2 DEF IInv, StatusOK
<1>6. StatusOK'
  BY <1>2, <1>5 DEF IInv, StatusOK, F!Drained
<1>7. QED
  BY <1>2, <1>3, <1>4, <1>6
     DEF IInv, RolesOK, ClosedLate, EndsOK, F!Drained

\* The main thread in fifoCloseWhenEmpty().
LEMMA MainInFifo ==
    ASSUME IInv, Running(Main), F!Step(Main), at' = at, frameAt' = frameAt
    PROVE  FifoKinds' /\ RolesOK' /\ ClosedLate' /\ StatusOK' /\ EndsOK'
<1>1. FifoKinds /\ Reader \in Threads /\ Maker \in Threads /\ Main \in Threads
  BY DEF IInv, Kinds, FifoKinds, Threads
<1>2. /\ FifoKinds' /\ OthersStay(Main)
      /\ closeIfEmpty => closeIfEmpty'
      /\ nbytes' = nbytes
      /\ pc'[Main] \in {"idle", "close", "close_cs"}
  <2>1. CASE F!TooLarge(Main) \/ F!LockMutex(Main)
    BY <1>1, <2>1, EntryEffect DEF IInv, RolesOK, F!Locked
  <2>2. CASE F!CloseWhenEmpty(Main)
    BY <1>1, <2>2, CloseEffect
  <2>3. CASE F!WriterStep(Main) \/ F!ReaderStep(Main)
    <3>1. pc[Main] \in F!WritePlaces \union F!ReadPlaces \union {"write_begin", "read_begin"}
      BY <1>1, <2>3, WriterStepEffect, ReaderStepEffect
    <3>2. QED
      BY <3>1 DEF IInv, RolesOK, F!WritePlaces, F!ReadPlaces
  <2>4. QED
    BY <2>1, <2>2, <2>3 DEF F!Step
<1>3. at[Main] = "closing" /\ at[Reader] = "ended"
  BY DEF IInv, RolesOK, ClosedLate, Running
<1>4. /\ want'[Maker] = want[Maker] /\ result'[Maker] = result[Maker]
      /\ pc'[Maker] \in F!ReadPlaces \union {"idle", "read_begin"}
      /\ (pc'[Maker] # "idle" => pc[Maker] # "idle")
      /\ pc'[Reader] \in F!WritePlaces \union {"idle", "write_begin"}
  BY <1>1, <1>2, ThreadAssumption DEF OthersStay, IInv, RolesOK, F!ReadPlaces, F!WritePlaces
<1>5. QED
  BY <1>2, <1>3, <1>4
     DEF IInv, RolesOK, ClosedLate, StatusOK, EndsOK, F!Drained

\* Only read(2) takes input.
LEMMA FifoStepKeeps ==
    ASSUME IInv, NEW t \in Threads, FifoStep(t) \/ SpuriousWakeup(t)
    PROVE  IInv' /\ input' = input
<1>1. UNCHANGED own /\ at' = at /\ frameAt' = frameAt /\ maxSize' = maxSize /\ input' = input
  BY DEF FifoStep, SpuriousWakeup, own
<1>2. CASE FifoStep(t)
  <2>1. FifoKinds' /\ RolesOK' /\ ClosedLate' /\ StatusOK' /\ EndsOK'
    BY <1>1, <1>2, ReaderInFifo, MakerInFifo, MainInFifo DEF FifoStep, Threads
  <2>2. Kinds'
    BY <1>1, <2>1 DEF IInv, Kinds, FifoKinds
  <2>3. QED
    BY <1>1, <2>1, <2>2 DEF IInv
<1>3. CASE SpuriousWakeup(t)
  <2>1. /\ UNCHANGED <<nbytes, closeIfEmpty, want, data, result>>
        /\ \/ pc[t] = "write_wait" /\ pc' = [pc EXCEPT ![t] = "write"]
           \/ pc[t] = "read_wait" /\ pc' = [pc EXCEPT ![t] = "read"]
    BY <1>3 DEF SpuriousWakeup, F!SpuriousWakeup, F!Goto, F!state, F!calls
  <2>2. Kinds'
    BY <1>1, <2>1 DEF IInv, Kinds, F!Places
  <2>3. RolesOK'
    BY <1>1, <2>1, ThreadAssumption
       DEF IInv, Kinds, RolesOK, Threads, F!WritePlaces, F!ReadPlaces
  <2>4. ClosedLate' /\ StatusOK' /\ EndsOK'
    BY <1>1, <2>1, ThreadAssumption
       DEF IInv, Kinds, RolesOK, ClosedLate, StatusOK, EndsOK, F!Drained, Threads
  <2>5. QED
    BY <2>2, <2>3, <2>4, <1>1 DEF IInv
<1>4. QED
  BY <1>2, <1>3

\* A call of the FIFO begins.
LEMMA Beginning ==
    ASSUME FifoKinds, NEW t \in Threads, NEW place \in F!Places, NEW n \in Nat,
           F!Begin(t, place, n)
    PROVE  /\ FifoKinds' /\ OthersStay(t) /\ closeIfEmpty' = closeIfEmpty
           /\ nbytes' = nbytes
           /\ pc[t] = "idle" /\ pc'[t] = place /\ want'[t] = n /\ result'[t] = "none"
  BY DEF FifoKinds, OthersStay, F!Begin, F!Goto, F!state, F!locks

\* The reader thread asks for room.
LEMMA ReaderReservesKeeps ==
    ASSUME IInv, ReaderReserves
    PROVE  IInv' /\ input' = input
<1>1. FifoKinds /\ Reader \in Threads /\ Maker \in Threads /\ Main \in Threads
  BY DEF IInv, Kinds, FifoKinds, Threads
<1>2. UNCHANGED own /\ at' = at /\ frameAt' = frameAt /\ maxSize' = maxSize /\ input' = input
  BY DEF ReaderReserves, own
<1>3. /\ FifoKinds' /\ OthersStay(Reader) /\ closeIfEmpty' = closeIfEmpty
      /\ nbytes' = nbytes /\ pc'[Reader] = "write_begin"
  <2>1. maxSize \in Nat
    BY MaxSizeAssumption DEF IInv, Kinds
  <2>2. "write_begin" \in F!Places
    BY DEF F!Places
  <2>3. QED
    BY <1>1, <2>1, <2>2, Beginning DEF ReaderReserves
<1>4. /\ want'[Maker] = want[Maker] /\ result'[Maker] = result[Maker]
      /\ pc'[Maker] \in F!ReadPlaces \union {"idle", "read_begin"}
      /\ (pc'[Maker] # "idle" => pc[Maker] # "idle")
      /\ pc'[Main] \in {"idle", "close", "close_cs"}
      /\ (pc[Main] = "idle" => pc'[Main] = "idle")
  BY <1>1, <1>3, ThreadAssumption DEF OthersStay, IInv, RolesOK, F!ReadPlaces
<1>5. Kinds'
  BY <1>2, <1>3 DEF IInv, Kinds, FifoKinds
<1>6. QED
  BY <1>2, <1>3, <1>4, <1>5
     DEF IInv, RolesOK, ClosedLate, StatusOK, EndsOK, F!Drained

\* read(2) returns while the FIFO is open: main() has not joined the reader.
LEMMA ReadInputKeeps ==
    ASSUME IInv, ReadInput
    PROVE  IInv' /\ ~closeIfEmpty
<1>1. FifoKinds /\ Reader \in Threads
  BY DEF IInv, Kinds, FifoKinds, Threads
<1>2. F!Step(Reader) /\ Running(Reader)
  BY DEF ReadInput, F!Step, F!WriterStep
<1>3. at' = at /\ frameAt' = frameAt /\ maxSize' = maxSize
  BY DEF ReadInput
<1>4. FifoKinds' /\ RolesOK' /\ ClosedLate' /\ StatusOK' /\ EndsOK'
  BY <1>2, <1>3, ReaderInFifo
<1>5. input' \in 0..InputBytes
  <2>1. data' \in [Threads -> Seq({Octet})]
    BY <1>4 DEF FifoKinds
  <2>2. Len(data'[Reader]) \in Nat
    BY <1>1, <2>1
  <2>3. /\ input \in 0..InputBytes
        /\ Len(data'[Reader]) <= input /\ input' = input - Len(data'[Reader])
    BY DEF ReadInput, IInv, Kinds
  <2>4. QED
    BY <2>2, <2>3, InputAssumption
<1>6. Kinds'
  BY <1>3, <1>4, <1>5 DEF IInv, Kinds, FifoKinds
<1>7. at[Reader] = "running" /\ ~closeIfEmpty
  BY <1>2 DEF IInv, RolesOK, ClosedLate, Running
<1>8. QED
  BY <1>4, <1>6, <1>7 DEF IInv

\* The reader thread ends by itself or is cancelled; SIGTERM comes.
LEMMA ReaderEndKeeps ==
    ASSUME IInv,
           \/ ReaderRefused \/ (\E status \in {0, 2} : ReadEnds(status))
           \/ Sigterm \/ CancelInRead \/ CancelInWait \/ CancelInLog
    PROVE  IInv' /\ input' = input
<1>1. Reader \in Threads /\ Maker \in Threads /\ Main \in Threads
  BY DEF Threads
<1>2. /\ UNCHANGED <<nbytes, closeIfEmpty, want, data, result, input, maxSize, frameAt>>
      /\ \/ pc' = pc
         \/ pc[Reader] = "write_wait" /\ pc' = [pc EXCEPT ![Reader] = "write_cs"]
      /\ \/ at' = at
         \/ at[Reader] = "running" /\ at' = [at EXCEPT ![Reader] = "ended"]
  BY DEF IInv, RolesOK, ReaderRefused, ReadEnds, Sigterm, CancelInRead, CancelInWait,
         CancelInLog, Running, Go, F!Goto, fifo
<1>3. Kinds'
  BY <1>2 DEF IInv, Kinds, F!Places, Stations
<1>4. /\ pc'[Reader] \in F!WritePlaces \union {"idle", "write_begin"}
      /\ at'[Reader] \in {"running", "ended", "blocked"}
      /\ (at[Reader] = "ended" => at'[Reader] = "ended")
      /\ pc'[Maker] = pc[Maker] /\ pc'[Main] = pc[Main]
      /\ at'[Maker] = at[Maker] /\ at'[Main] = at[Main]
  BY <1>1, <1>2, ThreadAssumption DEF IInv, Kinds, RolesOK, F!WritePlaces
<1>5. QED
  BY <1>2, <1>3, <1>4
     DEF IInv, RolesOK, ClosedLate, StatusOK, EndsOK, F!Drained

\* The product-maker asks for the start of a frame or for more of one.
LEMMA MakerReadsKeeps ==
    ASSUME IInv, MakerReads
    PROVE  IInv' /\ input' = input
<1>1. FifoKinds /\ Reader \in Threads /\ Maker \in Threads /\ Main \in Threads
  BY DEF IInv, Kinds, FifoKinds, Threads
<1>2. at' = at /\ maxSize' = maxSize /\ input' = input
  BY DEF MakerReads
<1>3. frameAt' \in 1..Len(FrameReads) /\ F!Begin(Maker, "read_begin", FrameReads[frameAt'])
  <2>1. PICK next \in {1} \union
            (IF result[Maker] = "ok" /\ frameAt < Len(FrameReads)
             THEN {frameAt + 1} ELSE {}) :
            frameAt' = next /\ F!Begin(Maker, "read_begin", FrameReads[next])
    BY DEF MakerReads
  <2>2. next \in 1..Len(FrameReads)
    BY Frame DEF IInv, Kinds
  <2>3. QED
    BY <2>1, <2>2
<1>4. /\ FifoKinds' /\ OthersStay(Maker) /\ closeIfEmpty' = closeIfEmpty
      /\ nbytes' = nbytes /\ pc'[Maker] = "read_begin"
      /\ want'[Maker] = FrameReads[frameAt'] /\ result'[Maker] = "none"
  <2>1. FrameReads[frameAt'] \in Nat /\ "read_begin" \in F!Places
    BY <1>3, Frame DEF F!Places
  <2>2. QED
    BY <1>1, <1>3, <2>1, Beginning
<1>5. /\ pc'[Reader] \in F!WritePlaces \union {"idle", "write_begin"}
      /\ pc'[Main] \in {"idle", "close", "close_cs"}
      /\ (pc[Main] = "idle" => pc'[Main] = "idle")
  BY <1>1, <1>4, ThreadAssumption DEF OthersStay, IInv, RolesOK, F!WritePlaces
<1>6. (pc'[Main] # "idle" => pc[Main] # "idle") /\ at[Maker] = "running"
  BY <1>5 DEF MakerReads, Running, IInv, RolesOK
<1>7. Kinds'
  BY <1>2, <1>3, <1>4 DEF IInv, Kinds, FifoKinds
<1>8. QED
  BY <1>2, <1>4, <1>5, <1>6, <1>7
     DEF IInv, RolesOK, ClosedLate, StatusOK, EndsOK, F!Drained

\* The product-maker ends: the one byte it asks for fits every FIFO, so it is
\* refused because the FIFO is closed and empty.
LEMMA MakerEndsKeeps ==
    ASSUME IInv, MakerEnds
    PROVE  IInv' /\ input' = input
<1>1. Reader \in Threads /\ Maker \in Threads /\ Main \in Threads
  BY DEF Threads
<1>2. /\ UNCHANGED <<nbytes, closeIfEmpty, pc, want, data, result, input, maxSize, frameAt>>
      /\ at' = [at EXCEPT ![Maker] = "ended"]
  BY DEF MakerEnds, fifo, Go
<1>3. F!Drained
  <2>1. frameAt = 1 /\ result[Maker] \in {"closed", "usage"}
    BY DEF MakerEnds, Refused
  <2>2. want[Maker] = 1
    BY <2>1, FrameAssumption DEF IInv, StatusOK
  <2>3. ~(want[Maker] > Size)
    BY <2>2, SizeAssumption
  <2>4. QED
    BY <2>1, <2>3 DEF IInv, StatusOK
<1>4. Kinds'
  BY <1>2 DEF IInv, Kinds, Stations
<1>5. /\ at'[Maker] = "ended" /\ at'[Reader] = at[Reader] /\ at'[Main] = at[Main]
  BY <1>1, <1>2, ThreadAssumption DEF IInv, Kinds
<1>6. QED
  BY <1>2, <1>3, <1>4, <1>5
     DEF IInv, RolesOK, ClosedLate, StatusOK, EndsOK, F!Drained

\* A thread blocks for good in the handler of SIGUSR1, or for a lock that was
\* left locked.
LEMMA BlockingKeeps ==
    ASSUME IInv, MakerBlocks \/ (\E t \in Threads : Sigusr1Blocks(t))
    PROVE  IInv' /\ input' = input
<1>1. Reader \in Threads /\ Maker \in Threads /\ Main \in Threads
  BY DEF Threads
<1>2. PICK t \in Threads : /\ at' = [at EXCEPT ![t] = "blocked"] /\ at[t] # "ended"
  BY <1>1 DEF MakerBlocks, Sigusr1Blocks, Running, Go
<1>3. /\ UNCHANGED <<nbytes, closeIfEmpty, pc, want, data, result, input, maxSize, frameAt>>
      /\ at[Main] # "done"
  BY DEF MakerBlocks, Sigusr1Blocks, Running, fifo
<1>4. Kinds'
  BY <1>2, <1>3 DEF IInv, Kinds, Stations
<1>5. \A u \in Threads : \/ at'[u] = at[u]
                         \/ at[u] # "ended" /\ at'[u] = "blocked"
  BY <1>2 DEF IInv, Kinds
<1>6. QED
  BY <1>1, <1>3, <1>4, <1>5 DEF IInv, RolesOK, ClosedLate, StatusOK, EndsOK, F!Drained

\* The main thread calls fifoCloseWhenEmpty().
LEMMA MainClosesKeeps ==
    ASSUME IInv, MainCloses
    PROVE  IInv' /\ input' = input
<1>1. FifoKinds /\ Reader \in Threads /\ Maker \in Threads /\ Main \in Threads
  BY DEF IInv, Kinds, FifoKinds, Threads
<1>2. /\ FifoKinds' /\ OthersStay(Main) /\ closeIfEmpty' = closeIfEmpty
      /\ nbytes' = nbytes /\ pc'[Main] = "close"
  <2>1. "close" \in F!Places /\ 0 \in Nat
    BY DEF F!Places
  <2>2. QED
    BY <1>1, <2>1, Beginning DEF MainCloses
<1>3. /\ at' = [at EXCEPT ![Main] = "closing"] /\ at[Reader] = "ended"
      /\ UNCHANGED <<input, maxSize, frameAt>>
  BY DEF MainCloses, Go, IInv, ClosedLate
<1>4. /\ at'[Main] = "closing" /\ at'[Reader] = "ended" /\ at'[Maker] = at[Maker]
  BY <1>1, <1>3, ThreadAssumption DEF IInv, Kinds
<1>5. /\ want'[Maker] = want[Maker] /\ result'[Maker] = result[Maker]
      /\ pc'[Maker] \in F!ReadPlaces \union {"idle", "read_begin"}
      /\ (pc'[Maker] # "idle" => pc[Maker] # "idle")
      /\ pc'[Reader] \in F!WritePlaces \union {"idle", "write_begin"}
  BY <1>1, <1>2, ThreadAssumption DEF OthersStay, IInv, RolesOK, F!ReadPlaces, F!WritePlaces
<1>6. Kinds'
  BY <1>2, <1>3 DEF IInv, Kinds, FifoKinds, Stations
<1>7. QED
  BY <1>2, <1>3, <1>4, <1>5, <1>6
     DEF IInv, RolesOK, ClosedLate, StatusOK, EndsOK, F!Drained

\* The main thread goes on when a thread has been joined, and makes its report.
LEMMA MainKeeps ==
    ASSUME IInv, MainCancels \/ MainJoins \/ MainReports
    PROVE  IInv' /\ input' = input
<1>1. Reader \in Threads /\ Maker \in Threads /\ Main \in Threads
  BY DEF Threads
<1>2. UNCHANGED <<nbytes, closeIfEmpty, pc, want, data, result, input, maxSize, frameAt>>
  BY DEF MainCancels, MainJoins, MainReports, fifo
<1>3. PICK place \in {"close", "report", "done", "blocked"} :
         /\ at' = [at EXCEPT ![Main] = place]
         /\ at[Reader] = "ended"
         /\ place \in {"report", "done"} => at[Maker] = "ended"
  BY DEF MainCancels, MainJoins, MainReports, Go, IInv, ClosedLate, EndsOK
<1>4. Kinds'
  BY <1>2, <1>3 DEF IInv, Kinds, Stations
<1>5. at'[Main] = place /\ at'[Reader] = at[Reader] /\ at'[Maker] = at[Maker]
  BY <1>1, <1>3, ThreadAssumption DEF IInv, Kinds
<1>6. QED
  BY <1>2, <1>3, <1>4, <1>5
     DEF IInv, RolesOK, ClosedLate, StatusOK, EndsOK, F!Drained

-----------------------------------------------------------------------------
\* Every step of the process, and no step, keeps the invariant, and takes input
\* only while the FIFO is open.
LEMMA StepKeeps ==
    ASSUME IInv, [Next]_vars
    PROVE  IInv' /\ (closeIfEmpty => input' = input)
<1>1. CASE Next
  BY <1>1, FifoStepKeeps, ReaderReservesKeeps, ReadInputKeeps, ReaderEndKeeps,
     MakerReadsKeeps, MakerEndsKeeps, BlockingKeeps, MainClosesKeeps, MainKeeps DEF Next
<1>2. CASE UNCHANGED vars
  BY <1>2 DEF vars, fifo, own, IInv, Kinds, RolesOK, ClosedLate, StatusOK, EndsOK, F!Drained
<1>3. QED
  BY <1>1, <1>2

\* The order in which main() joins, closes and joins holds at all times.
THEOREM Invariance == Spec => []IInv
<1>1. Init => IInv
  BY Initially
<1>2. IInv /\ [Next]_vars => IInv'
  BY StepKeeps
<1>3. QED
  BY <1>1, <1>2, PTL DEF Spec

\* However the reader thread ends, at the return of main() the product-maker has
\* taken every byte out of the FIFO.
THEOREM NothingLeftBehind == Spec => []AllHandedOn
<1>1. IInv => AllHandedOn
  BY DEF IInv, EndsOK, AllHandedOn, F!Drained
<1>2. QED
  BY <1>1, Invariance, PTL

\* fifoCloseWhenEmpty() comes after the last read(2).
THEOREM ClosedAfterInput == Spec => NoInputAfterClose
<1>1. IInv /\ [Next]_vars => [closeIfEmpty => input' = input]_vars
  BY StepKeeps
<1>2. QED
  BY <1>1, Invariance, PTL DEF Spec, NoInputAfterClose

-----------------------------------------------------------------------------
(***************************************************************************)
(* The FIFO of the process.  Its threads call it as module Fifo lets them, *)
(* so its invariants are kept as FifoProofs says; the one step that is not *)
(* a step of module Fifo is the death of the reader thread in              *)
(* pthread_cond_wait().                                                    *)
(***************************************************************************)
P == INSTANCE FifoProofs WITH
        Writers <- {Reader}, Readers <- {Maker}, Closers <- {Main},
        Byte <- {Octet}, MaxWrite <- Largest(MaxSizes),
        MaxRead <- Largest({FrameReads[i] : i \in DOMAIN FrameReads})

Amounts == {FrameReads[i] : i \in DOMAIN FrameReads}

\* A set with a greatest number has it as its Largest.
LEMMA LargestIs ==
    ASSUME NEW S \in SUBSET Nat, NEW m \in S, \A n \in S : n <= m
    PROVE  Largest(S) \in S /\ \A n \in S : n <= Largest(S)
  BY DEF Largest

\* A non-empty set of numbers has a least one.
LEMMA LeastOfSet ==
  ASSUME NEW T \in SUBSET Nat, T # {}
  PROVE  \E x \in T : \A y \in T : x <= y
<1> DEFINE R == OpToRel(<, Nat)
<1>1. IsWellFoundedOn(R, Nat)
  BY NatLessThanWellFounded
<1>2. \A y, x \in Nat : y < x => <<y, x>> \in R
  BY DEF OpToRel
<1> HIDE DEF R
<1>3. PICK x \in T : \A y \in T : ~(<<y, x>> \in R)
  BY <1>1, WFMin
<1>4. \A y \in T : ~(y < x)
  BY <1>2, <1>3
<1>5. \A y \in T : x <= y
  BY <1>4
<1>6. QED BY <1>5

\* One of the reads of a frame is the longest.
LEMMA LongestRead == \E m \in Amounts : \A n \in Amounts : n <= m
<1> DEFINE Upto(k) == {FrameReads[i] : i \in 1..k}
           Bounded(k) == \E m \in Upto(k) : \A n \in Upto(k) : n <= m
           Wrong == {k \in 1..Len(FrameReads) : ~Bounded(k)}
<1>1. Len(FrameReads) \in Nat \ {0} /\ \A i \in 1..Len(FrameReads) : FrameReads[i] \in Nat
  BY Frame
<1>2. Bounded(1)
  <2>1. Upto(1) = {FrameReads[1]} /\ FrameReads[1] \in Nat
    BY <1>1
  <2>2. QED
    BY <2>1
<1>3. ASSUME NEW k \in 1..Len(FrameReads), k + 1 \in 1..Len(FrameReads), Bounded(k)
      PROVE  Bounded(k + 1)
  <2>1. PICK m \in Upto(k) : \A n \in Upto(k) : n <= m
    BY <1>3
  <2>2. Upto(k + 1) = Upto(k) \union {FrameReads[k + 1]}
    OBVIOUS
  <2>3. Upto(k) \subseteq Nat /\ FrameReads[k + 1] \in Nat
    <3>1. \A i \in 1..k : i \in 1..Len(FrameReads)
      BY <1>1
    <3>2. \A i \in 1..k : FrameReads[i] \in Nat
      BY <1>1, <3>1
    <3>3. Upto(k) \subseteq Nat
      BY <3>2
    <3>4. FrameReads[k + 1] \in Nat
      BY <1>1, <1>3
    <3>5. QED
      BY <3>3, <3>4
  <2> DEFINE a == FrameReads[k + 1]
  <2> HIDE DEF Upto, a
  <2>4. m \in Nat /\ a \in Nat /\ Upto(k + 1) = Upto(k) \union {a}
    BY <2>1, <2>2, <2>3 DEF a
  <2>5. CASE a <= m
    BY <2>1, <2>4, <2>5
  <2>6. CASE m <= a
    BY <2>1, <2>3, <2>4, <2>6
  <2>7. QED
    BY <2>4, <2>5, <2>6
<1>4. Wrong = {}
  <2>1. SUFFICES ASSUME Wrong # {} PROVE FALSE
    OBVIOUS
  <2>2. Wrong \subseteq Nat
    OBVIOUS
  <2>3. PICK k \in Wrong : \A j \in Wrong : k <= j
    <3> HIDE DEF Wrong
    <3>1. QED BY <2>1, <2>2, LeastOfSet
  <2> HIDE DEF Bounded
  <2>4. k \in 1..Len(FrameReads) /\ ~Bounded(k)
    BY <2>3
  <2>5. k # 1
    BY <1>2, <2>4
  <2>6. k - 1 \in 1..Len(FrameReads) /\ (k - 1) + 1 = k
    BY <1>1, <2>4, <2>5
  <2>7. Bounded(k - 1)
    BY <2>3, <2>6
  <2>8. QED
    BY <1>3, <2>4, <2>6, <2>7
<1>5. Bounded(Len(FrameReads))
  <2> HIDE DEF Bounded
  <2>1. QED BY <1>1, <1>4
<1>6. Amounts = Upto(Len(FrameReads))
  BY FrameAssumption DEF Amounts
<1>7. QED
  BY <1>5, <1>6

\* The arguments that reader.c and productMaker.c give.
LEMMA Arguments ==
    /\ Largest(MaxSizes) \in Nat \ {0}
    /\ \A n \in MaxSizes : n \in 1..Largest(MaxSizes)
    /\ Largest(Amounts) \in Nat \ {0}
    /\ \A i \in 1..Len(FrameReads) : FrameReads[i] \in 0..Largest(Amounts)
<1>1. Largest(MaxSizes) \in MaxSizes /\ \A n \in MaxSizes : n <= Largest(MaxSizes)
  BY LargestIs, MaxSizeAssumption
<1>2. Amounts \subseteq Nat /\ DOMAIN FrameReads = 1..Len(FrameReads)
  BY Frame, FrameAssumption DEF Amounts
<1>3. Largest(Amounts) \in Amounts /\ \A n \in Amounts : n <= Largest(Amounts)
  BY <1>2, LongestRead, LargestIs
<1>4. 1 \in Amounts /\ \A i \in 1..Len(FrameReads) : FrameReads[i] \in Amounts
  BY <1>2, Frame, FrameAssumption DEF Amounts
<1>5. Largest(MaxSizes) \in Nat \ {0} /\ \A n \in MaxSizes : n \in 1..Largest(MaxSizes)
  <2> DEFINE m == Largest(MaxSizes)
  <2>1. m \in MaxSizes /\ \A n \in MaxSizes : n <= m
    BY <1>1
  <2>2. \A n \in MaxSizes : n \in Nat \ {0}
    BY MaxSizeAssumption
  <2> HIDE DEF m
  <2>3. m \in Nat \ {0} /\ \A n \in MaxSizes : n \in 1..m
    BY <2>1, <2>2
  <2>4. QED
    BY <2>3 DEF m
<1>6. Largest(Amounts) \in Nat /\ \A n \in Amounts : n \in 0..Largest(Amounts)
  <2> DEFINE m == Largest(Amounts)
  <2>1. m \in Amounts /\ \A n \in Amounts : n <= m
    BY <1>3
  <2> HIDE DEF m
  <2>2. m \in Nat /\ \A n \in Amounts : n \in 0..m
    BY <1>2, <2>1
  <2>3. QED
    BY <2>2 DEF m
<1>7. QED
  BY <1>3, <1>4, <1>5, <1>6

\* The invariants of the FIFO are named in Fifo; FifoProofs proves them.
LEMMA SameInvariant == P!IInv <=> F!IInv
<1>1. P!TypeOK <=> F!TypeOK
  BY DEF P!TypeOK, F!TypeOK, P!Places, F!Places, P!Threads, F!Threads, P!Blocks, F!Blocks
<1>2. P!CallsOK <=> F!CallsOK
  BY DEF P!CallsOK, F!CallsOK, P!Threads, F!Threads, P!Blocks, F!Blocks, P!WritePlaces,
         F!WritePlaces, P!ReadPlaces, F!ReadPlaces, P!Adding, F!Adding
<1>3. P!MutexesOK <=> F!MutexesOK
  BY DEF P!MutexesOK, F!MutexesOK, P!Threads, F!Threads, P!WritePlaces, F!WritePlaces,
         P!ReadPlaces, F!ReadPlaces, P!CriticalPlaces, F!CriticalPlaces
<1>4. P!RegionsDisjoint <=> F!RegionsDisjoint
  BY DEF P!RegionsDisjoint, F!RegionsDisjoint
<1>5. P!ReservationIsCurrent <=> F!ReservationIsCurrent
  BY DEF P!ReservationIsCurrent, F!ReservationIsCurrent, P!Reserving, F!Reserving
<1>6. P!WaitersHaveReason <=> F!WaitersHaveReason
  BY DEF P!WaitersHaveReason, F!WaitersHaveReason, P!Threads, F!Threads, P!HasRoom,
         F!HasRoom, P!HasData, F!HasData, P!Drained, F!Drained
<1>7. QED
  BY <1>1, <1>2, <1>3, <1>4, <1>5, <1>6 DEF P!IInv, F!IInv

LEMMA SameInvariantNext == P!IInv' <=> F!IInv'
  BY SameInvariant, PTL

\* What FifoProofs assumes holds of the threads and amounts of the process.
LEMMA Parameters ==
    P!SizeAssumption /\ P!AmountAssumption /\ P!ThreadAssumption
<1>1. P!SizeAssumption
  BY SizeAssumption DEF P!SizeAssumption
<1>2. P!AmountAssumption
  BY Arguments DEF P!AmountAssumption, Amounts
<1>3. P!ThreadAssumption
  BY ThreadAssumption DEF P!ThreadAssumption, P!Threads
<1>4. QED
  BY <1>1, <1>2, <1>3

\* A step of module Fifo keeps the invariants of the FIFO.
LEMMA FifoKeeps ==
    ASSUME F!IInv, P!Next
    PROVE  F!IInv'
<1>1. P!IInv
  BY SameInvariant
<1>2. P!IInv'
  BY <1>1, P!StepInvariant, Parameters
<1>3. QED
  BY <1>2, SameInvariantNext

\* main() begins with a new FIFO.
LEMMA FifoInitially == Init => F!IInv
<1> SUFFICES ASSUME Init PROVE F!IInv
  OBVIOUS
<1>1. P!Init
  BY DEF Init, F!Init, P!Init, F!Threads, P!Threads
<1>2. P!IInv
  BY <1>1, P!InitInvariant, Parameters
<1>3. QED
  BY <1>2, SameInvariant

\* The steps of a call.
LEMMA StepIsFifos ==
    ASSUME NEW t \in Threads, F!Step(t) \/ F!SpuriousWakeup(t)
    PROVE  P!Next
<1>1. P!Step(t) \/ P!SpuriousWakeup(t)
  BY DEF P!Step, F!Step, P!TooLarge, F!TooLarge, P!LockMutex, F!LockMutex, P!WriterStep,
         F!WriterStep, P!ReaderStep, F!ReaderStep, P!LockWriteMutex, F!LockWriteMutex,
         P!ReserveClosed, F!ReserveClosed, P!Reserve, F!Reserve, P!ReserveWait,
         F!ReserveWait, P!Fill, F!Fill, P!WriteUpdate, F!WriteUpdate, P!Copy, F!Copy,
         P!LockReadMutex, F!LockReadMutex, P!ReadClosed, F!ReadClosed, P!Read, F!Read,
         P!ReadWait, F!ReadWait, P!CloseWhenEmpty, F!CloseWhenEmpty, P!Goto, F!Goto,
         P!GotoWaking, F!GotoWaking, P!Signal, F!Signal, P!Added, F!Added, P!Advanced,
         F!Advanced, P!Overwrite, F!Overwrite, P!Wrap, F!Wrap, P!NextRead, F!NextRead,
         P!HasRoom, F!HasRoom, P!HasData, F!HasData, P!Drained, F!Drained, P!state,
         F!state, P!locks, F!locks, P!calls, F!calls, P!Threads, F!Threads, P!Blocks,
         F!Blocks, P!Locked, F!Locked, P!SpuriousWakeup, F!SpuriousWakeup
<1>2. t \in P!Threads
  BY DEF Threads, P!Threads
<1>3. QED
  BY <1>1, <1>2 DEF P!Next

\* The calls that begin: fifoWriteReserve() for an amount of reader->maxSize,
\* fifoRead() for one that is in a frame, fifoCloseWhenEmpty().
LEMMA CallIsFifos ==
    ASSUME \/ \E n \in MaxSizes : F!Begin(Reader, "write_begin", n)
           \/ \E i \in 1..Len(FrameReads) : F!Begin(Maker, "read_begin", FrameReads[i])
           \/ F!Begin(Main, "close", 0)
    PROVE  P!Next
<1> DEFINE longest == Largest({FrameReads[i] : i \in DOMAIN FrameReads})
<1>1. ASSUME NEW t, NEW place, NEW n, F!Begin(t, place, n)
      PROVE  P!Begin(t, place, n)
  BY <1>1 DEF F!Begin, P!Begin, F!Goto, P!Goto, F!state, P!state, F!locks, P!locks
<1>2. ASSUME NEW n \in MaxSizes, F!Begin(Reader, "write_begin", n)
      PROVE  P!Next
  <2>1. n \in 1..Largest(MaxSizes) /\ P!Begin(Reader, "write_begin", n)
    BY <1>1, <1>2, Arguments
  <2>2. P!CallWriteReserve(Reader)
    BY <2>1 DEF P!CallWriteReserve
  <2>3. QED
    BY <2>2 DEF P!Next
<1>3. ASSUME NEW i \in 1..Len(FrameReads), F!Begin(Maker, "read_begin", FrameReads[i])
      PROVE  P!Next
  <2>1. FrameReads[i] \in 0..longest /\ longest \in Nat
    BY Arguments DEF Amounts
  <2>2. P!Begin(Maker, "read_begin", FrameReads[i])
    BY <1>1, <1>3
  <2> HIDE DEF longest
  <2>3. FrameReads[i] = 0 \/ FrameReads[i] \in 1..longest
    BY <2>1
  <2> USE DEF longest
  <2>4. P!CallRead(Maker, 0) \/ P!CallReadSome(Maker)
    BY <2>2, <2>3 DEF P!CallRead, P!CallReadSome
  <2>5. QED
    BY <2>4 DEF P!Next
<1>4. ASSUME F!Begin(Main, "close", 0)
      PROVE  P!Next
  <2>1. P!CallClose(Main)
    BY <1>1, <1>4 DEF P!CallClose
  <2>2. QED
    BY <2>1 DEF P!Next
<1>5. QED
  BY <1>2, <1>3, <1>4

\* pthread_cond_wait() locks fifo->mutex again before the thread dies in it: the
\* FIFO is left as if the thread went on with its turn.
LEMMA DeathKeeps ==
    ASSUME F!IInv, CancelInWait
    PROVE  F!IInv'
<1>1. /\ pc[Reader] = "write_wait" /\ mutex = NoThread /\ mutex' = Reader
      /\ pc' = [pc EXCEPT ![Reader] = "write_cs"]
      /\ UNCHANGED <<buf, nextWrite, nbytes, nreserved, closeIfEmpty, writeMutex,
                     readMutex, want, ptr, data, got, result>>
  BY DEF CancelInWait, F!Goto
<1>2. Reader \in F!Threads /\ NoThread \notin F!Threads
  BY ThreadAssumption DEF F!Threads
<1> USE <1>1, <1>2 DEF F!IInv, F!TypeOK
<1>3. F!TypeOK'
  BY DEF F!Places
<1>4. F!CallsOK'
  BY DEF F!CallsOK, F!WritePlaces, F!ReadPlaces, F!Adding
<1>5. F!MutexesOK'
  BY DEF F!MutexesOK, F!CriticalPlaces, F!WritePlaces, F!ReadPlaces
<1>6. F!RegionsDisjoint'
  BY DEF F!RegionsDisjoint
<1>7. F!ReservationIsCurrent'
  BY DEF F!ReservationIsCurrent, F!Reserving
<1>8. F!WaitersHaveReason'
  BY DEF F!WaitersHaveReason, F!HasRoom, F!HasData, F!Drained
<1>9. QED
  BY <1>3, <1>4, <1>5, <1>6, <1>7, <1>8

\* What the threads do themselves leaves the FIFO alone.
LEMMA OwnStepKeeps ==
    ASSUME F!IInv, UNCHANGED fifo
    PROVE  F!IInv'
  BY DEF fifo, F!IInv, F!TypeOK, F!CallsOK, F!MutexesOK, F!RegionsDisjoint,
         F!ReservationIsCurrent, F!WaitersHaveReason, F!HasRoom, F!HasData, F!Drained

\* Every step of the process keeps the invariants of the FIFO.
LEMMA StepKeepsFifo ==
    ASSUME IInv, F!IInv, [Next]_vars
    PROVE  F!IInv'
<1>1. CASE \/ \E t \in Threads : FifoStep(t) \/ SpuriousWakeup(t)
           \/ ReadInput
  <2>1. Reader \in Threads
    BY DEF Threads
  <2>2. \E t \in Threads : F!Step(t) \/ F!SpuriousWakeup(t)
    BY <1>1, <2>1 DEF FifoStep, SpuriousWakeup, ReadInput, F!Step, F!WriterStep
  <2>3. QED
    BY <2>2, StepIsFifos, FifoKeeps
<1>2. CASE ReaderReserves \/ MakerReads \/ MainCloses
  <2>1. maxSize \in MaxSizes
    BY DEF IInv, Kinds
  <2>2. ASSUME MakerReads
        PROVE  \E i \in 1..Len(FrameReads) : F!Begin(Maker, "read_begin", FrameReads[i])
    <3>1. frameAt \in 1..Len(FrameReads) /\ Len(FrameReads) \in Nat \ {0}
      BY Frame DEF IInv, Kinds
    <3>2. PICK next \in {1} \union (IF result[Maker] = "ok" /\ frameAt < Len(FrameReads)
                                    THEN {frameAt + 1} ELSE {}) :
                F!Begin(Maker, "read_begin", FrameReads[next])
      BY <2>2 DEF MakerReads
    <3>3. next \in 1..Len(FrameReads)
      BY <3>1, <3>2
    <3>4. QED
      BY <3>2, <3>3
  <2>3. QED
    BY <1>2, <2>1, <2>2, CallIsFifos, FifoKeeps DEF ReaderReserves, MainCloses
<1>3. CASE CancelInWait
  BY <1>3, DeathKeeps
<1>4. CASE \/ ReaderRefused \/ \E status \in {0, 2} : ReadEnds(status)
           \/ Sigterm \/ CancelInRead \/ CancelInLog \/ MakerEnds \/ MakerBlocks
           \/ MainCancels \/ MainJoins \/ MainReports
           \/ (\E t \in Threads : Sigusr1Blocks(t)) \/ UNCHANGED vars
  BY <1>4, OwnStepKeeps
     DEF ReaderRefused, ReadEnds, Sigterm, CancelInRead, CancelInLog, MakerEnds, MakerBlocks,
         MainCancels, MainJoins, MainReports, Sigusr1Blocks, vars
<1>5. QED
  BY <1>1, <1>2, <1>3, <1>4 DEF Next

\* Whatever the threads do and wherever SIGTERM ends the reader thread, the FIFO
\* stays sound: what is unread and what is reserved fit the ring, a reservation
\* is current until it is used, also one whose thread is dead, the mutexes are
\* owned by those who are where they protect, and no wake-up is lost.
THEOREM FifoStaysSound == Spec => []F!IInv
<1>1. Init => F!IInv
  BY FifoInitially
<1>2. IInv /\ F!IInv /\ [Next]_vars => F!IInv'
  BY StepKeepsFifo
<1>3. QED
  BY <1>1, <1>2, Invariance, PTL DEF Spec

\* The values the threads leave in their own variables.
Flags ==
    /\ source \in Sources
    /\ readerStatus \in {0, 2}
    /\ makerStatus \in {0, 1}
    /\ exitStatus \in {0, 1}
    /\ cancelled \in BOOLEAN
    /\ left \in {"none", "reader", "maker", "log"}

LEMMA OwnStep == Flags /\ [Next]_vars => Flags'
  BY DEF Flags, Next, FifoStep, SpuriousWakeup, ReaderReserves, ReaderRefused,
         ReadInput, ReadEnds, Sigterm, CancelInRead, CancelInWait, CancelInLog, MakerReads,
         MakerEnds, MakerBlocks, MainCancels, MainCloses, MainJoins, MainReports,
         Sigusr1Blocks, vars, own

\* Every variable of the process has the type it is declared with, those of the
\* FIFO included.
THEOREM TypeCorrect == Spec => []TypeOK
<1>1. Init => Flags
  BY DEF Init, Flags
<1>2. Spec => []Flags
  BY <1>1, OwnStep, PTL DEF Spec
<1>3. IInv /\ F!IInv /\ Flags => TypeOK
  BY DEF IInv, Kinds, Stations, F!IInv, Flags, TypeOK
<1>4. QED
  BY <1>2, <1>3, Invariance, FifoStaysSound, PTL
=============================================================================
