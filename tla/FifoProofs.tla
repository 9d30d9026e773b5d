----------------------------- MODULE FifoProofs -----------------------------
(***************************************************************************)
(* Proofs about Fifo, for every number of threads, every size of the ring  *)
(* and every amount asked for.                                             *)
(***************************************************************************)
EXTENDS Fifo, SequenceTheorems, TLAPS

USE SizeAssumption, AmountAssumption

(***************************************************************************)
(* Lemmas about the operators of the ring.                                 *)
(***************************************************************************)

\* A block of bytes is a non-empty sequence (what one read(2) returned).
LEMMA BlockFacts ==
    ASSUME NEW max \in Nat, NEW d \in Blocks(max)
    PROVE  /\ d \in Seq(Byte)
           /\ Len(d) \in 1..max
           /\ d \in [1..Len(d) -> Byte]
<1>1. PICK m \in 1..max : d \in [1..m -> Byte]
  BY DEF Blocks
<1>2. d \in Seq(Byte) /\ Len(d) = m
  BY <1>1
<1>3. QED BY <1>1, <1>2

\* A larger limit allows every block a smaller one does.
LEMMA BlocksGrow ==
    ASSUME NEW m \in Nat, NEW n \in Nat, m <= n
    PROVE  Blocks(m) \subseteq Blocks(n)
BY DEF Blocks

\* Walking at most once round the ring stays inside it, and is what the "%"
\* of fifoWriteUpdate() and fifoCopy() computes.
LEMMA WrapFacts ==
    ASSUME NEW o \in 0..Size - 1, NEW i \in 0..Size
    PROVE  /\ Wrap(o, i) \in 0..Size - 1
           /\ (o + i) % Size = Wrap(o, i)
<1>1. CASE o + i < Size
  BY <1>1 DEF Wrap
<1>2. CASE o + i >= Size
  <2>1. o + i = Size * 1 + (o + i - Size)
    OBVIOUS
  <2>2. o + i - Size \in 0..Size - 1
    BY <1>2
  <2>3. QED BY <1>2, <2>1, <2>2 DEF Wrap
<1>3. QED BY <1>1, <1>2

\* Copying a block into the ring leaves bytes in every position.
LEMMA OverwriteType ==
    ASSUME NEW o \in 0..Size - 1, NEW max \in Nat, NEW d \in Blocks(max),
           buf \in [0..Size - 1 -> Byte]
    PROVE  Overwrite(o, d) \in [0..Size - 1 -> Byte]
<1>1. d \in [1..Len(d) -> Byte] /\ Len(d) \in Nat
  BY BlockFacts
<1>2. QED BY <1>1 DEF Overwrite

LEMMA WriterIsThread == Writers \subseteq Threads /\ Readers \subseteq Threads
BY DEF Threads

(***************************************************************************)
(* The invariant holds initially.                                          *)
(***************************************************************************)
LEMMA InitInvariant == Init => IInv
<1> SUFFICES ASSUME Init PROVE IInv
  OBVIOUS
<1>1. TypeOK
  <2>1. /\ nextWrite \in 0..Size - 1
        /\ nbytes \in 0..Size
        /\ nreserved \in 0..Size
        /\ want \in [Threads -> Nat]
        /\ ptr \in [Threads -> 0..Size - 1]
    BY DEF Init
  <2>2. /\ pc \in [Threads -> Places]
        /\ data \in [Threads -> {<<>>} \union Blocks(MaxWrite)]
        /\ got \in [Threads -> {<<>>} \union Blocks(MaxRead)]
        /\ result \in [Threads -> {"none", "ok", "closed", "usage"}]
    BY DEF Init, Places
  <2>3. QED BY <2>1, <2>2 DEF Init, TypeOK
<1>2. CallsOK
  BY DEF Init, CallsOK, WritePlaces, ReadPlaces, Adding
<1>3. MutexesOK
  BY ThreadAssumption
     DEF Init, MutexesOK, CriticalPlaces, WritePlaces, ReadPlaces
<1>4. RegionsDisjoint
  BY DEF Init, RegionsDisjoint
<1>5. ReservationIsCurrent
  BY WriterIsThread DEF Init, ReservationIsCurrent, Reserving
<1>6. WaitersHaveReason
  BY DEF Init, WaitersHaveReason
<1>7. QED BY <1>1, <1>2, <1>3, <1>4, <1>5, <1>6 DEF IInv

(***************************************************************************)
(* Each action preserves it.                                               *)
(***************************************************************************)
LEMMA BeginInvariant ==
    ASSUME IInv, NEW t \in Threads, NEW n \in Nat, NEW place,
           Begin(t, place, n),
           \/ place = "write_begin" /\ t \in Writers /\ n \in 1..MaxWrite
           \/ place = "read_begin" /\ t \in Readers /\ n \in 0..MaxRead
           \/ place = "close"
    PROVE  IInv'
BY WriterIsThread
   DEF Begin, Goto, state, locks, IInv, TypeOK, CallsOK, MutexesOK,
       RegionsDisjoint, ReservationIsCurrent, WaitersHaveReason, Places,
       CriticalPlaces, WritePlaces, ReadPlaces, Reserving, Adding, HasRoom,
       HasData, Drained

LEMMA LockMutexInvariant ==
    ASSUME IInv, NEW t \in Threads, LockMutex(t)
    PROVE  IInv'
BY ThreadAssumption, WriterIsThread
   DEF LockMutex, Locked, Goto, state, calls, IInv, TypeOK, CallsOK, MutexesOK,
       RegionsDisjoint, ReservationIsCurrent, WaitersHaveReason, Places,
       CriticalPlaces, WritePlaces, ReadPlaces, Reserving, Adding, HasRoom,
       HasData, Drained

\* The actions that change neither the ring nor a wait queue's reason.
LEMMA SimpleInvariant ==
    ASSUME IInv, NEW t \in Threads,
           \/ TooLarge(t) \/ SpuriousWakeup(t)
           \/ LockWriteMutex(t) \/ ReserveClosed(t) \/ ReserveWait(t)
           \/ LockReadMutex(t) \/ ReadClosed(t) \/ ReadWait(t)
    PROVE  IInv'
<1> USE ThreadAssumption, WriterIsThread
    DEF Goto, state, locks, calls, IInv, TypeOK, CallsOK, MutexesOK,
       RegionsDisjoint, ReservationIsCurrent, WaitersHaveReason, Places,
       CriticalPlaces, WritePlaces, ReadPlaces, Reserving, Adding, HasRoom,
       HasData, Drained
<1>1. CASE TooLarge(t)
  BY <1>1 DEF TooLarge
<1>2. CASE SpuriousWakeup(t)
  <2>1. CASE pc[t] = "write_wait" /\ Goto(t, "write")
    BY <1>2, <2>1 DEF SpuriousWakeup
  <2>2. CASE pc[t] = "read_wait" /\ Goto(t, "read")
    BY <1>2, <2>2 DEF SpuriousWakeup
  <2>3. QED BY <1>2, <2>1, <2>2 DEF SpuriousWakeup
<1>3. CASE LockWriteMutex(t)
  BY <1>3 DEF LockWriteMutex
<1>4. CASE ReserveClosed(t)
  BY <1>4 DEF ReserveClosed
<1>5. CASE ReserveWait(t)
  BY <1>5 DEF ReserveWait
<1>6. CASE LockReadMutex(t)
  BY <1>6 DEF LockReadMutex
<1>7. CASE ReadClosed(t)
  BY <1>7 DEF ReadClosed
<1>8. CASE ReadWait(t)
  BY <1>8 DEF ReadWait
<1>9. QED
  BY <1>1, <1>2, <1>3, <1>4, <1>5, <1>6, <1>7, <1>8

\* A reservation: what is free now stays free, for only its owner can add.
LEMMA ReserveInvariant ==
    ASSUME IInv, NEW t \in Threads, Reserve(t)
    PROVE  IInv'
BY ThreadAssumption, WriterIsThread
   DEF Reserve, Goto, IInv, TypeOK, CallsOK, MutexesOK, RegionsDisjoint,
       ReservationIsCurrent, WaitersHaveReason, Places, CriticalPlaces,
       WritePlaces, ReadPlaces, Reserving, Adding, HasRoom, HasData, Drained

\* read(2) into the reserved region or into the caller's own buffer.
LEMMA FillInvariant ==
    ASSUME IInv, NEW t \in Threads, Fill(t)
    PROVE  IInv'
<1> USE ThreadAssumption, WriterIsThread
<1>1. PICK d \in Blocks(want[t]) :
        /\ pc[t] = "fill"
        /\ data' = [data EXCEPT ![t] = d]
        /\ \/ Goto(t, "update") /\ buf' = Overwrite(ptr[t], d)
           \/ Goto(t, "copy") /\ UNCHANGED buf
        /\ UNCHANGED <<nextWrite, nbytes, nreserved, closeIfEmpty, locks, want,
                       ptr, got, result>>
  BY DEF Fill
<1>2. want[t] \in 1..MaxWrite /\ ptr[t] \in 0..Size - 1
  BY <1>1 DEF IInv, TypeOK, CallsOK, WritePlaces
<1>3. d \in Blocks(MaxWrite)
  BY <1>2, BlocksGrow
<1>4. buf' \in [0..Size - 1 -> Byte]
  BY <1>1, <1>2, OverwriteType DEF IInv, TypeOK
<1>5. TypeOK'
  BY <1>1, <1>3, <1>4 DEF IInv, TypeOK, Goto, Places, locks
<1>6. CallsOK'
  BY <1>1 DEF IInv, TypeOK, CallsOK, Goto, WritePlaces, ReadPlaces, Adding
<1>7. MutexesOK'
  BY <1>1 DEF IInv, TypeOK, MutexesOK, Goto, locks, CriticalPlaces,
              WritePlaces, ReadPlaces
<1>8. RegionsDisjoint' /\ ReservationIsCurrent' /\ WaitersHaveReason'
  BY <1>1 DEF IInv, TypeOK, Goto, RegionsDisjoint, ReservationIsCurrent,
              WaitersHaveReason, Reserving, HasRoom, HasData, Drained
<1>9. QED BY <1>5, <1>6, <1>7, <1>8 DEF IInv

\* One signal is enough: readMutex and writeMutex let one thread at a time
\* into each wait queue, so whoever waits is the one that is woken.
LEMMA SignalWakesAll ==
    ASSUME MutexesOK,
           NEW place \in {"read_wait", "write_wait"}, NEW woken \in Signal(place)
    PROVE  woken = {x \in Threads : pc[x] = place}
<1>1. \A x, y \in Threads : pc[x] = place /\ pc[y] = place => x = y
  BY DEF MutexesOK, ReadPlaces, WritePlaces
<1>2. QED BY <1>1 DEF Signal

\* Data is added: it was paid for by the reservation, and whoever waits for
\* data looks again.
LEMMA AddedInvariant ==
    ASSUME IInv, NEW t \in Threads, pc[t] \in {"update_cs", "copy_cs"},
           Added(t), buf' \in [0..Size - 1 -> Byte]
    PROVE  IInv'
<1> USE ThreadAssumption, WriterIsThread
<1>1. PICK rw \in Signal("read_wait") : GotoWaking(t, "idle", {}, rw)
  BY DEF Added
<1>2. rw = {x \in Threads : pc[x] = "read_wait"}
  BY SignalWakesAll DEF IInv
<1>3. \A x \in Threads : pc'[x] = IF x = t THEN "idle"
                                  ELSE IF pc[x] = "read_wait" THEN "read"
                                  ELSE pc[x]
  BY <1>1, <1>2 DEF GotoWaking
<1>4. pc' \in [Threads -> Places]
  BY <1>1, <1>2 DEF GotoWaking, IInv, TypeOK, Places
<1>5. data[t] \in Blocks(want[t]) /\ want[t] \in Nat
  BY DEF IInv, TypeOK, CallsOK, Adding
<1>6. Len(data[t]) \in 1..want[t]
  BY <1>5, BlockFacts
<1>7. nbytes' \in 0..Size /\ RegionsDisjoint' /\ nreserved' = 0
  BY <1>6 DEF Added, IInv, TypeOK, RegionsDisjoint
<1>8. nextWrite' \in 0..Size - 1
  <2>1. Len(data[t]) \in 0..Size
    BY <1>6 DEF Added, IInv, TypeOK
  <2>2. nextWrite \in 0..Size - 1
    BY DEF IInv, TypeOK
  <2>3. (nextWrite + Len(data[t])) % Size \in 0..Size - 1
    BY <2>1, <2>2, WrapFacts
  <2>4. QED BY <2>3 DEF Added, Advanced
<1>9. TypeOK'
  <2>1. data' \in [Threads -> {<<>>} \union Blocks(MaxWrite)]
    BY DEF Added, IInv, TypeOK
  <2>2. /\ nreserved' \in 0..Size
        /\ mutex' \in Threads \union {NoThread}
        /\ writeMutex' \in Writers \union {NoThread}
        /\ result' \in [Threads -> {"none", "ok", "closed", "usage"}]
    BY <1>7 DEF Added, IInv, TypeOK
  <2>3. QED BY <1>4, <1>7, <1>8, <2>1, <2>2 DEF Added, IInv, TypeOK
<1>10. CallsOK'
  BY <1>3 DEF Added, IInv, TypeOK, CallsOK, WritePlaces, ReadPlaces, Adding
<1>11. MutexesOK'
  <2>1. \A x \in Threads : pc'[x] \in CriticalPlaces <=> mutex' = x
    BY <1>3 DEF Added, IInv, MutexesOK, CriticalPlaces
  <2>2. \A x \in Threads : pc'[x] \in WritePlaces <=> writeMutex' = x
    BY <1>3 DEF Added, IInv, MutexesOK, WritePlaces
  <2>3. \A x \in Threads : pc'[x] \in ReadPlaces <=> readMutex' = x
    BY <1>3 DEF Added, IInv, MutexesOK, ReadPlaces
  <2>4. QED BY <2>1, <2>2, <2>3 DEF MutexesOK
<1>12. ReservationIsCurrent'
  <2>1. writeMutex = t /\ \A x \in Threads : x # t => pc[x] \notin WritePlaces
    BY DEF IInv, MutexesOK, WritePlaces
  <2>2. QED BY <1>3, <2>1 DEF ReservationIsCurrent, WritePlaces, Reserving
<1>13. WaitersHaveReason'
  <2>1. \A x \in Threads : x # t => pc[x] # "write_wait"
    BY DEF IInv, MutexesOK, WritePlaces
  <2>2. QED BY <1>3, <2>1 DEF WaitersHaveReason
<1>14. QED
  BY <1>7, <1>9, <1>10, <1>11, <1>12, <1>13 DEF IInv

LEMMA WriteUpdateInvariant ==
    ASSUME IInv, NEW t \in Threads, WriteUpdate(t)
    PROVE  IInv'
BY AddedInvariant DEF WriteUpdate, IInv, TypeOK

LEMMA CopyInvariant ==
    ASSUME IInv, NEW t \in Threads, Copy(t)
    PROVE  IInv'
<1>1. data[t] \in Blocks(want[t]) /\ want[t] \in Nat /\ nextWrite \in 0..Size - 1
  BY DEF Copy, IInv, TypeOK, CallsOK, Adding
<1>2. buf' \in [0..Size - 1 -> Byte]
  BY <1>1, OverwriteType DEF Copy, IInv, TypeOK
<1>3. QED BY <1>2, AddedInvariant DEF Copy

\* A read makes room, and whoever waits for room looks again.
LEMMA ReadInvariant ==
    ASSUME IInv, NEW t \in Threads, Read(t)
    PROVE  IInv'
<1> USE ThreadAssumption, WriterIsThread
<1>1. PICK ww \in Signal("write_wait") : GotoWaking(t, "idle", ww, {})
  BY DEF Read
<1>2. ww = {x \in Threads : pc[x] = "write_wait"}
  BY SignalWakesAll DEF IInv
<1>3. \A x \in Threads : pc'[x] = IF x = t THEN "idle"
                                  ELSE IF pc[x] = "write_wait" THEN "write"
                                  ELSE pc[x]
  BY <1>1, <1>2 DEF GotoWaking
<1>4. pc' \in [Threads -> Places]
  BY <1>1, <1>2 DEF GotoWaking, IInv, TypeOK, Places
<1>5. want[t] \in 0..MaxRead /\ nbytes >= want[t]
  BY DEF Read, HasData, IInv, CallsOK, ReadPlaces
<1>6. nbytes' \in 0..Size /\ RegionsDisjoint'
  BY <1>5 DEF Read, IInv, TypeOK, RegionsDisjoint
<1>7. got' \in [Threads -> {<<>>} \union Blocks(MaxRead)]
  <2>1. NextRead \in 0..Size - 1
    BY DEF NextRead, IInv, TypeOK
  <2>2. \A i \in 1..want[t] : Wrap(NextRead, i - 1) \in 0..Size - 1
    <3> TAKE i \in 1..want[t]
    <3>1. i - 1 \in 0..Size
      BY <1>5 DEF IInv, TypeOK
    <3>2. QED BY <2>1, <3>1, WrapFacts
  <2>3. [i \in 1..want[t] |-> buf[Wrap(NextRead, i - 1)]]
            \in [1..want[t] -> Byte]
    BY <2>2 DEF IInv, TypeOK
  <2>4. [i \in 1..want[t] |-> buf[Wrap(NextRead, i - 1)]]
            \in {<<>>} \union Blocks(MaxRead)
    <3>1. CASE want[t] = 0
      BY <3>1
    <3>2. CASE want[t] \in 1..MaxRead
      BY <2>3, <3>2 DEF Blocks
    <3>3. QED BY <1>5, <3>1, <3>2
  <2>5. QED BY <2>4 DEF Read, IInv, TypeOK
<1>8. TypeOK'
  BY <1>4, <1>6, <1>7 DEF Read, IInv, TypeOK
<1>9. CallsOK'
  BY <1>3 DEF Read, IInv, TypeOK, CallsOK, WritePlaces, ReadPlaces, Adding
<1>10. MutexesOK'
  <2>1. \A x \in Threads : pc'[x] \in CriticalPlaces <=> mutex' = x
    BY <1>3 DEF Read, IInv, MutexesOK, CriticalPlaces
  <2>2. \A x \in Threads : pc'[x] \in WritePlaces <=> writeMutex' = x
    BY <1>3 DEF Read, IInv, MutexesOK, WritePlaces
  <2>3. \A x \in Threads : pc'[x] \in ReadPlaces <=> readMutex' = x
    BY <1>3 DEF Read, IInv, MutexesOK, ReadPlaces
  <2>4. QED BY <2>1, <2>2, <2>3 DEF MutexesOK
<1>11. ReservationIsCurrent'
  BY <1>3 DEF Read, IInv, ReservationIsCurrent, Reserving
<1>12. WaitersHaveReason'
  <2>1. \A x \in Threads : x # t => pc[x] # "read_wait"
    BY DEF Read, IInv, MutexesOK, ReadPlaces
  <2>2. QED BY <1>3, <2>1 DEF WaitersHaveReason
<1>13. QED
  BY <1>6, <1>8, <1>9, <1>10, <1>11, <1>12 DEF IInv

\* Closing wakes both wait queues, so nobody sleeps on in a drained FIFO.
LEMMA CloseInvariant ==
    ASSUME IInv, NEW t \in Threads, CloseWhenEmpty(t)
    PROVE  IInv'
<1> USE ThreadAssumption, WriterIsThread
<1>1. PICK ww \in Signal("write_wait"), rw \in Signal("read_wait") :
        GotoWaking(t, "idle", ww, rw)
  BY DEF CloseWhenEmpty
<1>2. /\ ww = {x \in Threads : pc[x] = "write_wait"}
      /\ rw = {x \in Threads : pc[x] = "read_wait"}
  BY SignalWakesAll DEF IInv
<1>3. \A x \in Threads : pc'[x] = IF x = t THEN "idle"
                                  ELSE IF pc[x] = "write_wait" THEN "write"
                                  ELSE IF pc[x] = "read_wait" THEN "read"
                                  ELSE pc[x]
  BY <1>1, <1>2 DEF GotoWaking
<1>4. pc' \in [Threads -> Places]
  BY <1>1, <1>2 DEF GotoWaking, IInv, TypeOK, Places
<1>5. TypeOK'
  BY <1>4 DEF CloseWhenEmpty, IInv, TypeOK
<1>6. CallsOK'
  BY <1>3 DEF CloseWhenEmpty, IInv, TypeOK, CallsOK, WritePlaces, ReadPlaces,
              Adding
<1>7. MutexesOK'
  <2>1. \A x \in Threads : pc'[x] \in CriticalPlaces <=> mutex' = x
    BY <1>3 DEF CloseWhenEmpty, IInv, MutexesOK, CriticalPlaces
  <2>2. \A x \in Threads : pc'[x] \in WritePlaces <=> writeMutex' = x
    BY <1>3 DEF CloseWhenEmpty, IInv, MutexesOK, WritePlaces
  <2>3. \A x \in Threads : pc'[x] \in ReadPlaces <=> readMutex' = x
    BY <1>3 DEF CloseWhenEmpty, IInv, MutexesOK, ReadPlaces
  <2>4. QED BY <2>1, <2>2, <2>3 DEF MutexesOK
<1>8. RegionsDisjoint' /\ ReservationIsCurrent' /\ WaitersHaveReason'
  BY <1>3 DEF CloseWhenEmpty, IInv, RegionsDisjoint, ReservationIsCurrent,
              WaitersHaveReason, Reserving
<1>9. QED BY <1>5, <1>6, <1>7, <1>8 DEF IInv

(***************************************************************************)
(* The theorems.                                                           *)
(***************************************************************************)
LEMMA StepInvariant == IInv /\ [Next]_vars => IInv'
<1> SUFFICES ASSUME IInv, [Next]_vars PROVE IInv'
  OBVIOUS
<1>1. ASSUME NEW t \in Writers, CallWriteReserve(t) PROVE IInv'
  BY <1>1, BeginInvariant, WriterIsThread DEF CallWriteReserve
<1>2. ASSUME NEW t \in Readers, CallReadSome(t) \/ CallRead(t, 0) PROVE IInv'
  BY <1>2, BeginInvariant, WriterIsThread DEF CallReadSome, CallRead
<1>3. ASSUME NEW t \in Closers, CallClose(t) PROVE IInv'
  BY <1>3, BeginInvariant DEF CallClose, Threads
<1>4. ASSUME NEW t \in Threads, Step(t) \/ SpuriousWakeup(t) PROVE IInv'
  <2>1. CASE \/ TooLarge(t) \/ SpuriousWakeup(t) \/ LockWriteMutex(t)
             \/ ReserveClosed(t) \/ ReserveWait(t) \/ LockReadMutex(t)
             \/ ReadClosed(t) \/ ReadWait(t)
    BY <2>1, SimpleInvariant
  <2>2. CASE LockMutex(t)
    BY <2>2, LockMutexInvariant
  <2>3. CASE Reserve(t)
    BY <2>3, ReserveInvariant
  <2>4. CASE Fill(t)
    BY <2>4, FillInvariant
  <2>5. CASE WriteUpdate(t)
    BY <2>5, WriteUpdateInvariant
  <2>6. CASE Copy(t)
    BY <2>6, CopyInvariant
  <2>7. CASE Read(t)
    BY <2>7, ReadInvariant
  <2>8. CASE CloseWhenEmpty(t)
    BY <2>8, CloseInvariant
  <2>9. QED
    BY <1>4, <2>1, <2>2, <2>3, <2>4, <2>5, <2>6, <2>7, <2>8
       DEF Step, WriterStep, ReaderStep
<1>5. CASE UNCHANGED vars
  BY <1>5 DEF vars, state, locks, calls, IInv, TypeOK, CallsOK, MutexesOK,
              RegionsDisjoint, ReservationIsCurrent, WaitersHaveReason,
              HasRoom, HasData, Drained
<1>6. QED BY <1>1, <1>2, <1>3, <1>4, <1>5 DEF Next

\* The whole invariant holds in every reachable state of fifo.c's FIFO.
THEOREM Invariance == Spec => []IInv
<1>1. QED BY InitInvariant, StepInvariant, PTL DEF Spec

\* The offsets, counts and owners keep their ranges.
THEOREM TypeCorrect == Spec => []TypeOK
<1>1. IInv => TypeOK
  BY DEF IInv
<1>2. QED BY <1>1, Invariance, PTL

\* What a writer fills without a lock never overlaps what is unread.
THEOREM RegionsStayDisjoint == Spec => []RegionsDisjoint
<1>1. IInv => RegionsDisjoint
  BY DEF IInv
<1>2. QED BY <1>1, Invariance, PTL

\* The pointer fifoWriteReserve() returned is good until the data is added.
THEOREM ReservationStaysCurrent == Spec => []ReservationIsCurrent
<1>1. IInv => ReservationIsCurrent
  BY DEF IInv
<1>2. QED BY <1>1, Invariance, PTL

\* One pthread_cond_signal() per change loses no wake-up.
THEOREM NoLostWakeup == Spec => []WaitersHaveReason
<1>1. IInv => WaitersHaveReason
  BY DEF IInv
<1>2. QED BY <1>1, Invariance, PTL

\* A ring that is large enough for two requests never has both of them waiting.
THEOREM NoDeadlockInLargeRing == Spec => []NoMutualWait
<1>1. IInv => NoMutualWait
  <2> SUFFICES ASSUME IInv, NEW w \in Writers, NEW r \in Readers,
                      pc[w] = "write_wait", pc[r] = "read_wait"
               PROVE  Size < want[w] + want[r] - 1
    BY DEF NoMutualWait
  <2>1. /\ want[w] \in 1..MaxWrite /\ want[r] \in 0..MaxRead
        /\ nbytes \in 0..Size
    BY WriterIsThread DEF IInv, TypeOK, CallsOK, WritePlaces, ReadPlaces
  <2>2. Size - nbytes < want[w] /\ nbytes < want[r]
    BY <2>1, WriterIsThread
       DEF IInv, WaitersHaveReason, HasRoom, HasData
  <2>3. QED BY <2>1, <2>2
<1>2. QED BY <1>1, Invariance, PTL

-----------------------------------------------------------------------------
(***************************************************************************)
(* The FIFO of fifo.c implements the byte queue of ByteQueue.              *)
(*                                                                         *)
(* The argument: positions of the ring are counted from the oldest unread  *)
(* byte (NextRead).  Because what is unread and what is reserved fit the   *)
(* ring together (RegionsDisjoint), bytes written from nextWrite on do not *)
(* touch the unread ones, and adding or removing bytes is concatenation or *)
(* taking a subsequence of Unread.                                         *)
(***************************************************************************)

\* A writer that has filled its region in place finds its bytes there when it
\* calls fifoWriteUpdate().
FilledInPlace ==
    \A t \in Threads :
        pc[t] \in {"update", "update_cs"} =>
            /\ want[t] <= Size - ptr[t]
            /\ \A i \in 1..Len(data[t]) : buf[ptr[t] + i - 1] = data[t][i]

RInv == IInv /\ FilledInPlace

(***************************************************************************)
(* Lemmas about the ring.                                                  *)
(***************************************************************************)
LEMMA NextReadRange ==
    ASSUME TypeOK
    PROVE  NextRead \in 0..Size - 1
BY DEF NextRead, TypeOK

\* The unread bytes are a sequence of bytes.
UnreadIsSeq ==
    /\ Unread \in Seq(Byte)
    /\ Len(Unread) = nbytes
    /\ \A i \in 1..nbytes : Unread[i] = buf[Wrap(NextRead, i - 1)]

LEMMA UnreadType == TypeOK => UnreadIsSeq
<1> SUFFICES ASSUME TypeOK PROVE UnreadIsSeq
  OBVIOUS
<1>1. \A i \in 1..nbytes : Wrap(NextRead, i - 1) \in 0..Size - 1
  <2> TAKE i \in 1..nbytes
  <2>1. i - 1 \in 0..Size
    BY DEF TypeOK
  <2>2. QED BY <2>1, NextReadRange, WrapFacts
<1>2. Unread \in [1..nbytes -> Byte] /\ nbytes \in Nat
  BY <1>1 DEF Unread, TypeOK
<1>3. Unread \in Seq(Byte) /\ Len(Unread) = nbytes
  BY <1>2
<1>4. QED BY <1>3 DEF Unread, UnreadIsSeq

LEMMA UnreadTypeNext == TypeOK' => UnreadIsSeq'
BY UnreadType, PTL

\* Writing a block that fits beside the unread bytes keeps all of them.
LEMMA OverwriteKeepsUnread ==
    ASSUME TypeOK, NEW max \in Nat, NEW d \in Blocks(max),
           nbytes + Len(d) <= Size,
           NEW i \in 1..nbytes
    PROVE  Overwrite(nextWrite, d)[Wrap(NextRead, i - 1)]
                = buf[Wrap(NextRead, i - 1)]
<1> DEFINE p == Wrap(NextRead, i - 1)
           k == (IF p >= nextWrite THEN p - nextWrite
                                   ELSE p + Size - nextWrite) + 1
<1>1. Len(d) \in Nat /\ nbytes \in 0..Size /\ nextWrite \in 0..Size - 1
  BY BlockFacts DEF TypeOK
<1>2. p \in 0..Size - 1
  <2>1. i - 1 \in 0..Size
    BY <1>1
  <2>2. QED BY <2>1, NextReadRange, WrapFacts
<1>3. k > Len(d)
  BY <1>1 DEF Wrap, NextRead
<1>4. QED BY <1>2, <1>3, <1>1 DEF Overwrite

\* The block is where it was written.
LEMMA OverwriteWrites ==
    ASSUME TypeOK, NEW max \in Nat, NEW d \in Blocks(max),
           NEW o \in 0..Size - 1, Len(d) <= Size, NEW i \in 1..Len(d)
    PROVE  Overwrite(o, d)[Wrap(o, i - 1)] = d[i]
<1> DEFINE p == Wrap(o, i - 1)
           k == (IF p >= o THEN p - o ELSE p + Size - o) + 1
<1>1. Len(d) \in Nat
  BY BlockFacts
<1>2. p \in 0..Size - 1
  <2>1. i - 1 \in 0..Size
    BY <1>1
  <2>2. QED BY <2>1, WrapFacts
<1>3. k = i
  BY <1>1 DEF Wrap
<1>4. QED BY <1>1, <1>2, <1>3 DEF Overwrite

\* Adding: bytes behind the unread ones, and nextWrite and nbytes advanced by
\* their number, append them to the unread sequence.
LEMMA AppendUnread ==
    ASSUME TypeOK, TypeOK', NEW d \in Seq(Byte), nbytes + Len(d) <= Size,
           nextWrite' = Wrap(nextWrite, Len(d)), nbytes' = nbytes + Len(d),
           \A i \in 1..nbytes :
               buf'[Wrap(NextRead, i - 1)] = buf[Wrap(NextRead, i - 1)],
           \A i \in 1..Len(d) : buf'[Wrap(nextWrite, i - 1)] = d[i]
    PROVE  Unread' = Unread \o d
<1>1. /\ nbytes \in 0..Size /\ nextWrite \in 0..Size - 1 /\ Len(d) \in Nat
      /\ nbytes' \in 0..Size
  BY DEF TypeOK
<1>2. NextRead' = NextRead \/ nbytes' = 0
  BY <1>1 DEF NextRead, Wrap
<1>3. /\ Unread' \in Seq(Byte) /\ Len(Unread') = nbytes'
      /\ \A i \in 1..nbytes' : Unread'[i] = buf'[Wrap(NextRead', i - 1)]
  BY UnreadTypeNext DEF UnreadIsSeq
<1>4. /\ Unread \o d \in Seq(Byte) /\ Len(Unread \o d) = nbytes + Len(d)
      /\ \A i \in 1..nbytes + Len(d) :
            (Unread \o d)[i] = IF i <= nbytes THEN Unread[i] ELSE d[i - nbytes]
  BY UnreadType, ConcatProperties DEF UnreadIsSeq
<1>5. ASSUME NEW i \in 1..nbytes' PROVE Unread'[i] = (Unread \o d)[i]
  <2>1. Unread'[i] = buf'[Wrap(NextRead, i - 1)]
    BY <1>1, <1>2, <1>3
  <2>2. CASE i <= nbytes
    <3>1. i \in 1..nbytes
      BY <1>1, <2>2
    <3>2. buf'[Wrap(NextRead, i - 1)] = buf[Wrap(NextRead, i - 1)]
      BY <3>1
    <3>3. Unread[i] = buf[Wrap(NextRead, i - 1)]
      BY <3>1, UnreadType DEF UnreadIsSeq
    <3>4. (Unread \o d)[i] = Unread[i]
      BY <1>1, <1>4, <2>2
    <3>5. QED BY <2>1, <3>2, <3>3, <3>4
  <2>3. CASE i > nbytes
    <3>1. Wrap(NextRead, i - 1) = Wrap(nextWrite, (i - nbytes) - 1)
      BY <1>1, <2>3 DEF Wrap, NextRead
    <3>2. i - nbytes \in 1..Len(d)
      BY <1>1, <2>3
    <3>3. buf'[Wrap(nextWrite, (i - nbytes) - 1)] = d[i - nbytes]
      BY <3>2
    <3>4. (Unread \o d)[i] = d[i - nbytes]
      BY <1>1, <1>4, <2>3
    <3>5. QED BY <2>1, <3>1, <3>3, <3>4
  <2>4. i <= nbytes \/ i > nbytes
    BY <1>1
  <2>5. QED BY ONLY <2>2, <2>3, <2>4
<1>6. QED BY <1>1, <1>3, <1>4, <1>5, SeqEqual

\* Taking: n unread bytes fewer are the rest of the unread sequence.
LEMMA DropUnread ==
    ASSUME TypeOK, TypeOK', NEW n \in 0..nbytes, nbytes' = nbytes - n,
           nextWrite' = nextWrite, buf' = buf
    PROVE  /\ Unread' = SubSeq(Unread, n + 1, Len(Unread))
           /\ [i \in 1..n |-> buf[Wrap(NextRead, i - 1)]]
                  = SubSeq(Unread, 1, n)
<1>1. /\ nbytes \in 0..Size /\ nextWrite \in 0..Size - 1 /\ n \in Nat
      /\ Len(Unread) = nbytes /\ Unread \in Seq(Byte)
      /\ \A i \in 1..nbytes : Unread[i] = buf[Wrap(NextRead, i - 1)]
      /\ \A i \in 1..nbytes : Unread[i] \in Byte
  <2>1. nbytes \in 0..Size /\ nextWrite \in 0..Size - 1 /\ n \in Nat
    BY DEF TypeOK
  <2>2. /\ Len(Unread) = nbytes /\ Unread \in Seq(Byte)
        /\ \A i \in 1..nbytes : Unread[i] = buf[Wrap(NextRead, i - 1)]
    BY UnreadType DEF UnreadIsSeq
  <2>3. \A i \in 1..nbytes : Unread[i] \in Byte
    BY <2>2
  <2>4. QED BY <2>1, <2>2, <2>3
<1>2. /\ Unread' \in Seq(Byte) /\ Len(Unread') = nbytes'
      /\ \A i \in 1..nbytes' : Unread'[i] = buf'[Wrap(NextRead', i - 1)]
  BY UnreadTypeNext DEF UnreadIsSeq
<1>3. Unread' = SubSeq(Unread, n + 1, Len(Unread))
  <2> DEFINE s == SubSeq(Unread, n + 1, nbytes)
  <2>1. /\ s \in Seq(Byte) /\ Len(s) = nbytes - n
        /\ \A i \in 1..nbytes - n : s[i] = Unread[n + i]
    <3>1. \A i \in n + 1..nbytes : Unread[i] \in Byte
      BY <1>1
    <3>2. /\ s \in Seq(Byte)
          /\ Len(s) = IF n + 1 <= nbytes THEN nbytes - (n + 1) + 1 ELSE 0
          /\ \A i \in 1..nbytes - (n + 1) + 1 : s[i] = Unread[n + 1 + i - 1]
      BY <1>1, <3>1, SubSeqProperties
    <3>3. \A i \in 1..nbytes - n : n + 1 + i - 1 = n + i
      BY <1>1
    <3>4. QED BY <1>1, <3>2, <3>3
  <2>2. ASSUME NEW i \in 1..nbytes' PROVE Unread'[i] = s[i]
    <3>1. Wrap(NextRead', i - 1) = Wrap(NextRead, (n + i) - 1)
      BY <1>1 DEF Wrap, NextRead
    <3>2. n + i \in 1..nbytes /\ i \in 1..nbytes - n
      BY <1>1
    <3>3. Unread[n + i] = buf[Wrap(NextRead, (n + i) - 1)]
      BY <1>1, <3>2
    <3>4. QED BY <1>2, <2>1, <3>1, <3>2, <3>3
  <2>3. QED BY <1>1, <1>2, <2>1, <2>2, SeqEqual
<1>4. [i \in 1..n |-> buf[Wrap(NextRead, i - 1)]] = SubSeq(Unread, 1, n)
  <2> DEFINE b == [i \in 1..n |-> buf[Wrap(NextRead, i - 1)]]
             s == SubSeq(Unread, 1, n)
  <2>1. /\ s \in Seq(Byte) /\ Len(s) = n
        /\ \A i \in 1..n : s[i] = Unread[i]
    <3>1. \A i \in 1..n : Unread[i] \in Byte
      BY <1>1
    <3>2. /\ s \in Seq(Byte)
          /\ Len(s) = IF 1 <= n THEN n - 1 + 1 ELSE 0
          /\ \A i \in 1..n - 1 + 1 : s[i] = Unread[1 + i - 1]
      BY <1>1, <3>1, SubSeqProperties
    <3>3. \A i \in 1..n : 1 + i - 1 = i
      BY <1>1
    <3>4. QED BY <1>1, <3>2, <3>3
  <2>2. \A i \in 1..n : buf[Wrap(NextRead, i - 1)] = Unread[i]
    BY <1>1
  <2>3. b \in Seq(Byte) /\ Len(b) = n /\ \A i \in 1..n : b[i] = Unread[i]
    <3>1. b \in [1..n -> Byte]
      <4>1. \A i \in 1..n : Unread[i] \in Byte
        BY <1>1
      <4>2. QED BY <2>2, <4>1
    <3>2. b \in Seq(Byte) /\ Len(b) = n
      BY <1>1, <3>1
    <3>3. QED BY <2>2, <3>2
  <2>4. QED BY <2>1, <2>3, SeqEqual
<1>5. QED BY <1>3, <1>4

(***************************************************************************)
(* The bytes written in place stay there until they are added.             *)
(***************************************************************************)
LEMMA FilledInvariant == RInv /\ IInv' /\ [Next]_vars => FilledInPlace'
<1> SUFFICES ASSUME IInv, FilledInPlace, IInv', [Next]_vars,
                    NEW x \in Threads, pc'[x] \in {"update", "update_cs"}
             PROVE  /\ want'[x] <= Size - ptr'[x]
                    /\ \A i \in 1..Len(data'[x]) :
                          buf'[ptr'[x] + i - 1] = data'[x][i]
  BY DEF RInv, FilledInPlace
<1>1. CASE pc[x] \in {"update", "update_cs"}
  <2>1. \A t \in Threads : t # x => pc[t] \notin WritePlaces
    BY <1>1 DEF IInv, MutexesOK, WritePlaces
  <2>2. /\ want'[x] = want[x] /\ ptr'[x] = ptr[x] /\ data'[x] = data[x]
        /\ buf' = buf
    <3>1. CASE \E t \in Writers : CallWriteReserve(t)
      BY <1>1, <3>1, WriterIsThread
         DEF CallWriteReserve, Begin, state, Goto, IInv, TypeOK
    <3>2. CASE \E t \in Readers : CallReadSome(t) \/ CallRead(t, 0)
      BY <1>1, <3>2, WriterIsThread
         DEF CallReadSome, CallRead, Begin, state, Goto, IInv, TypeOK
    <3>3. CASE \E t \in Closers : CallClose(t)
      BY <1>1, <3>3 DEF CallClose, Begin, state, Goto, IInv, TypeOK
    <3>4. ASSUME NEW t \in Threads, Step(t) \/ SpuriousWakeup(t)
          PROVE  /\ want'[x] = want[x] /\ ptr'[x] = ptr[x]
                 /\ data'[x] = data[x] /\ buf' = buf
      <4>1. CASE TooLarge(t) \/ LockMutex(t) \/ SpuriousWakeup(t)
        BY <4>1 DEF TooLarge, LockMutex, SpuriousWakeup, state, calls
      <4>2. CASE LockWriteMutex(t) \/ ReserveClosed(t) \/ ReserveWait(t)
        BY <4>2 DEF LockWriteMutex, ReserveClosed, ReserveWait, state, calls
      <4>3. CASE ReaderStep(t) \/ CloseWhenEmpty(t)
        BY <4>3 DEF ReaderStep, LockReadMutex, ReadClosed, Read, ReadWait,
                    CloseWhenEmpty, state, calls
      <4>4. CASE Reserve(t) \/ Fill(t) \/ Copy(t)
        <5>1. pc[t] \in {"write_cs", "fill", "copy_cs"}
          BY <4>4 DEF Reserve, Fill, Copy
        <5>2. FALSE
          BY <1>1, <2>1, <5>1 DEF WritePlaces
        <5>3. QED BY <5>2
      <4>5. CASE WriteUpdate(t)
        <5>1. t = x
          BY <2>1, <4>5 DEF WriteUpdate, WritePlaces
        <5>2. pc'[t] = "idle"
          BY <4>5 DEF WriteUpdate, Added, GotoWaking
        <5>3. QED BY <5>1, <5>2
      <4>6. QED
        BY <3>4, <4>1, <4>2, <4>3, <4>4, <4>5 DEF Step, WriterStep
    <3>5. CASE UNCHANGED vars
      BY <3>5 DEF vars, state, calls
    <3>6. QED BY <3>1, <3>2, <3>3, <3>4, <3>5 DEF Next
  <2>3. QED BY <1>1, <2>2 DEF FilledInPlace
<1>2. CASE pc[x] \notin {"update", "update_cs"}
  <2>1. Fill(x) /\ pc'[x] = "update"
    <3>1. \A t \in Threads, place \in {"idle", "write_begin", "read_begin",
                                      "close", "write", "read", "fill",
                                      "write_wait", "read_wait", "copy"} :
            Goto(t, place) => pc'[x] \in {pc[x], place}
      BY DEF Goto, IInv, TypeOK
    <3>2. \A t \in Threads, ww, rw \in SUBSET Threads :
            GotoWaking(t, "idle", ww, rw) =>
                pc'[x] \in {pc[x], "idle", "write", "read"}
      BY DEF GotoWaking
    <3>3. \A place : Signal(place) \subseteq SUBSET Threads
      BY DEF Signal
    <3>4. CASE \/ \E t \in Writers : CallWriteReserve(t)
               \/ \E t \in Readers : CallReadSome(t) \/ CallRead(t, 0)
               \/ \E t \in Closers : CallClose(t)
      BY <1>2, <3>1, <3>4 DEF CallWriteReserve, CallReadSome, CallRead, CallClose, Begin,
                              Threads
    <3>5. ASSUME NEW t \in Threads, Step(t) \/ SpuriousWakeup(t)
          PROVE  Fill(x) /\ pc'[x] = "update"
      <4>1. CASE TooLarge(t) \/ SpuriousWakeup(t) \/ LockWriteMutex(t)
                 \/ ReserveClosed(t) \/ Reserve(t) \/ ReserveWait(t)
                 \/ LockReadMutex(t) \/ ReadClosed(t) \/ ReadWait(t)
        BY <1>2, <3>1, <4>1
           DEF TooLarge, SpuriousWakeup, LockWriteMutex, ReserveClosed,
               Reserve, ReserveWait, LockReadMutex, ReadClosed, ReadWait
      <4>2. CASE WriteUpdate(t) \/ Copy(t) \/ Read(t) \/ CloseWhenEmpty(t)
        BY <1>2, <3>2, <3>3, <4>2
           DEF WriteUpdate, Copy, Added, Read, CloseWhenEmpty
      <4>3. CASE LockMutex(t)
        BY <1>2, <4>3 DEF LockMutex, Locked, Goto, IInv, TypeOK
      <4>4. CASE Fill(t)
        <5>1. Goto(t, "update") \/ Goto(t, "copy")
          BY <4>4 DEF Fill
        <5>2. t = x /\ pc'[x] = "update"
          BY <1>2, <5>1 DEF Goto, IInv, TypeOK
        <5>3. QED BY <4>4, <5>2
      <4>5. QED
        BY <3>5, <4>1, <4>2, <4>3, <4>4 DEF Step, WriterStep, ReaderStep
    <3>6. CASE UNCHANGED vars
      BY <1>2, <3>6 DEF vars
    <3>7. QED BY <3>4, <3>5, <3>6 DEF Next
  <2>2. PICK d \in Blocks(want[x]) :
          /\ data' = [data EXCEPT ![x] = d]
          /\ want[x] <= Size - ptr[x]
          /\ buf' = Overwrite(ptr[x], d)
          /\ want' = want /\ ptr' = ptr
    BY <2>1 DEF Fill, Goto, IInv, TypeOK
  <2>3. want[x] \in Nat /\ ptr[x] \in 0..Size - 1 /\ Len(d) \in 1..want[x]
    BY <2>2, BlockFacts DEF IInv, TypeOK
  <2>4. ASSUME NEW i \in 1..Len(d) PROVE buf'[ptr[x] + i - 1] = d[i]
    <3>1. Wrap(ptr[x], i - 1) = ptr[x] + i - 1
      BY <2>2, <2>3 DEF Wrap
    <3>2. Overwrite(ptr[x], d)[Wrap(ptr[x], i - 1)] = d[i]
      BY <2>2, <2>3, OverwriteWrites DEF IInv
    <3>3. QED BY <2>2, <3>1, <3>2
  <2>5. data'[x] = d
    BY <2>2 DEF IInv, TypeOK
  <2>6. QED BY <2>2, <2>4, <2>5
<1>3. QED BY <1>1, <1>2

THEOREM RInvariance == Spec => []RInv
<1>1. Init => FilledInPlace
  BY DEF Init, FilledInPlace
<1>2. Init => RInv
  BY <1>1, InitInvariant DEF RInv
<1>3. RInv /\ [Next]_vars => RInv'
  BY StepInvariant, FilledInvariant DEF RInv
<1>4. QED BY <1>2, <1>3, PTL DEF Spec

(***************************************************************************)
(* Every step of the FIFO is a step of the queue, or none.                 *)
(***************************************************************************)
LEMMA InitRefines == Init => Queue!Init
<1> SUFFICES ASSUME Init PROVE Queue!Init
  OBVIOUS
<1>1. Unread = <<>>
  BY DEF Init, Unread
<1>2. QED BY <1>1 DEF Init, Queue!Init

\* A step that leaves the ring, the counts and the calls alone is invisible.
LEMMA Invisible ==
    ASSUME UNCHANGED <<buf, nextWrite, nbytes, closeIfEmpty, want, data, got,
                       result>>
    PROVE  UNCHANGED Queue!qvars
BY DEF Queue!qvars, Unread, NextRead, Wrap

LEMMA BeginRefines ==
    ASSUME IInv, NEW t \in Threads, NEW n \in 0..MaxOf(MaxWrite, MaxRead),
           NEW place, Begin(t, place, n)
    PROVE  Queue!Call(t)
BY DEF Begin, state, Queue!Call, Unread, NextRead, Wrap

LEMMA FillRefines ==
    ASSUME RInv, RInv', NEW t \in Threads, Fill(t)
    PROVE  Queue!Offer(t)
<1>1. PICK d \in Blocks(want[t]) :
          /\ pc[t] = "fill"
          /\ data' = [data EXCEPT ![t] = d]
          /\ buf' = Overwrite(ptr[t], d) \/ buf' = buf
          /\ UNCHANGED <<nextWrite, nbytes, nreserved, closeIfEmpty, locks,
                         want, ptr, got, result>>
  BY DEF Fill
<1>2. /\ ptr[t] = nextWrite /\ nreserved = want[t] /\ TypeOK
      /\ nbytes + nreserved <= Size
  <2>1. t \in Writers
    BY <1>1 DEF RInv, IInv, CallsOK, WritePlaces
  <2>2. QED
    BY <1>1, <2>1 DEF RInv, IInv, ReservationIsCurrent, Reserving,
                      RegionsDisjoint
<1>3. Len(d) \in 1..want[t] /\ want[t] \in Nat
  BY <1>1, <1>2, BlockFacts DEF TypeOK
<1>4. nbytes + Len(d) <= Size
  BY <1>2, <1>3 DEF TypeOK
<1>5. \A i \in 1..nbytes :
          buf'[Wrap(NextRead, i - 1)] = buf[Wrap(NextRead, i - 1)]
  BY <1>1, <1>2, <1>3, <1>4, OverwriteKeepsUnread
<1>6. Unread' = Unread
  BY <1>1, <1>5 DEF Unread, NextRead, Wrap
<1>7. QED BY <1>1, <1>6 DEF Queue!Offer, Queue!Blocks, Blocks

LEMMA AddedRefines ==
    ASSUME RInv, RInv', NEW t \in Threads, WriteUpdate(t) \/ Copy(t)
    PROVE  Queue!Put(t)
<1>1. /\ pc[t] \in {"update_cs", "copy_cs"} /\ Added(t)
      /\ data[t] \in Blocks(want[t]) /\ want[t] \in Nat
      /\ t \in Writers /\ TypeOK /\ TypeOK'
  BY DEF WriteUpdate, Copy, RInv, IInv, CallsOK, Adding, WritePlaces, TypeOK
<1>2. /\ ptr[t] = nextWrite /\ nreserved = want[t]
      /\ nbytes + nreserved <= Size
  BY <1>1 DEF RInv, IInv, ReservationIsCurrent, Reserving, RegionsDisjoint
<1>3. /\ Len(data[t]) \in 1..want[t] /\ data[t] \in Seq(Byte)
      /\ nbytes \in 0..Size /\ nextWrite \in 0..Size - 1
  BY <1>1, BlockFacts DEF TypeOK
<1>4. nbytes + Len(data[t]) <= Size /\ Len(data[t]) \in 0..Size
  BY <1>1, <1>2, <1>3
<1>5. nextWrite' = Wrap(nextWrite, Len(data[t]))
  BY <1>1, <1>3, <1>4, WrapFacts DEF Added, Advanced
<1>6. nbytes' = nbytes + Len(data[t])
  BY <1>1 DEF Added
<1>7. /\ \A i \in 1..nbytes :
            buf'[Wrap(NextRead, i - 1)] = buf[Wrap(NextRead, i - 1)]
      /\ \A i \in 1..Len(data[t]) : buf'[Wrap(nextWrite, i - 1)] = data[t][i]
  <2>1. CASE WriteUpdate(t)
    <3>1. /\ buf' = buf /\ want[t] <= Size - nextWrite
          /\ \A i \in 1..Len(data[t]) : buf[nextWrite + i - 1] = data[t][i]
      BY <1>2, <2>1 DEF WriteUpdate, RInv, FilledInPlace
    <3>2. \A i \in 1..Len(data[t]) : Wrap(nextWrite, i - 1) = nextWrite + i - 1
      BY <1>1, <1>3, <3>1 DEF Wrap
    <3>3. QED BY <3>1, <3>2
  <2>2. CASE Copy(t)
    <3>1. buf' = Overwrite(nextWrite, data[t])
      BY <2>2 DEF Copy
    <3>2. QED
      BY <1>1, <1>3, <1>4, <3>1, OverwriteKeepsUnread, OverwriteWrites
  <2>3. QED BY <2>1, <2>2
<1>8. Unread' = Unread \o data[t]
  BY <1>1, <1>3, <1>4, <1>5, <1>6, <1>7, AppendUnread
<1>9. Len(Unread) = nbytes
  BY <1>1, UnreadType DEF UnreadIsSeq
<1>10. data[t] # <<>>
  BY <1>3
<1>11. QED BY <1>1, <1>4, <1>8, <1>9, <1>10 DEF Added, Queue!Put

LEMMA ReadRefines ==
    ASSUME RInv, RInv', NEW t \in Threads, Read(t)
    PROVE  Queue!Take(t)
<1>1. TypeOK /\ TypeOK' /\ want[t] \in 0..nbytes /\ Len(Unread) = nbytes
  BY UnreadType
     DEF Read, HasData, RInv, IInv, CallsOK, ReadPlaces, TypeOK, UnreadIsSeq
<1>2. nbytes' = nbytes - want[t] /\ nextWrite' = nextWrite /\ buf' = buf
  BY DEF Read
<1>3. /\ Unread' = SubSeq(Unread, want[t] + 1, Len(Unread))
      /\ [i \in 1..want[t] |-> buf[Wrap(NextRead, i - 1)]]
              = SubSeq(Unread, 1, want[t])
  BY <1>1, <1>2, DropUnread
<1>4. QED BY <1>1, <1>3 DEF Read, Queue!Take

LEMMA RefusalRefines ==
    ASSUME IInv, NEW t \in Threads
    PROVE  /\ TooLarge(t) => Queue!RefuseTooLarge(t)
           /\ ReserveClosed(t) \/ ReadClosed(t) => Queue!RefuseClosed(t)
           /\ CloseWhenEmpty(t) => Queue!Close(t)
<1>1. TooLarge(t) => Queue!RefuseTooLarge(t)
  BY DEF TooLarge, Queue!RefuseTooLarge, state, Unread, NextRead, Wrap
<1>2. nbytes = 0 => Unread = <<>>
  BY DEF Unread
<1>3. ReserveClosed(t) \/ ReadClosed(t) => Queue!RefuseClosed(t)
  BY <1>2 DEF ReserveClosed, ReadClosed, Drained, Queue!RefuseClosed, state,
              Unread, NextRead, Wrap
<1>4. CloseWhenEmpty(t) => Queue!Close(t)
  BY DEF CloseWhenEmpty, Queue!Close, Unread, NextRead, Wrap
<1>5. QED BY <1>1, <1>3, <1>4

LEMMA StepRefines ==
    RInv /\ RInv' /\ [Next]_vars => [Queue!Next]_(Queue!qvars)
<1> SUFFICES ASSUME RInv, RInv', [Next]_vars
             PROVE  [Queue!Next]_(Queue!qvars)
  OBVIOUS
<1>1. ASSUME NEW t \in Threads,
             \/ CallWriteReserve(t) \/ CallReadSome(t) \/ CallRead(t, 0)
             \/ CallClose(t)
      PROVE  Queue!Call(t)
  <2>1. /\ \A n \in 1..MaxWrite : n \in 0..MaxOf(MaxWrite, MaxRead)
        /\ \A n \in 0..MaxRead : n \in 0..MaxOf(MaxWrite, MaxRead)
        /\ 0 \in 0..MaxOf(MaxWrite, MaxRead)
    BY DEF MaxOf
  <2>2. QED
    BY <1>1, <2>1, BeginRefines
       DEF CallWriteReserve, CallReadSome, CallRead, CallClose, RInv
<1>2. ASSUME NEW t \in Threads, Step(t) \/ SpuriousWakeup(t)
      PROVE  \/ Queue!RefuseTooLarge(t) \/ Queue!RefuseClosed(t)
             \/ Queue!Offer(t) \/ Queue!Put(t) \/ Queue!Take(t)
             \/ Queue!Close(t) \/ UNCHANGED Queue!qvars
  <2>1. CASE \/ LockMutex(t) \/ SpuriousWakeup(t) \/ LockWriteMutex(t)
             \/ Reserve(t) \/ ReserveWait(t) \/ LockReadMutex(t)
             \/ ReadWait(t)
    <3>1. UNCHANGED <<buf, nextWrite, nbytes, closeIfEmpty, want, data, got,
                      result>>
      BY <2>1 DEF LockMutex, SpuriousWakeup, LockWriteMutex, Reserve,
                  ReserveWait, LockReadMutex, ReadWait, state, calls
    <3>2. QED BY <3>1, Invisible
  <2>2. CASE Fill(t)
    BY <2>2, FillRefines
  <2>3. CASE WriteUpdate(t) \/ Copy(t)
    BY <2>3, AddedRefines
  <2>4. CASE Read(t)
    BY <2>4, ReadRefines
  <2>5. CASE TooLarge(t) \/ ReserveClosed(t) \/ ReadClosed(t)
             \/ CloseWhenEmpty(t)
    BY <2>5, RefusalRefines DEF RInv
  <2>6. QED
    BY <1>2, <2>1, <2>2, <2>3, <2>4, <2>5 DEF Step, WriterStep, ReaderStep
<1>3. CASE UNCHANGED vars
  <2>1. UNCHANGED Queue!qvars
    BY <1>3, Invisible DEF vars, state, calls
  <2>2. QED BY <2>1
<1>4. CASE Next
  <2>1. \A t \in Writers \union Readers \union Closers : t \in Threads
    BY DEF Threads
  <2>2. CASE \/ \E t \in Writers : CallWriteReserve(t)
             \/ \E t \in Readers : CallReadSome(t) \/ CallRead(t, 0)
             \/ \E t \in Closers : CallClose(t)
    BY <1>1, <2>1, <2>2 DEF Queue!Next
  <2>3. CASE \E t \in Threads : Step(t) \/ SpuriousWakeup(t)
    BY <1>2, <2>3 DEF Queue!Next
  <2>4. QED BY <1>4, <2>2, <2>3 DEF Next
<1>5. QED BY <1>3, <1>4

\* The FIFO implements the byte queue: nothing is lost, doubled, reordered or
\* overwritten, for any number of threads and any size of the ring.
THEOREM Refinement == Spec => QueueSpec
<1>1. QED
  BY RInvariance, InitRefines, StepRefines, PTL DEF Spec, QueueSpec, Queue!Spec
=============================================================================
