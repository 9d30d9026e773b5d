--------------------------- MODULE ShmFifoProofs ---------------------------
(***************************************************************************)
(* Proofs about the shared-memory FIFO, for every capacity, header, record *)
(* and buffer size: the offsets stay inside the ring, at most one process  *)
(* is under the lock, the ring holds whole records, whichever of them and  *)
(* of their headers run over its end, no notification is lost, and the two *)
(* calls implement the queue of records of RecordQueue.                    *)
(*                                                                         *)
(* Mutual exclusion carries the rest: a process under the lock sees the    *)
(* ring as it left it.  Whole records carry the last two: a get that finds *)
(* something other than a record would consume a header and return without *)
(* notifying the writer, and what it handed over would not be a record of  *)
(* the queue.                                                              *)
(***************************************************************************)
EXTENDS ShmFifo, Integers, TLAPS, SequenceTheorems, WellFoundedInduction

Byte == [rec : Record, pos : Nat]

\* The first byte that is got is one of the ring.
LEMMA FirstByte ==
    ASSUME TypeOK, MemUsed >= H
    PROVE  Peek(1)[1].rec \in Record
<1>1. GetPiece(1) = 1
    BY SizeAssumption DEF TypeOK, MemUsed, GetPiece, Smaller
<1>2. Peek(1)[1] = ring[read]
    BY <1>1, SizeAssumption DEF TypeOK, Peek
<1> QED
    BY <1>2, SizeAssumption DEF TypeOK

\* The offset after what is got, no more than there is, is inside the ring.
LEMMA ReadAfterRange ==
    ASSUME TypeOK, NEW n \in Nat, n <= MemUsed
    PROVE  ReadAfter(n) \in 0..Cap - 1
BY SizeAssumption DEF TypeOK, ReadAfter, Advance, GetPiece, Smaller, MemUsed

LEMMA RewoundRange ==
    ASSUME NEW offset \in 0..Cap - 1, H <= Cap
    PROVE  Rewound(offset) \in 0..Cap - 1
BY SizeAssumption DEF Rewound

\* What shmfifo_ll_put() is given is bytes of a record.
LEMMA BytesFacts ==
    ASSUME NEW r \in Record
    PROVE  /\ Len(Header(r)) = H /\ Len(Data(r)) = r.sz
           /\ \A i \in 1..H : Header(r)[i] \in Byte
           /\ \A i \in 1..r.sz : Data(r)[i] \in Byte
<1>0. r.sz \in Nat \ {0} /\ H \in Nat \ {0}
    BY SizeAssumption DEF Record
<1>1. Header(r) = [i \in 1..H |-> [rec |-> r, pos |-> 1 + i - 1]]
    BY <1>0 DEF Header, Bytes
<1>2. Data(r) = [i \in 1..r.sz |-> [rec |-> r, pos |-> (H + 1) + i - 1]]
    BY <1>0 DEF Data, Bytes
<1> QED
    BY <1>0, <1>1, <1>2 DEF Byte

LEMMA LlPutType ==
    ASSUME TypeOK, NEW bytes, Len(bytes) \in Nat,
           \A i \in 1..Len(bytes) : bytes[i] \in Byte, LlPut(bytes)
    PROVE  /\ ring' \in [0..Cap - 1 -> Byte]
           /\ write' \in 0..Cap - 1
<1> DEFINE sz == Len(bytes)
           copysz == Smaller(Cap - write, sz)
<1>1. CASE MemFree < sz
    BY <1>1 DEF LlPut, Store, TypeOK, Byte
<1>2. CASE ~(MemFree < sz)
    <2>1. /\ write' = Advance(write, sz, copysz)
          /\ ring' = [o \in 0..Cap - 1 |->
                        IF o \in write..write + copysz - 1 THEN bytes[o - write + 1]
                        ELSE IF o < sz - copysz THEN bytes[o + copysz + 1]
                        ELSE ring[o]]
        BY <1>2 DEF LlPut, Store
    <2>2. copysz \in 0..sz /\ write + copysz <= Cap
        BY SizeAssumption DEF Smaller, TypeOK
    <2>3. write' \in 0..Cap - 1
        BY <1>2, <2>1, SizeAssumption DEF Advance, Smaller, TypeOK, MemFree
    <2>4. ASSUME NEW o \in 0..Cap - 1 PROVE ring'[o] \in Byte
        <3>1. CASE o \in write..write + copysz - 1
            <4>1. o - write + 1 \in 1..sz
                BY <2>2, <3>1, SizeAssumption DEF TypeOK
            <4> QED
                BY <2>1, <3>1, <4>1
        <3>2. CASE o \notin write..write + copysz - 1 /\ o < sz - copysz
            <4>1. o + copysz + 1 \in 1..sz
                BY <2>2, <3>2
            <4> QED
                BY <2>1, <3>2, <4>1
        <3>3. CASE o \notin write..write + copysz - 1 /\ ~(o < sz - copysz)
            BY <2>1, <3>3 DEF TypeOK, Byte
        <3> QED
            BY <3>1, <3>2, <3>3
    <2>5. ring' \in [0..Cap - 1 -> Byte]
        BY <2>1, <2>4
    <2> QED
        BY <2>3, <2>5
<1> QED
    BY <1>1, <1>2

-----------------------------------------------------------------------------
LEMMA InitType == Init => TypeOK
<1> SUFFICES ASSUME Init PROVE TypeOK
    OBVIOUS
<1>1. \E r \in Record : TRUE
    <2>1. PICK sz \in Sizes, tag \in Tag : TRUE
        BY SizeAssumption
    <2>2. [tag |-> tag, sz |-> sz] \in Record
        BY <2>1 DEF Record
    <2> QED
        BY <2>2
<1>2. Blank \in Byte
    BY <1>1 DEF Blank, Byte
<1> QED
    BY <1>2, SizeAssumption, ProcAssumption
    DEF Init, TypeOK, Byte, Procs, LockedPlaces

LEMMA StepType == TypeOK /\ [Next]_vars => TypeOK'
<1> SUFFICES ASSUME TypeOK, [Next]_vars PROVE TypeOK'
    OBVIOUS
<1> USE SizeAssumption, ProcAssumption
<1>1. ASSUME NEW p \in Procs, Lock(p) PROVE TypeOK'
    BY <1>1 DEF TypeOK, Lock, Goto, queue, Procs, LockedPlaces
<1>2. ASSUME NEW p \in Procs, Wake(p) PROVE TypeOK'
    BY <1>2 DEF TypeOK, Wake, Goto, queue, Procs, LockedPlaces
<1>3. ASSUME NEW p \in Procs, Unlock(p) PROVE TypeOK'
    BY <1>3 DEF TypeOK, Unlock, Release, HasLock, Goto, queue, Procs, LockedPlaces
<1>5. ASSUME NEW r \in Record, PutCall(r) PROVE TypeOK'
    BY <1>5 DEF TypeOK, PutCall, Goto, queue, sems, Procs, LockedPlaces
<1>6. ASSUME PutTooBig \/ PutWaits PROVE TypeOK'
    <2>1. lock' \in {0, 1} /\ lockPid' \in Procs
        BY <1>6 DEF TypeOK, PutTooBig, PutWaits, Wait, Release, HasLock, sems, Procs
    <2>2. pc' \in {[pc EXCEPT ![Writer] = "unlock"], [pc EXCEPT ![Writer] = "put_asleep"]}
        BY <1>6 DEF PutTooBig, PutWaits, Wait, Goto
    <2>3. UNCHANGED <<queue, notice, rec, header, nbytes, result>>
        BY <1>6 DEF PutTooBig, PutWaits, Wait, sems
    <2> QED
        BY <2>1, <2>2, <2>3 DEF TypeOK, queue, Procs, LockedPlaces
<1>7. ASSUME PutHeader PROVE TypeOK'
    <2>1. ring' \in [0..Cap - 1 -> Byte] /\ write' \in 0..Cap - 1
        BY <1>7, BytesFacts, LlPutType DEF PutHeader, TypeOK
    <2> QED
        BY <1>7, <2>1 DEF TypeOK, PutHeader, Goto, sems, Procs, LockedPlaces, Byte
<1>8. ASSUME PutData PROVE TypeOK'
    <2>0. rec.sz \in Nat
        BY DEF TypeOK, Record
    <2>1. ring' \in [0..Cap - 1 -> Byte] /\ write' \in 0..Cap - 1
        BY <1>8, <2>0, BytesFacts, LlPutType DEF PutData, TypeOK
    <2> QED
        BY <1>8, <2>1 DEF TypeOK, PutData, Goto, sems, Procs, LockedPlaces, Byte
<1>9. ASSUME PutNotifies PROVE TypeOK'
    BY <1>9 DEF TypeOK, PutNotifies, Goto, queue, Procs, LockedPlaces
<1>10. ASSUME GetCall PROVE TypeOK'
    BY <1>10 DEF TypeOK, GetCall, Goto, queue, sems, Procs, LockedPlaces
<1>11. ASSUME GetWaits PROVE TypeOK'
    <2>1. lock' \in {0, 1} /\ lockPid' \in Procs
        BY <1>11 DEF TypeOK, GetWaits, Wait, Release, HasLock, sems, Procs
    <2>2. pc' \in {[pc EXCEPT ![Reader] = "unlock"], [pc EXCEPT ![Reader] = "get_asleep"]}
        BY <1>11 DEF GetWaits, Wait, Goto
    <2>3. UNCHANGED <<queue, notice, rec, header, nbytes, result>>
        BY <1>11 DEF GetWaits, Wait, sems
    <2> QED
        BY <2>1, <2>2, <2>3 DEF TypeOK, queue, Procs, LockedPlaces
<1>12. ASSUME GetHeader PROVE TypeOK'
    <2>1. header' \in Record
        BY <1>12, FirstByte DEF GetHeader
    <2>2. ReadAfter(H) \in 0..Cap - 1
        BY <1>12, ReadAfterRange DEF GetHeader
    <2>3. Rewound(ReadAfter(H)) \in 0..Cap - 1
        <3>1. H <= Cap
            BY <1>12 DEF GetHeader, MemUsed, TypeOK
        <3> QED
            BY <2>2, <3>1, RewoundRange
    <2>4. read' \in 0..Cap - 1
        BY <1>12, <2>2, <2>3 DEF GetHeader
    <2>5. pc' \in {[pc EXCEPT ![Reader] = "unlock"], [pc EXCEPT ![Reader] = "get_data"]}
        BY <1>12 DEF GetHeader, Goto
    <2> QED
        BY <1>12, <2>1, <2>4, <2>5 DEF TypeOK, GetHeader, sems, Procs, LockedPlaces
<1>13. ASSUME GetData PROVE TypeOK'
    <2>1. read' \in 0..Cap - 1
        <3>1. header.sz \in Nat
            BY DEF TypeOK, Record
        <3> QED
            BY <1>13, <3>1, ReadAfterRange DEF GetData, TypeOK
    <2> QED
        BY <1>13, <2>1 DEF TypeOK, GetData, Goto, sems, Procs, LockedPlaces
<1>15. ASSUME GetNotifies PROVE TypeOK'
    BY <1>15 DEF TypeOK, GetNotifies, Goto, queue, Procs, LockedPlaces, Record
<1>17. ASSUME UNCHANGED vars PROVE TypeOK'
    BY <1>17 DEF TypeOK, vars, queue, sems
<1> QED
    BY <1>1, <1>2, <1>3, <1>5, <1>6, <1>7, <1>8, <1>9, <1>10, <1>11, <1>12, <1>13,
       <1>15, <1>17 DEF Next

\* Offsets stay inside the ring and semaphores at 0 or 1 in every interleaving of
\* the two calls, wherever a record or a header runs over the ring's end and however
\* a header is put back (shmfifo.c:297-439).
THEOREM TypeCorrect == Spec => []TypeOK
BY InitType, StepType, PTL DEF Spec

-----------------------------------------------------------------------------
(***************************************************************************)
(* Mutual exclusion.  AloneUnderLock is inductive once each process is     *)
(* known to be only where its own calls take it.                           *)
(***************************************************************************)
WriterPlaces == {"idle", "put", "put_asleep", "put_locked", "put_data", "notify", "unlock"}
ReaderPlaces == {"idle", "get", "get_asleep", "get_locked", "get_data", "notify", "unlock"}

LockInv ==
    /\ TypeOK
    /\ pc[Writer] \in WriterPlaces
    /\ pc[Reader] \in ReaderPlaces
    /\ pc[Writer] \in LockedPlaces => lock = 0 /\ lockPid = Writer
    /\ pc[Reader] \in LockedPlaces => lock = 0 /\ lockPid = Reader

LEMMA AloneFromInv == LockInv => AloneUnderLock
BY ProcAssumption DEF LockInv, AloneUnderLock, HasLock, Peer, Procs

LEMMA InitLock == Init => LockInv
BY InitType DEF Init, LockInv, WriterPlaces, ReaderPlaces, LockedPlaces, Procs

LEMMA StepLock == LockInv /\ [Next]_vars => LockInv'
<1> SUFFICES ASSUME LockInv, [Next]_vars PROVE LockInv'
    OBVIOUS
<1> USE ProcAssumption DEF LockInv, WriterPlaces, ReaderPlaces, LockedPlaces, Procs, Goto
<1>0. TypeOK'
    BY StepType
<1>t. DOMAIN pc = {Writer, Reader} /\ pc = [p \in DOMAIN pc |-> pc[p]] /\ Writer # Reader
    BY DEF TypeOK
<1>1. ASSUME NEW p \in Procs, Lock(p) PROVE LockInv'
    <2>1. lock = 1 /\ lock' = 0 /\ lockPid' = p /\ pc[Peer(p)] \notin LockedPlaces
        BY <1>1 DEF Lock, Peer, TypeOK
    <2>2. pc' = [pc EXCEPT ![p] = IF p = Writer THEN "put_locked" ELSE "get_locked"]
        BY <1>1 DEF Lock
    <2> QED
        BY <1>0, <1>t, <2>1, <2>2 DEF Peer
<1>2. ASSUME NEW p \in Procs, Wake(p) PROVE LockInv'
    BY <1>0, <1>2, <1>t DEF Wake
<1>3. ASSUME NEW p \in Procs, Unlock(p) PROVE LockInv'
    <2>1. pc[p] = "unlock" /\ lock = 0 /\ lockPid = p /\ pc[Peer(p)] \notin LockedPlaces
        BY <1>3 DEF Unlock, Peer
    <2>2. lock' = 1 /\ lockPid' = p
        BY <1>3, <2>1 DEF Unlock, Release, HasLock
    <2>3. pc' = [pc EXCEPT ![p] = "idle"]
        BY <1>3 DEF Unlock
    <2> QED
        BY <1>0, <1>t, <2>1, <2>2, <2>3 DEF Peer
<1>5. ASSUME NEW r \in Record, PutCall(r) PROVE LockInv'
    BY <1>0, <1>5, <1>t DEF PutCall, sems
<1>6. ASSUME PutTooBig \/ PutHeader \/ PutData \/ PutNotifies PROVE LockInv'
    BY <1>0, <1>6, <1>t DEF PutTooBig, PutHeader, PutData, PutNotifies, sems
<1>7. ASSUME PutWaits \/ GetWaits PROVE LockInv'
    <2>1. CASE PutWaits \/ (GetWaits /\ MemUsed = 0)
        BY <1>0, <1>7, <1>t, <2>1 DEF PutWaits, GetWaits, Wait, Release, HasLock
    <2>2. CASE GetWaits /\ MemUsed # 0
        BY <1>0, <1>t, <2>2 DEF GetWaits, sems
    <2> QED
        BY <1>7, <2>1, <2>2
<1>8. ASSUME GetCall \/ GetHeader \/ GetNotifies PROVE LockInv'
    BY <1>0, <1>8, <1>t DEF GetCall, GetHeader, GetNotifies, sems
<1>9. ASSUME GetData PROVE LockInv'
    BY <1>0, <1>9, <1>t DEF GetData, sems
<1>11. ASSUME UNCHANGED vars PROVE LockInv'
    BY <1>0, <1>11 DEF vars, sems
<1> QED
    BY <1>1, <1>2, <1>3, <1>5, <1>6, <1>7, <1>8, <1>9, <1>11 DEF Next

\* shmfifo.c:162-184, 258-292: while both processes live, and print nothing under the
\* lock, a process that is past shmfifo_lock() has the lock, and is the only one,
\* though it gives the lock up and sleeps in the middle of its call.
THEOREM OneUnderLock == Spec => []AloneUnderLock
<1>1. LockInv /\ [Next]_vars => LockInv'
    BY StepLock
<1> QED
    BY <1>1, InitLock, AloneFromInv, PTL DEF Spec

-----------------------------------------------------------------------------
\* The offset o steps after the ring's beginning, and the i-th unread byte.
At(o) == IF o < Cap THEN o ELSE o - Cap
B(i) == ring[At(read + i - 1)]

-----------------------------------------------------------------------------
(***************************************************************************)
(* The ring.                                                               *)
(***************************************************************************)
LEMMA RingFacts ==
    ASSUME TypeOK
    PROVE  /\ Cap \in Nat /\ Cap > 0 /\ H \in Nat /\ H > 0
           /\ read \in 0..Cap - 1 /\ write \in 0..Cap - 1
           /\ MemUsed \in 0..Cap - 1 /\ MemFree = Cap - MemUsed
           /\ \A i \in 1..MemUsed : B(i) \in Byte
<1>1. Cap \in Nat /\ Cap > 0 /\ H \in Nat /\ H > 0
    BY SizeAssumption
<1>2. read \in 0..Cap - 1 /\ write \in 0..Cap - 1 /\ ring \in [0..Cap - 1 -> Byte]
    BY DEF TypeOK, Byte
<1>3. MemUsed \in 0..Cap - 1 /\ MemFree = Cap - MemUsed
    BY <1>1, <1>2 DEF MemUsed, MemFree
<1>4. ASSUME NEW i \in 1..MemUsed PROVE B(i) \in Byte
    <2>1. At(read + i - 1) \in 0..Cap - 1
        BY <1>1, <1>2, <1>3 DEF At
    <2> QED
        BY <1>2, <2>1 DEF B
<1> QED
    BY <1>1, <1>2, <1>3, <1>4

\* shmfifo_ll_put() appends bytes for which there is room.
LEMMA PutRing ==
    ASSUME TypeOK, NEW bytes, Len(bytes) \in Nat, Len(bytes) < MemFree, LlPut(bytes),
           read' = read
    PROVE  /\ MemUsed' = MemUsed + Len(bytes)
           /\ \A i \in 1..MemUsed : B(i)' = B(i)
           /\ \A i \in 1..MemUsed' : i > MemUsed => B(i)' = bytes[i - MemUsed]
<1> DEFINE sz == Len(bytes)
           copysz == Smaller(Cap - write, sz)
<1>1. /\ Cap \in Nat /\ Cap > 0 /\ read \in 0..Cap - 1 /\ write \in 0..Cap - 1
      /\ MemUsed \in 0..Cap - 1 /\ MemFree = Cap - MemUsed
    BY RingFacts
<1>2. /\ write' = Advance(write, sz, copysz)
      /\ ring' = [o \in 0..Cap - 1 |->
                    IF o \in write..write + copysz - 1 THEN bytes[o - write + 1]
                    ELSE IF o < sz - copysz THEN bytes[o + copysz + 1]
                    ELSE ring[o]]
    BY <1>1 DEF LlPut, Store
<1>3. /\ sz \in Nat /\ sz < Cap - MemUsed
      /\ copysz = IF Cap - write <= sz THEN Cap - write ELSE sz
    BY <1>1 DEF Smaller
<1> HIDE DEF sz, copysz
<1>4. write' = IF write + sz < Cap THEN write + sz ELSE write + sz - Cap
    BY <1>1, <1>2, <1>3 DEF Advance
<1>5. MemUsed' = MemUsed + sz
    BY <1>1, <1>3, <1>4 DEF MemUsed
<1>6. ASSUME NEW i \in 1..MemUsed PROVE B(i)' = B(i)
    <2> DEFINE o == At(read + i - 1)
    <2>1. /\ o \in 0..Cap - 1 /\ ~(o \in write..write + copysz - 1) /\ ~(o < sz - copysz)
        BY <1>1, <1>3 DEF At, MemUsed
    <2>2. ring'[o] = ring[o]
        BY <1>2, <2>1
    <2> QED
        BY <2>2 DEF B
<1>7. ASSUME NEW i \in 1..MemUsed', i > MemUsed PROVE B(i)' = bytes[i - MemUsed]
    <2> DEFINE o == At(read + i - 1)
               k == i - MemUsed
    <2>1. k \in 1..sz
        BY <1>1, <1>3, <1>5, <1>7
    <2>2. o = IF write + k - 1 < Cap THEN write + k - 1 ELSE write + k - 1 - Cap
        BY <1>1, <1>3, <1>5, <1>7 DEF At, MemUsed
    <2> HIDE DEF o, k
    <2>3. CASE k <= copysz
        <3>1. o \in 0..Cap - 1 /\ o \in write..write + copysz - 1 /\ o - write + 1 = k
            BY <1>1, <1>3, <2>1, <2>2, <2>3
        <3> QED
            BY <1>2, <3>1 DEF B, o, k
    <2>4. CASE k > copysz
        <3>1. /\ o \in 0..Cap - 1 /\ ~(o \in write..write + copysz - 1) /\ o < sz - copysz
              /\ o + copysz + 1 = k
            BY <1>1, <1>3, <2>1, <2>2, <2>4 DEF MemUsed
        <3> QED
            BY <1>2, <3>1 DEF B, o, k
    <2>5. k \in Int /\ copysz \in Int
        BY <1>1, <1>3, <2>1
    <2> QED
        BY <2>3, <2>4, <2>5
<1> QED
    BY <1>5, <1>6, <1>7 DEF sz

\* What is got is the oldest.
LEMMA PeekFacts ==
    ASSUME TypeOK, NEW n \in Nat, n <= MemUsed
    PROVE  \A i \in 1..n : Peek(n)[i] = B(i)
<1>1. /\ Cap \in Nat /\ read \in 0..Cap - 1 /\ write \in 0..Cap - 1
    BY RingFacts
<1>2. TAKE i \in 1..n
<1>3. At(read + i - 1) = IF i <= GetPiece(n) THEN read + i - 1 ELSE i - GetPiece(n) - 1
    BY <1>1 DEF At, GetPiece, Smaller, MemUsed
<1> QED
    BY <1>3 DEF Peek, B

LEMMA GetRing ==
    ASSUME TypeOK, NEW k \in Nat, k <= MemUsed, read' = ReadAfter(k), UNCHANGED <<ring, write>>
    PROVE  /\ MemUsed' = MemUsed - k
           /\ \A i \in 1..MemUsed' : B(i)' = B(i + k)
<1>1. /\ Cap \in Nat /\ Cap > 0 /\ read \in 0..Cap - 1 /\ write \in 0..Cap - 1
      /\ MemUsed \in 0..Cap - 1
    BY RingFacts
<1>2. read' = At(read + k)
    BY <1>1 DEF ReadAfter, Advance, GetPiece, Smaller, MemUsed, At
<1>3. MemUsed' = MemUsed - k
    BY <1>1, <1>2 DEF MemUsed, At
<1>4. ASSUME NEW i \in 1..MemUsed' PROVE B(i)' = B(i + k)
    <2>1. At(read' + i - 1) = At(read + (i + k) - 1)
        BY <1>1, <1>2, <1>3 DEF At, MemUsed
    <2> QED
        BY <2>1 DEF B
<1> QED
    BY <1>3, <1>4

\* A header that is put back leaves everything as it was.
LEMMA RewindFacts ==
    ASSUME TypeOK, H <= MemUsed
    PROVE  Rewound(ReadAfter(H)) = read
BY RingFacts DEF Rewound, ReadAfter, Advance, GetPiece, Smaller, MemUsed

-----------------------------------------------------------------------------
(***************************************************************************)
(* What RecordsAreWhole follows from, stated without going from byte to    *)
(* byte: around each unread byte lie the others of its record, which       *)
(* begins in the ring unless its header has been got, and ends there       *)
(* unless its data are still to be put.                                    *)
(***************************************************************************)
Around(i) ==
    /\ B(i).pos \in 1..H + B(i).rec.sz
    /\ \A j \in 1..MemUsed :
          j - i + B(i).pos \in 1..H + B(i).rec.sz =>
              B(j).rec = B(i).rec /\ B(j).pos = j - i + B(i).pos
Begins(i) ==
    \/ i >= B(i).pos
    \/ pc[Reader] = "get_data" /\ i + H = B(i).pos
Ends(i) ==
    \/ i - B(i).pos + H + B(i).rec.sz <= MemUsed
    \/ pc[Writer] = "put_data" /\ i - B(i).pos + H = MemUsed /\ B(i).rec = rec
GetsData ==
    pc[Reader] = "get_data" => MemUsed > 0 /\ B(1).rec = header /\ B(1).pos = H + 1
PutsData ==
    pc[Writer] = "put_data" =>
        /\ MemFree > rec.sz /\ MemUsed > 0
        /\ \A i \in 1..MemUsed : i = MemUsed => B(i).rec = rec /\ B(i).pos = H

Aligned ==
    /\ \A i \in 1..MemUsed : Around(i) /\ Begins(i) /\ Ends(i)
    /\ GetsData
    /\ PutsData

LEMMA RecordFacts ==
    ASSUME NEW r \in Record
    PROVE  r.sz \in Nat /\ r.sz > 0
<1>1. r.sz \in Nat \ {0}
    BY SizeAssumption DEF Record
<1> QED
    BY <1>1

\* The types of the records of the bytes.
LEMMA ByteFacts ==
    ASSUME TypeOK, NEW i \in 1..MemUsed
    PROVE  B(i).rec \in Record /\ B(i).pos \in Nat /\ B(i).rec.sz \in Nat /\ B(i).rec.sz > 0
<1>1. B(i) \in Byte
    BY RingFacts
<1>2. B(i).rec \in Record /\ B(i).pos \in Nat
    BY <1>1 DEF Byte
<1> QED
    BY <1>2, RecordFacts

LEMMA PutHeaderAligned ==
    ASSUME LockInv, Aligned, PutHeader
    PROVE  Aligned'
<1> DEFINE n == MemUsed
<1>1. /\ TypeOK /\ pc[Writer] = "put_locked" /\ ~NoRoom /\ LlPut(Header(rec))
      /\ UNCHANGED <<read, rec, header>> /\ rec \in Record
      /\ pc' = [pc EXCEPT ![Writer] = "put_data"]
    BY DEF PutHeader, LockInv, Goto, TypeOK
<1>2. pc'[Writer] = "put_data" /\ pc'[Reader] = pc[Reader] /\ pc[Reader] # "get_data"
    BY <1>1, ProcAssumption DEF LockInv, TypeOK, Procs, LockedPlaces
<1>3. /\ H \in Nat /\ H > 0 /\ rec.sz \in Nat /\ rec.sz > 0 /\ Cap \in Nat
      /\ n \in 0..Cap - 1 /\ MemFree = Cap - n /\ MemFree > rec.sz + H
    <2>1. rec.sz \in Nat /\ rec.sz > 0
        BY <1>1, RecordFacts
    <2> QED
        BY <1>1, <2>1, RingFacts DEF NoRoom, Total
<1>4. /\ MemUsed' = n + H
      /\ \A i \in 1..n : B(i)' = B(i)
      /\ \A i \in 1..MemUsed' : i > n => B(i)' = Header(rec)[i - n]
    <2>1. Len(Header(rec)) = H
        BY <1>1, BytesFacts
    <2>2. Len(Header(rec)) \in Nat /\ Len(Header(rec)) < MemFree
        BY <1>3, <2>1
    <2> QED
        BY <1>1, <2>1, <2>2, PutRing
<1>5. \A i \in 1..MemUsed' : i > n => B(i)'.rec = rec /\ B(i)'.pos = i - n
    <2>1. TAKE i \in 1..MemUsed'
    <2>2. HAVE i > n
    <2>3. i - n \in 1..H
        BY <1>3, <1>4, <2>2
    <2>4. Header(rec)[i - n] = [rec |-> rec, pos |-> 1 + (i - n) - 1]
        <3>1. Header(rec) = [k \in 1..H |-> [rec |-> rec, pos |-> 1 + k - 1]]
            BY <1>3 DEF Header, Bytes
        <3> QED
            BY <2>3, <3>1
    <2> QED
        BY <1>4, <2>2, <2>3, <2>4
<1> HIDE DEF n
<1>6. \A i \in 1..n : /\ B(i).pos \in Nat /\ B(i).rec.sz \in Nat
                      /\ B(i).pos \in 1..H + B(i).rec.sz
                      /\ i >= B(i).pos /\ i - B(i).pos + H + B(i).rec.sz <= n
    BY <1>1, <1>2, ByteFacts DEF Aligned, Around, Begins, Ends, n
<1>7. ASSUME NEW i \in 1..MemUsed' PROVE Around(i)' /\ Begins(i)' /\ Ends(i)'
    <2>1. CASE i <= n
        <3>1. i \in 1..n /\ B(i)' = B(i)
            BY <1>3, <1>4, <2>1
        <3>2. Begins(i)' /\ Ends(i)'
            BY <1>3, <1>4, <1>6, <3>1 DEF Begins, Ends
        <3>3. ASSUME NEW j \in 1..MemUsed', j - i + B(i).pos \in 1..H + B(i).rec.sz
              PROVE  B(j)'.rec = B(i).rec /\ B(j)'.pos = j - i + B(i).pos
            <4>1. j \in 1..n
                BY <1>3, <1>4, <1>6, <3>1, <3>3
            <4>2. B(j)' = B(j)
                BY <1>4, <4>1
            <4>3. B(j).rec = B(i).rec /\ B(j).pos = j - i + B(i).pos
                BY <3>1, <3>3, <4>1 DEF Aligned, Around, n
            <4> QED
                BY <4>2, <4>3
        <3> QED
            BY <1>6, <3>1, <3>2, <3>3 DEF Around
    <2>2. CASE i > n
        <3>1. B(i)'.rec = rec /\ B(i)'.pos = i - n /\ i - n \in 1..H
            BY <1>3, <1>4, <1>5, <2>2
        <3>2. Begins(i)' /\ Ends(i)'
            BY <1>1, <1>2, <1>3, <1>4, <3>1 DEF Begins, Ends
        <3>3. ASSUME NEW j \in 1..MemUsed', j - i + (i - n) \in 1..H + rec.sz
              PROVE  B(j)'.rec = rec /\ B(j)'.pos = j - i + (i - n)
            <4>1. j > n /\ j - i + (i - n) = j - n
                BY <1>3, <1>4, <3>3
            <4> QED
                BY <1>5, <4>1
        <3>4. i - n \in 1..H + rec.sz
            BY <1>3, <3>1
        <3> QED
            BY <3>1, <3>2, <3>3, <3>4 DEF Around
    <2> QED
        BY <1>3, <1>4, <2>1, <2>2
<1>8. GetsData'
    BY <1>2 DEF GetsData
<1>9. PutsData'
    <2>1. \A i \in 1..MemUsed' : i = MemUsed' => B(i)'.rec = rec /\ B(i)'.pos = H
        <3>1. TAKE i \in 1..MemUsed'
        <3>2. HAVE i = MemUsed'
        <3>3. i > n /\ i - n = H
            BY <1>3, <1>4, <3>2
        <3> QED
            BY <1>5, <3>3
    <2>2. MemUsed' > 0 /\ MemFree' > rec.sz
        <3>1. MemFree' = Cap - MemUsed'
            <4>1. TypeOK'
                BY <1>1, StepType DEF Next
            <4>2. read' \in 0..Cap - 1 /\ write' \in 0..Cap - 1
                BY <4>1 DEF TypeOK
            <4> QED
                BY <1>3, <4>2 DEF MemFree, MemUsed
        <3> QED
            BY <1>3, <1>4, <3>1
    <2> QED
        BY <1>1, <2>1, <2>2 DEF PutsData
<1> QED
    BY <1>7, <1>8, <1>9 DEF Aligned

LEMMA PutDataAligned ==
    ASSUME LockInv, Aligned, PutData
    PROVE  Aligned'
<1> DEFINE n == MemUsed
           z == rec.sz
<1>1. /\ TypeOK /\ pc[Writer] = "put_data" /\ LlPut(Data(rec))
      /\ UNCHANGED <<read, rec, header>> /\ rec \in Record
      /\ pc' = [pc EXCEPT ![Writer] = "notify"]
    BY DEF PutData, LockInv, Goto, TypeOK
<1>2. pc'[Writer] = "notify" /\ pc'[Reader] = pc[Reader] /\ pc[Reader] # "get_data"
    BY <1>1, ProcAssumption DEF LockInv, TypeOK, Procs, LockedPlaces
<1>3. /\ H \in Nat /\ H > 0 /\ z \in Nat /\ z > 0 /\ Cap \in Nat
      /\ n \in 1..Cap - 1 /\ MemFree = Cap - n /\ MemFree > z
    <2>1. z \in Nat /\ z > 0
        BY <1>1, RecordFacts
    <2> QED
        BY <1>1, <2>1, RingFacts DEF Aligned, PutsData
<1>4. /\ MemUsed' = n + z
      /\ \A i \in 1..n : B(i)' = B(i)
      /\ \A i \in 1..MemUsed' : i > n => B(i)' = Data(rec)[i - n]
    <2>1. Len(Data(rec)) = z
        BY <1>1, BytesFacts
    <2>2. Len(Data(rec)) \in Nat /\ Len(Data(rec)) < MemFree
        BY <1>3, <2>1
    <2> QED
        BY <1>1, <2>1, <2>2, PutRing
<1>5. \A i \in 1..MemUsed' : i > n => B(i)'.rec = rec /\ B(i)'.pos = i - n + H
    <2>1. TAKE i \in 1..MemUsed'
    <2>2. HAVE i > n
    <2>3. i - n \in 1..z
        BY <1>3, <1>4, <2>2
    <2>4. Data(rec)[i - n] = [rec |-> rec, pos |-> (H + 1) + (i - n) - 1]
        <3>1. Data(rec) = [k \in 1..z |-> [rec |-> rec, pos |-> (H + 1) + k - 1]]
            BY <1>3 DEF Data, Bytes
        <3> QED
            BY <2>3, <3>1
    <2>5. (H + 1) + (i - n) - 1 = i - n + H
        BY <1>3, <2>3
    <2> QED
        BY <1>4, <2>2, <2>4, <2>5
<1>6. \A i \in 1..n : i = n => B(i).rec = rec /\ B(i).pos = H
    BY <1>1 DEF Aligned, PutsData
<1>7. \A i \in 1..n : /\ B(i).pos \in Nat /\ B(i).rec.sz \in Nat
                      /\ B(i).pos \in 1..H + B(i).rec.sz
                      /\ i >= B(i).pos
                      /\ \/ i - B(i).pos + H + B(i).rec.sz <= n
                         \/ i - B(i).pos + H = n /\ B(i).rec = rec
    BY <1>1, <1>2, ByteFacts DEF Aligned, Around, Begins, Ends
<1>8. \A i, j \in 1..n : j - i + B(i).pos \in 1..H + B(i).rec.sz =>
            B(j).rec = B(i).rec /\ B(j).pos = j - i + B(i).pos
    BY DEF Aligned, Around
<1> HIDE DEF n
<1>9. ASSUME NEW i \in 1..MemUsed' PROVE Around(i)' /\ Begins(i)' /\ Ends(i)'
    <2>1. CASE i <= n
        <3>1. i \in 1..n /\ B(i)' = B(i)
            BY <1>3, <1>4, <2>1
        <3>2. Begins(i)'
            BY <1>7, <3>1 DEF Begins
        <3>3. Ends(i)'
            <4>1. i - B(i).pos + H + B(i).rec.sz <= n + z
                BY <1>3, <1>7, <3>1
            <4> QED
                BY <1>4, <3>1, <4>1 DEF Ends
        <3>4. ASSUME NEW j \in 1..MemUsed', j - i + B(i).pos \in 1..H + B(i).rec.sz
              PROVE  B(j)'.rec = B(i).rec /\ B(j)'.pos = j - i + B(i).pos
            <4>1. CASE j <= n
                <5>1. j \in 1..n
                    BY <1>3, <4>1
                <5> QED
                    BY <1>4, <1>8, <3>1, <3>4, <5>1
            <4>2. CASE j > n
                <5>1. i - B(i).pos + H = n /\ B(i).rec = rec
                    BY <1>3, <1>7, <3>1, <3>4, <4>2
                <5>2. j - i + B(i).pos = j - n + H
                    <6>1. B(i).pos \in Nat /\ i \in Nat /\ j \in Nat /\ n \in Nat
                        BY <1>3, <1>4, <1>7, <3>1
                    <6> QED
                        BY <1>3, <5>1, <6>1
                <5> QED
                    BY <1>5, <4>2, <5>1, <5>2
            <4> QED
                BY <1>3, <1>4, <4>1, <4>2
        <3> QED
            BY <1>7, <3>1, <3>2, <3>3, <3>4 DEF Around
    <2>2. CASE i > n
        <3>1. B(i)'.rec = rec /\ B(i)'.pos = i - n + H /\ i - n \in 1..z
            BY <1>3, <1>4, <1>5, <2>2
        <3>2. n \in 1..n /\ H <= n
            BY <1>3, <1>6, <1>7
        <3>3. Begins(i)' /\ Ends(i)'
            BY <1>1, <1>3, <1>4, <3>1, <3>2 DEF Begins, Ends
        <3>4. ASSUME NEW j \in 1..MemUsed', j - i + (i - n + H) \in 1..H + z
              PROVE  B(j)'.rec = rec /\ B(j)'.pos = j - i + (i - n + H)
            <4>1. j - i + (i - n + H) = j - n + H
                BY <1>3, <1>4
            <4>2. CASE j <= n
                <5>1. j \in 1..n /\ j - n + H \in 1..H + z
                    BY <1>3, <3>4, <4>1, <4>2
                <5>2. B(n).rec = rec /\ B(n).pos = H
                    BY <1>6, <3>2
                <5>3. j - n + B(n).pos \in 1..H + B(n).rec.sz
                    BY <5>1, <5>2
                <5>4. B(j).rec = B(n).rec /\ B(j).pos = j - n + B(n).pos
                    BY <1>8, <3>2, <5>1, <5>3
                <5>5. B(j).rec = rec /\ B(j).pos = j - n + H
                    BY <5>2, <5>4
                <5> QED
                    BY <1>4, <4>1, <5>1, <5>5
            <4>3. CASE j > n
                BY <1>5, <4>1, <4>3
            <4> QED
                BY <1>3, <1>4, <4>2, <4>3
        <3>5. i - n + H \in 1..H + z
            BY <1>3, <3>1
        <3> QED
            BY <3>1, <3>3, <3>4, <3>5 DEF Around
    <2> QED
        BY <1>3, <1>4, <2>1, <2>2
<1>10. GetsData' /\ PutsData'
    BY <1>2 DEF GetsData, PutsData
<1> QED
    BY <1>9, <1>10 DEF Aligned

\* Steps that leave the ring alone.
LEMMA KeptAligned ==
    ASSUME Aligned, UNCHANGED <<ring, read, write>>,
           pc'[Writer] = "put_data" <=> pc[Writer] = "put_data",
           pc'[Reader] = "get_data" <=> pc[Reader] = "get_data",
           pc[Writer] = "put_data" => rec' = rec,
           pc[Reader] = "get_data" => header' = header
    PROVE  Aligned'
<1>1. MemUsed' = MemUsed /\ MemFree' = MemFree /\ \A i : B(i)' = B(i)
    BY DEF MemUsed, MemFree, B
<1>2. \A i \in 1..MemUsed : Around(i)' /\ Begins(i)' /\ Ends(i)'
    BY <1>1 DEF Aligned, Around, Begins, Ends
<1>3. GetsData' /\ PutsData'
    <2>1. B(1)' = B(1)
        BY <1>1
    <2> QED
        BY <1>1, <2>1 DEF Aligned, GetsData, PutsData
<1> QED
    BY <1>1, <1>2, <1>3 DEF Aligned

\* What is there to be got is a record.
LEMMA HeaderFacts ==
    ASSUME LockInv, Aligned, pc[Reader] = "get_locked", MemUsed >= H
    PROVE  /\ Peek(1)[1].rec = B(1).rec /\ B(1).pos = 1 /\ B(1).rec \in Record
           /\ H + B(1).rec.sz <= MemUsed
           /\ NextIsHeader /\ DataFollows
<1> DEFINE r == B(1).rec
<1>1. TypeOK /\ pc[Writer] # "put_data"
    BY ProcAssumption DEF LockInv, LockedPlaces
<1>2. H \in Nat /\ H > 0 /\ MemUsed \in Nat /\ 1 \in 1..MemUsed
    BY <1>1, RingFacts
<1>3. r \in Record /\ r.sz \in Nat /\ B(1).pos \in Nat
    BY <1>1, <1>2, ByteFacts
<1>4. Around(1) /\ Begins(1) /\ Ends(1)
    BY <1>2 DEF Aligned
<1>5. B(1).pos = 1
    BY <1>2, <1>3, <1>4 DEF Around, Begins
<1>6. H + r.sz <= MemUsed
    BY <1>1, <1>2, <1>3, <1>4, <1>5 DEF Ends
<1>7. Peek(1)[1] = B(1)
    BY <1>1, <1>2, PeekFacts
<1>8. \A i \in 1..H : Peek(H)[i] = [rec |-> r, pos |-> i]
    <2>1. TAKE i \in 1..H
    <2>2. i \in 1..MemUsed /\ i - 1 + 1 = i /\ i \in 1..H + r.sz
        BY <1>2, <1>3
    <2>3. B(i).rec = r /\ B(i).pos = i
        BY <1>4, <1>5, <2>2 DEF Around
    <2>4. B(i) \in Byte
        BY <1>1, <2>2, RingFacts
    <2>5. B(i) = [rec |-> r, pos |-> i]
        BY <2>3, <2>4 DEF Byte
    <2>6. Peek(H)[i] = B(i)
        BY <1>1, <1>2, PeekFacts
    <2> QED
        BY <2>5, <2>6
<1>9. Peek(H) = Header(r)
    <2>1. Header(r) = [i \in 1..H |-> [rec |-> r, pos |-> 1 + i - 1]]
        BY <1>2 DEF Header, Bytes
    <2>2. \A i \in 1..H : 1 + i - 1 = i
        BY <1>2
    <2>3. Peek(H) = [i \in 1..H |-> Peek(H)[i]]
        BY DEF Peek
    <2>4. \A i \in 1..H : Peek(H)[i] = [rec |-> r, pos |-> 1 + i - 1]
        BY <1>8, <2>2
    <2>5. [i \in 1..H |-> Peek(H)[i]] = [i \in 1..H |-> [rec |-> r, pos |-> 1 + i - 1]]
        BY <2>4
    <2> QED
        BY <2>1, <2>3, <2>5
<1>10. NextIsHeader /\ DataFollows
    BY <1>6, <1>7, <1>9 DEF NextIsHeader, DataFollows
<1> QED
    BY <1>3, <1>5, <1>6, <1>7, <1>10

\* A header that is got is consumed, or put back.
LEMMA GetHeaderSteps ==
    ASSUME LockInv, Aligned, GetHeader
    PROVE  \/ /\ read' = read /\ pc' = [pc EXCEPT ![Reader] = "unlock"]
           \/ /\ read' = ReadAfter(H) /\ pc' = [pc EXCEPT ![Reader] = "get_data"]
              /\ header' = B(1).rec
<1>1. pc[Reader] = "get_locked" /\ MemUsed >= H /\ TypeOK
    BY DEF GetHeader, LockInv
<1>2. NextIsHeader /\ DataFollows /\ Peek(1)[1].rec = B(1).rec
    BY <1>1, HeaderFacts
<1>3. Rewound(ReadAfter(H)) = read
    BY <1>1, RingFacts, RewindFacts
<1> QED
    BY <1>2, <1>3 DEF GetHeader, Goto

LEMMA GetHeaderAligned ==
    ASSUME LockInv, Aligned, GetHeader
    PROVE  Aligned'
<1> DEFINE n == MemUsed
<1>1. /\ TypeOK /\ pc[Reader] = "get_locked" /\ n >= H /\ UNCHANGED <<ring, write, rec>>
      /\ pc[Writer] # "put_data"
    BY ProcAssumption DEF GetHeader, LockInv, LockedPlaces
<1>2. /\ H \in Nat /\ H > 0 /\ n \in Nat
      /\ B(1).pos = 1 /\ H + B(1).rec.sz <= n /\ B(1).rec \in Record
    BY <1>1, RingFacts, HeaderFacts
<1>3. CASE read' = read /\ pc' = [pc EXCEPT ![Reader] = "unlock"]
    <2>1. pc'[Writer] = pc[Writer] /\ pc'[Reader] = "unlock"
        BY <1>1, <1>3, ProcAssumption DEF TypeOK, Procs
    <2> QED
        BY <1>1, <1>3, <2>1, KeptAligned
<1>4. CASE /\ read' = ReadAfter(H) /\ pc' = [pc EXCEPT ![Reader] = "get_data"]
           /\ header' = B(1).rec
    <2>1. pc'[Writer] = pc[Writer] /\ pc'[Reader] = "get_data"
        BY <1>1, <1>4, ProcAssumption DEF TypeOK, Procs
    <2>2. MemUsed' = n - H /\ \A i \in 1..MemUsed' : B(i)' = B(i + H)
        BY <1>1, <1>2, <1>4, GetRing
    <2>3. \A i \in 1..n : /\ B(i).pos \in Nat /\ B(i).rec.sz \in Nat
                          /\ B(i).pos \in 1..H + B(i).rec.sz
                          /\ i >= B(i).pos /\ i - B(i).pos + H + B(i).rec.sz <= n
        BY <1>1, ByteFacts DEF Aligned, Around, Begins, Ends
    <2>4. \A i, j \in 1..n : j - i + B(i).pos \in 1..H + B(i).rec.sz =>
                B(j).rec = B(i).rec /\ B(j).pos = j - i + B(i).pos
        BY DEF Aligned, Around
    <2>5. B(1).rec.sz \in Nat /\ B(1).rec.sz > 0
        BY <1>2, RecordFacts
    <2>6. \A j \in 1..n : j \in 1..H + B(1).rec.sz => B(j).rec = B(1).rec /\ B(j).pos = j
        <3>1. TAKE j \in 1..n
        <3>2. 1 \in 1..n /\ j - 1 + 1 = j
            BY <1>2
        <3> QED
            BY <1>2, <2>4, <3>2
    <2> HIDE DEF n
    <2>7. ASSUME NEW i \in 1..MemUsed' PROVE Around(i)' /\ Begins(i)' /\ Ends(i)'
        <3> DEFINE m == i + H
        <3>1. m \in 1..n /\ B(i)' = B(m) /\ i \in Nat
            BY <1>2, <2>2
        <3>2. /\ B(m).pos \in Nat /\ B(m).rec.sz \in Nat
              /\ B(m).pos \in 1..H + B(m).rec.sz
              /\ m >= B(m).pos /\ m - B(m).pos + H + B(m).rec.sz <= n
            BY <2>3, <3>1
        <3>3. ASSUME NEW j \in 1..MemUsed', j - i + B(m).pos \in 1..H + B(m).rec.sz
              PROVE  B(j)'.rec = B(m).rec /\ B(j)'.pos = j - i + B(m).pos
            <4>1. j + H \in 1..n /\ B(j)' = B(j + H) /\ (j + H) - m = j - i
                BY <1>2, <2>2, <3>1
            <4> QED
                BY <2>4, <3>1, <3>3, <4>1
        <3>4. i >= B(m).pos \/ i + H = B(m).pos
            <4> DEFINE s == m - B(m).pos + 1
            <4>1. SUFFICES ASSUME s \in 2..H PROVE FALSE
                BY <1>2, <3>1, <3>2
            <4>2. s \in 1..n /\ s - m + B(m).pos = 1 /\ 1 \in 1..H + B(m).rec.sz
                BY <1>1, <1>2, <3>1, <3>2, <4>1
            <4>3. B(s).pos = 1
                BY <2>4, <3>1, <4>2
            <4>4. s \in 1..H + B(1).rec.sz
                BY <1>2, <2>5, <4>1
            <4>5. B(s).pos = s
                BY <2>6, <4>2, <4>4
            <4> QED
                BY <4>1, <4>3, <4>5
        <3>5. i - B(m).pos + H + B(m).rec.sz <= n - H
            BY <1>2, <3>1, <3>2
        <3> QED
            BY <2>1, <2>2, <3>1, <3>2, <3>3, <3>4, <3>5 DEF Around, Begins, Ends
    <2>8. GetsData'
        <3>1. MemUsed' > 0 /\ 1 \in 1..MemUsed' /\ B(1)' = B(1 + H)
            BY <1>2, <2>2, <2>5
        <3>2. B(1 + H).rec = B(1).rec /\ B(1 + H).pos = 1 + H
            BY <1>2, <2>5, <2>6
        <3>3. 1 + H = H + 1
            BY <1>2
        <3> QED
            BY <1>4, <3>1, <3>2, <3>3 DEF GetsData
    <2>9. PutsData'
        BY <1>1, <2>1 DEF PutsData
    <2> QED
        BY <2>7, <2>8, <2>9 DEF Aligned
<1> QED
    BY <1>3, <1>4, GetHeaderSteps

LEMMA GetDataAligned ==
    ASSUME LockInv, Aligned, GetData
    PROVE  Aligned'
<1> DEFINE n == MemUsed
           z == header.sz
<1>1. /\ TypeOK /\ pc[Reader] = "get_data" /\ UNCHANGED <<ring, write, rec, header>>
      /\ pc[Writer] # "put_data"
    BY ProcAssumption DEF GetData, LockInv, LockedPlaces
<1>2. /\ H \in Nat /\ H > 0 /\ n \in Nat /\ n > 0 /\ z \in Nat /\ z > 0
      /\ B(1).rec = header /\ B(1).pos = H + 1
    <2>1. z \in Nat /\ z > 0
        BY <1>1, RecordFacts DEF TypeOK
    <2> QED
        BY <1>1, <2>1, RingFacts DEF Aligned, GetsData
<1>3. \A i \in 1..n : /\ B(i).pos \in Nat /\ B(i).rec.sz \in Nat /\ B(i).rec.sz > 0
                      /\ B(i).pos \in 1..H + B(i).rec.sz
                      /\ i >= B(i).pos \/ i + H = B(i).pos
                      /\ i - B(i).pos + H + B(i).rec.sz <= n
    BY <1>1, ByteFacts DEF Aligned, Around, Begins, Ends
<1>4. \A i, j \in 1..n : j - i + B(i).pos \in 1..H + B(i).rec.sz =>
            B(j).rec = B(i).rec /\ B(j).pos = j - i + B(i).pos
    BY DEF Aligned, Around
<1>5. z <= n
    <2>1. 1 \in 1..n /\ 1 - (H + 1) + H + z = z
        BY <1>2
    <2> QED
        BY <1>2, <1>3, <2>1
<1>6. /\ read' = ReadAfter(z)
      /\ pc'[Writer] = pc[Writer] /\ pc'[Reader] # "get_data"
    BY <1>1, <1>5, ProcAssumption DEF GetData, Goto, TypeOK, Procs
<1>7. MemUsed' = n - z /\ \A i \in 1..MemUsed' : B(i)' = B(i + z)
    BY <1>1, <1>2, <1>5, <1>6, GetRing
<1>8. \A j \in 1..n : j <= z => B(j).rec = header /\ B(j).pos = j + H
    <2>1. TAKE j \in 1..n
    <2>2. HAVE j <= z
    <2>3. 1 \in 1..n /\ j - 1 + (H + 1) = j + H /\ j + H \in 1..H + z
        BY <1>2, <2>2
    <2> QED
        BY <1>2, <1>4, <2>3
<1> HIDE DEF n, z
<1>9. ASSUME NEW i \in 1..MemUsed' PROVE Around(i)' /\ Begins(i)' /\ Ends(i)'
    <2> DEFINE m == i + z
    <2>1. m \in 1..n /\ B(i)' = B(m) /\ i \in Nat /\ i > 0
        BY <1>2, <1>7
    <2>2. /\ B(m).pos \in Nat /\ B(m).rec.sz \in Nat /\ B(m).rec.sz > 0
          /\ B(m).pos \in 1..H + B(m).rec.sz
          /\ m >= B(m).pos \/ m + H = B(m).pos
          /\ m - B(m).pos + H + B(m).rec.sz <= n
        BY <1>3, <2>1
    <2>3. ASSUME NEW j \in 1..MemUsed', j - i + B(m).pos \in 1..H + B(m).rec.sz
          PROVE  B(j)'.rec = B(m).rec /\ B(j)'.pos = j - i + B(m).pos
        <3>1. j + z \in 1..n /\ B(j)' = B(j + z) /\ (j + z) - m = j - i
            BY <1>2, <1>7, <2>1
        <3> QED
            BY <1>4, <2>1, <2>3, <3>1
    <2>4. m >= B(m).pos
        <3>1. SUFFICES ASSUME m + H = B(m).pos PROVE FALSE
            BY <2>2
        <3>2. 1 \in 1..n /\ 1 - m + B(m).pos = 1 + H /\ 1 + H \in 1..H + B(m).rec.sz
            BY <1>2, <2>1, <2>2, <3>1
        <3>3. B(1).rec = B(m).rec
            BY <1>4, <2>1, <3>2
        <3>4. B(m).rec.sz = z
            BY <1>2, <3>3 DEF z
        <3> QED
            BY <1>2, <2>1, <2>2, <3>1, <3>4
    <2>5. i >= B(m).pos
        <3> DEFINE s == m - B(m).pos + 1
        <3>1. SUFFICES ASSUME s \in 1..z PROVE FALSE
            BY <1>2, <2>1, <2>2, <2>4
        <3>2. s \in 1..n /\ s - m + B(m).pos = 1 /\ 1 \in 1..H + B(m).rec.sz
            BY <1>2, <1>5, <2>1, <2>2, <3>1 DEF n, z
        <3>3. B(s).pos = 1
            BY <1>4, <2>1, <3>2
        <3>4. B(s).pos = s + H
            BY <1>8, <3>1, <3>2
        <3> QED
            BY <1>2, <3>1, <3>3, <3>4
    <2>6. i - B(m).pos + H + B(m).rec.sz <= n - z
        BY <1>2, <2>1, <2>2
    <2> QED
        BY <1>6, <1>7, <2>1, <2>2, <2>3, <2>5, <2>6 DEF Around, Begins, Ends
<1>10. GetsData' /\ PutsData'
    BY <1>1, <1>6 DEF GetsData, PutsData
<1> QED
    BY <1>9, <1>10 DEF Aligned

LEMMA StepAligned ==
    ASSUME LockInv, Aligned, [Next]_vars
    PROVE  Aligned'
<1>1. CASE PutHeader
    BY <1>1, PutHeaderAligned
<1>2. CASE PutData
    BY <1>2, PutDataAligned
<1>3. CASE GetHeader
    BY <1>3, GetHeaderAligned
<1>4. CASE GetData
    BY <1>4, GetDataAligned
<1> USE ProcAssumption DEF LockInv, TypeOK, Procs, Goto, queue, WriterPlaces, ReaderPlaces
<1>t. pc = [p \in {Writer, Reader} |-> pc[p]]
    BY Zenon
<1>5. ASSUME NEW p \in Procs, Lock(p) \/ Wake(p) \/ Unlock(p) PROVE Aligned'
    BY <1>5, <1>t, KeptAligned DEF Lock, Wake, Unlock
<1>6. ASSUME NEW r \in Record, PutCall(r) PROVE Aligned'
    BY <1>6, <1>t, KeptAligned DEF PutCall
<1>7. CASE PutTooBig \/ PutWaits \/ PutNotifies
    BY <1>7, <1>t, KeptAligned DEF PutTooBig, PutWaits, PutNotifies, Wait
<1>8. CASE GetCall \/ GetWaits \/ GetNotifies
    BY <1>8, <1>t, KeptAligned DEF GetCall, GetWaits, GetNotifies, Wait
<1>11. CASE UNCHANGED vars
    BY <1>11, KeptAligned DEF vars
<1> QED
    BY <1>1, <1>2, <1>3, <1>4, <1>5, <1>6, <1>7, <1>8, <1>11 DEF Next

LEMMA InitAligned == Init => Aligned
<1> SUFFICES ASSUME Init PROVE Aligned
    OBVIOUS
<1>1. MemUsed = 0 /\ \A p \in Procs : pc[p] = "idle"
    BY SizeAssumption DEF Init, MemUsed
<1> QED
    BY <1>1 DEF Aligned, GetsData, PutsData, Procs

\* Aligned says of each byte and those around it what RecordsAreWhole says of each
\* byte and the next.
LEMMA RecordsFromAligned ==
    ASSUME LockInv, Aligned
    PROVE  RecordsAreWhole
<1> DEFINE n == MemUsed
<1>1. TypeOK /\ H \in Nat /\ H > 0 /\ n \in Nat /\ rec \in Record
    BY RingFacts DEF LockInv, TypeOK
<1>2. \A i \in 1..n : Unread[i] = B(i)
    BY <1>1, PeekFacts DEF Unread
<1>3. pc[Writer] = "put_data" => pc[Reader] # "get_data"
    BY ProcAssumption DEF LockInv, LockedPlaces
<1>4. n > 0 => B(1).pos = IF pc[Reader] = "get_data" THEN H + 1 ELSE 1
    <2>1. CASE pc[Reader] = "get_data"
        BY <2>1 DEF Aligned, GetsData
    <2>2. ASSUME n > 0, pc[Reader] # "get_data" PROVE B(1).pos = 1
        <3>1. 1 \in 1..n
            BY <1>1, <2>2
        <3>2. B(1).pos \in Nat /\ B(1).rec.sz \in Nat
            BY <1>1, <3>1, ByteFacts
        <3>3. B(1).pos \in 1..H + B(1).rec.sz /\ 1 >= B(1).pos
            BY <2>2, <3>1 DEF Aligned, Around, Begins
        <3> QED
            BY <1>1, <3>2, <3>3
    <2> QED
        BY <2>1, <2>2
<1>5. ASSUME NEW i \in 1..n
      PROVE  LET last == B(i).pos = IF i = n /\ pc[Writer] = "put_data" THEN H
                                                           ELSE H + B(i).rec.sz
             IN  IF i = n THEN last
                 ELSE B(i + 1) = IF B(i).pos = H + B(i).rec.sz
                                 THEN [rec |-> B(i + 1).rec, pos |-> 1]
                                 ELSE [B(i) EXCEPT !.pos = @ + 1]
    <2>1. /\ B(i) \in Byte /\ B(i).pos \in Nat /\ B(i).rec.sz \in Nat /\ B(i).rec.sz > 0
          /\ B(i).pos \in 1..H + B(i).rec.sz
        BY <1>1, ByteFacts, RingFacts DEF Aligned, Around
    <2>2. Begins(i) /\ Ends(i)
        BY DEF Aligned
    <2>3. ASSUME i = n, pc[Writer] = "put_data" PROVE B(i).pos = H
        BY <2>3 DEF Aligned, PutsData
    <2>4. ASSUME i = n, pc[Writer] # "put_data" PROVE B(i).pos = H + B(i).rec.sz
        BY <1>1, <2>1, <2>2, <2>4 DEF Ends
    <2>5. ASSUME i # n, B(i).pos # H + B(i).rec.sz
          PROVE  B(i + 1) = [B(i) EXCEPT !.pos = @ + 1]
        <3>1. i + 1 \in 1..n /\ (i + 1) - i + B(i).pos = B(i).pos + 1
            BY <1>1, <2>1, <2>5
        <3>2. B(i).pos + 1 \in 1..H + B(i).rec.sz
            BY <1>1, <2>1, <2>5
        <3>3. B(i + 1).rec = B(i).rec /\ B(i + 1).pos = B(i).pos + 1
            BY <3>1, <3>2 DEF Aligned, Around
        <3>4. B(i + 1) \in Byte
            BY <1>1, <3>1, RingFacts
        <3> QED
            BY <2>1, <3>3, <3>4 DEF Byte
    <2>6. ASSUME i # n, B(i).pos = H + B(i).rec.sz
          PROVE  B(i + 1) = [rec |-> B(i + 1).rec, pos |-> 1]
        <3> DEFINE k == i + 1
        <3>1. k \in 1..n /\ i - k = -1 /\ k \in Nat
            BY <1>1, <2>6
        <3>2. /\ B(k) \in Byte /\ B(k).pos \in Nat /\ B(k).rec.sz \in Nat
              /\ B(k).pos \in 1..H + B(k).rec.sz
            BY <1>1, <3>1, ByteFacts, RingFacts DEF Aligned, Around
        <3>3. B(k).pos = 1
            <4>1. SUFFICES ASSUME B(k).pos # 1 PROVE FALSE
                OBVIOUS
            <4>2. i - k + B(k).pos = B(k).pos - 1
                BY <3>1, <3>2
            <4>3. B(k).pos - 1 \in 1..H + B(k).rec.sz
                BY <1>1, <3>2, <4>1
            <4>4. B(i).rec = B(k).rec /\ B(i).pos = B(k).pos - 1
                BY <3>1, <4>2, <4>3 DEF Aligned, Around
            <4> QED
                BY <1>1, <2>6, <3>2, <4>4
        <3> HIDE DEF k
        <3>4. B(k) = [rec |-> B(k).rec, pos |-> 1]
            BY <3>2, <3>3 DEF Byte
        <3> QED
            BY <3>4 DEF k
    <2> QED
        BY <2>3, <2>4, <2>5, <2>6
<1>6. n > 0 => 1 \in 1..n
    BY <1>1
<1>7. \A i \in 1..n : i # n => i + 1 \in 1..n
    BY <1>1
<1>8. n > 0 => Unread[1].pos = IF pc[Reader] = "get_data" THEN H + 1 ELSE 1
    BY <1>2, <1>4, <1>6
<1>9. ASSUME NEW i \in 1..n
      PROVE  LET b == Unread[i]
                 last == b.pos = IF i = n /\ pc[Writer] = "put_data" THEN H
                                                                     ELSE H + b.rec.sz
             IN  IF i = n THEN last
                 ELSE Unread[i + 1] = IF b.pos = H + b.rec.sz
                                      THEN [rec |-> Unread[i + 1].rec, pos |-> 1]
                                      ELSE [b EXCEPT !.pos = @ + 1]
    <2>1. Unread[i] = B(i) /\ (i # n => Unread[i + 1] = B(i + 1))
        BY <1>2, <1>7
    <2> QED
        BY <1>5, <2>1
<1> QED
    BY <1>8, <1>9 DEF RecordsAreWhole

\* shmfifo.c:297-396, 960-1130: while both processes live, and print nothing
\* under the lock, the ring holds whole records, each header before its data, with
\* every way in which headers and data run over its end and headers are put back.
THEOREM RecordsStayWhole == Spec => []RecordsAreWhole
<1>1. LockInv /\ [Next]_vars => LockInv'
    BY StepLock
<1>2. LockInv /\ Aligned /\ [Next]_vars => Aligned'
    BY StepAligned
<1>3. LockInv /\ Aligned => RecordsAreWhole
    BY RecordsFromAligned
<1> QED
    BY <1>1, <1>2, <1>3, InitLock, InitAligned, PTL DEF Spec

-----------------------------------------------------------------------------
(***************************************************************************)
(* Notifications.  SleepersHaveReason is inductive, given the lock and the *)
(* records.                                                                *)
(***************************************************************************)
ReaderHasReason ==
    pc[Reader] = "get_asleep" /\ notice[Reader] = 0 =>
        MemUsed = 0 \/ pc[Writer] \in {"put_data", "notify"}
WriterHasReason ==
    pc[Writer] = "put_asleep" /\ notice[Writer] = 0 =>
        NoRoom \/ pc[Reader] \in {"get_data", "notify"}

LEMMA StepReason ==
    ASSUME LockInv, Aligned, ReaderHasReason, WriterHasReason, [Next]_vars
    PROVE  ReaderHasReason' /\ WriterHasReason'
<1> DEFINE Goal == ReaderHasReason' /\ WriterHasReason'
<1> USE ProcAssumption DEF LockInv, TypeOK, Procs, Goto, WriterPlaces, ReaderPlaces,
                           LockedPlaces, ReaderHasReason, WriterHasReason
<1>t. /\ pc = [p \in {Writer, Reader} |-> pc[p]] /\ notice = [p \in {Writer, Reader} |-> notice[p]]
      /\ Writer # Reader
    BY Zenon
<1>s. UNCHANGED queue => MemUsed' = MemUsed /\ (UNCHANGED rec => (NoRoom' <=> NoRoom))
    BY DEF queue, MemUsed, NoRoom, MemFree, Total
<1>1. ASSUME NEW p \in Procs, Lock(p) \/ Wake(p) PROVE Goal
    BY <1>1, <1>s, <1>t DEF Lock, Wake
<1>2. ASSUME NEW p \in Procs, Unlock(p) PROVE Goal
    BY <1>2, <1>s, <1>t DEF Unlock
<1>3. ASSUME NEW r \in Record, PutCall(r) PROVE Goal
    BY <1>3, <1>s, <1>t DEF PutCall, sems
<1>4. CASE PutTooBig
    BY <1>4, <1>s, <1>t DEF PutTooBig, sems
<1>5. CASE PutWaits
    BY <1>5, <1>s, <1>t DEF PutWaits, Wait
<1>6. CASE PutHeader \/ PutData
    BY <1>6, <1>t DEF PutHeader, PutData, sems
<1>7. CASE PutNotifies
    <2>1. HasLock(Writer)
        BY <1>7 DEF PutNotifies, HasLock
    <2> QED
        BY <1>7, <1>s, <1>t, <2>1 DEF PutNotifies
<1>8. CASE GetCall
    BY <1>8, <1>s, <1>t DEF GetCall, sems
<1>9. CASE GetWaits
    <2>1. CASE MemUsed = 0
        BY <1>9, <1>s, <1>t, <2>1 DEF GetWaits, Wait
    <2>2. CASE MemUsed # 0
        BY <1>9, <1>s, <1>t, <2>2 DEF GetWaits, sems
    <2> QED
        BY <2>1, <2>2
<1>10. CASE GetHeader
    <2>1. /\ pc[Reader] = "get_locked" /\ UNCHANGED <<ring, write, rec, notice>>
        BY <1>10 DEF GetHeader, sems
    <2>2. CASE read' = read /\ pc' = [pc EXCEPT ![Reader] = "unlock"]
        BY <1>s, <1>t, <2>1, <2>2 DEF queue
    <2>3. CASE pc' = [pc EXCEPT ![Reader] = "get_data"]
        BY <1>t, <2>1, <2>3
    <2> QED
        BY <1>10, <2>2, <2>3, GetHeaderSteps
<1>11. CASE GetData
    BY <1>11, <1>t DEF GetData, sems
<1>12. CASE GetNotifies
    <2>1. HasLock(Reader)
        BY <1>12 DEF GetNotifies, HasLock
    <2> QED
        BY <1>12, <1>s, <1>t, <2>1 DEF GetNotifies
<1>15. CASE UNCHANGED vars
    BY <1>15, <1>s DEF vars, sems
<1> QED
    BY <1>1, <1>2, <1>3, <1>4, <1>5, <1>6, <1>7, <1>8, <1>9, <1>10, <1>11, <1>12, <1>15 DEF Next

\* shmfifo.c:444-475, 537-597, 960-1130: while both processes live, and print
\* nothing under the lock, neither process sleeps through what it waits for: a
\* notification given while the other one is between its unlock and its sleep is
\* kept by the semaphore.
THEOREM NoNotificationLost == Spec => []SleepersHaveReason
<1>1. LockInv /\ [Next]_vars => LockInv'
    BY StepLock
<1>2. LockInv /\ Aligned /\ [Next]_vars => Aligned'
    BY StepAligned
<1>3. LockInv /\ Aligned /\ ReaderHasReason /\ WriterHasReason /\ [Next]_vars =>
          ReaderHasReason' /\ WriterHasReason'
    BY StepReason
<1>4. Init => ReaderHasReason /\ WriterHasReason
    BY DEF Init, ReaderHasReason, WriterHasReason, Procs
<1>5. ReaderHasReason /\ WriterHasReason => SleepersHaveReason
    BY DEF ReaderHasReason, WriterHasReason, SleepersHaveReason
<1> QED
    BY <1>1, <1>2, <1>3, <1>4, <1>5, InitLock, InitAligned, PTL DEF Spec

-----------------------------------------------------------------------------
(***************************************************************************)
(* The queue of records: what the recursive function in RecordsIn computes. *)
(* Induction over numbers goes by the least one of a set.                  *)
(***************************************************************************)
LEMMA NumbersUpTo ==
    ASSUME NEW limit \in Nat, NEW S, 0 \in S,
           \A n \in Nat : n < limit /\ n \in S => n + 1 \in S
    PROVE  \A n \in 0..limit : n \in S
<1> DEFINE T == (0..limit) \ S
           R == OpToRel(<, Nat)
<1>1. SUFFICES ASSUME T # {} PROVE FALSE
    OBVIOUS
<1>2. T \in SUBSET Nat
    OBVIOUS
<1>3. IsWellFoundedOn(R, Nat)
    BY NatLessThanWellFounded
<1>4. \A y, x \in Nat : y < x => <<y, x>> \in R
    BY DEF OpToRel
<1> HIDE DEF R
<1>5. PICK x \in T : \A y \in T : ~(<<y, x>> \in R)
    <2> HIDE DEF T
    <2> QED
        BY <1>1, <1>2, <1>3, WFMin
<1>6. /\ x \in Nat /\ x # 0 /\ x - 1 \in Nat /\ x - 1 < x /\ x - 1 + 1 = x
      /\ x - 1 < limit /\ x - 1 \in 0..limit
    OBVIOUS
<1>7. x - 1 \in S
    BY <1>4, <1>5, <1>6
<1> QED
    BY <1>6, <1>7

\* The records up to the i-th byte, given those before it.
Longer(bytes, i, before) ==
    IF LastByte(bytes[i]) THEN Append(before, bytes[i].rec) ELSE before

\* f is what RecordsIn defines.
IsScan(bytes, n, f) ==
    f = [i \in 0..n |-> IF i = 0 THEN <<>> ELSE Longer(bytes, i, f[i - 1])]

LEMMA ScanExists ==
    ASSUME NEW bytes, NEW n \in Nat
    PROVE  \E f : IsScan(bytes, n, f)
<1> DEFINE S == {k \in Nat : \E f : IsScan(bytes, k, f)}
<1>1. 0 \in S
    <2> DEFINE f == [i \in 0..0 |-> <<>>]
    <2>1. \A i \in 0..0 : i = 0
        OBVIOUS
    <2>2. f = [i \in 0..0 |-> IF i = 0 THEN <<>> ELSE Longer(bytes, i, f[i - 1])]
        BY <2>1
    <2>3. IsScan(bytes, 0, f)
        BY <2>2 DEF IsScan
    <2> QED
        BY <2>3
<1>2. ASSUME NEW k \in Nat, k \in S PROVE k + 1 \in S
    <2>1. PICK f : IsScan(bytes, k, f)
        BY <1>2
    <2> DEFINE g == [i \in 0..(k + 1) |-> IF i = k + 1 THEN Longer(bytes, i, f[k]) ELSE f[i]]
    <2>2. \A i \in 0..k : f[i] = IF i = 0 THEN <<>> ELSE Longer(bytes, i, f[i - 1])
        BY <2>1 DEF IsScan
    <2>3. ASSUME NEW i \in 0..(k + 1)
          PROVE  g[i] = IF i = 0 THEN <<>> ELSE Longer(bytes, i, g[i - 1])
        <3>1. CASE i = k + 1
            <4>1. i # 0 /\ i - 1 = k /\ k \in 0..(k + 1) /\ k # k + 1
                BY <3>1
            <4>2. g[i] = Longer(bytes, i, f[k]) /\ g[i - 1] = f[k]
                BY <3>1, <4>1
            <4> QED
                BY <4>1, <4>2
        <3>2. CASE i # k + 1 /\ i # 0
            <4>1. i \in 0..k /\ i - 1 \in 0..(k + 1) /\ i - 1 # k + 1
                BY <3>2
            <4>2. g[i] = f[i] /\ g[i - 1] = f[i - 1]
                BY <3>2, <4>1
            <4> QED
                BY <2>2, <3>2, <4>1, <4>2
        <3>3. CASE i = 0
            <4>1. i \in 0..k /\ i # k + 1
                BY <3>3
            <4>2. g[i] = f[i]
                BY <4>1
            <4> QED
                BY <2>2, <3>3, <4>1, <4>2
        <3> QED
            BY <3>1, <3>2, <3>3
    <2>4. g = [i \in 0..(k + 1) |-> g[i]]
        OBVIOUS
    <2> HIDE DEF g
    <2>5. IsScan(bytes, k + 1, g)
        BY <2>3, <2>4 DEF IsScan
    <2> QED
        BY <2>5
<1>3. n \in S
    <2> HIDE DEF S
    <2>1. n \in 0..n
        OBVIOUS
    <2> QED
        BY <1>1, <1>2, <2>1, NumbersUpTo
<1> QED
    BY <1>3

LEMMA ScanStep ==
    ASSUME NEW bytes, NEW n \in Nat, NEW f, IsScan(bytes, n, f)
    PROVE  /\ f[0] = <<>>
           /\ \A k \in Nat : k < n => f[k + 1] = Longer(bytes, k + 1, f[k])
<1>1. \A i \in 0..n : f[i] = IF i = 0 THEN <<>> ELSE Longer(bytes, i, f[i - 1])
    BY DEF IsScan
<1>2. f[0] = <<>>
    <2>1. 0 \in 0..n
        OBVIOUS
    <2> QED
        BY <1>1, <2>1
<1>3. ASSUME NEW k \in Nat, k < n PROVE f[k + 1] = Longer(bytes, k + 1, f[k])
    <2> DEFINE i == k + 1
    <2>1. i \in 0..n /\ i # 0 /\ i - 1 = k
        BY <1>3
    <2> HIDE DEF i
    <2>2. f[i] = Longer(bytes, i, f[i - 1])
        BY <1>1, <2>1
    <2> QED
        BY <2>1, <2>2 DEF i
<1> QED
    BY <1>2, <1>3

LEMMA RecordsIsScan ==
    ASSUME NEW bytes, NEW n \in Nat
    PROVE  \E f : IsScan(bytes, n, f) /\ RecordsIn(bytes, n) = f[n]
<1> DEFINE f == CHOOSE u : IsScan(bytes, n, u)
<1>1. IsScan(bytes, n, f)
    BY ScanExists
<1>2. RecordsIn(bytes, n) = f[n]
    BY DEF RecordsIn, IsScan, Longer
<1> QED
    BY <1>1, <1>2

\* Two scans, of bytes that are the same up to the n-th, find the same records.
LEMMA ScansAgree ==
    ASSUME NEW b, NEW c, NEW n \in Nat, NEW p \in Nat, NEW q \in Nat, n <= p, n <= q,
           \A i \in 1..n : b[i] = c[i],
           NEW f, NEW g, IsScan(b, p, f), IsScan(c, q, g)
    PROVE  f[n] = g[n]
<1> DEFINE S == {k \in Nat : k <= n => f[k] = g[k]}
<1>1. 0 \in S
    <2>1. f[0] = <<>> /\ g[0] = <<>>
        BY ScanStep
    <2> QED
        BY <2>1
<1>2. ASSUME NEW k \in Nat, k < n, k \in S PROVE k + 1 \in S
    <2>1. k < p /\ k < q /\ f[k] = g[k] /\ k + 1 \in 1..n
        BY <1>2
    <2>2. f[k + 1] = Longer(b, k + 1, f[k])
        BY <2>1, ScanStep
    <2>3. g[k + 1] = Longer(c, k + 1, g[k])
        BY <2>1, ScanStep
    <2>4. b[k + 1] = c[k + 1]
        BY <2>1
    <2> DEFINE x == f[k]
               y == g[k]
               l == k + 1
    <2>5. Longer(b, l, x) = Longer(c, l, y)
        <3>1. x = y /\ b[l] = c[l]
            BY <2>1, <2>4
        <3> HIDE DEF x, y, l
        <3> QED
            BY <3>1 DEF Longer
    <2> HIDE DEF x, y, l
    <2>6. f[k + 1] = g[k + 1]
        BY <2>2, <2>3, <2>5, Zenon DEF x, y, l
    <2> QED
        BY <2>6
<1>3. n \in S
    <2> HIDE DEF S
    <2>1. n \in 0..n
        OBVIOUS
    <2> QED
        BY <1>1, <1>2, <2>1, NumbersUpTo
<1> QED
    BY <1>3

\* The recursion of RecordsIn, as one may use it; only the bytes that are scanned
\* matter.
LEMMA RecordsInFacts ==
    ASSUME NEW b
    PROVE  /\ RecordsIn(b, 0) = <<>>
           /\ \A n \in Nat : RecordsIn(b, n + 1) = Longer(b, n + 1, RecordsIn(b, n))
<1>1. RecordsIn(b, 0) = <<>>
    <2>1. PICK f : IsScan(b, 0, f) /\ RecordsIn(b, 0) = f[0]
        BY RecordsIsScan
    <2>2. f[0] = <<>>
        BY <2>1, ScanStep
    <2> QED
        BY <2>1, <2>2
<1>2. ASSUME NEW n \in Nat PROVE RecordsIn(b, n + 1) = Longer(b, n + 1, RecordsIn(b, n))
    <2>1. n + 1 \in Nat /\ n < n + 1 /\ n <= n + 1 /\ n <= n
        OBVIOUS
    <2>2. PICK f : IsScan(b, n, f) /\ RecordsIn(b, n) = f[n]
        BY RecordsIsScan
    <2>3. PICK g : IsScan(b, n + 1, g) /\ RecordsIn(b, n + 1) = g[n + 1]
        BY <2>1, RecordsIsScan
    <2> DEFINE m == n + 1
               c == b
    <2>4. f[n] = g[n]
        <3>1. m \in Nat /\ n <= m
            OBVIOUS
        <3>2. IsScan(c, m, g)
            BY <2>3
        <3>3. \A i \in 1..n : b[i] = c[i]
            OBVIOUS
        <3>4. n \in Nat /\ n <= n /\ IsScan(b, n, f)
            BY <2>1, <2>2
        <3> HIDE DEF m, c
        <3> QED
            BY <3>1, <3>2, <3>3, <3>4, ScansAgree
    <2>5. g[n + 1] = Longer(b, n + 1, g[n])
        BY <2>1, <2>3, ScanStep
    <2> QED
        BY <2>2, <2>3, <2>4, <2>5, Zenon
<1> QED
    BY <1>1, <1>2

LEMMA SameRecords ==
    ASSUME NEW b, NEW c, NEW n \in Nat, \A i \in 1..n : b[i] = c[i]
    PROVE  RecordsIn(b, n) = RecordsIn(c, n)
<1>1. PICK f : IsScan(b, n, f) /\ RecordsIn(b, n) = f[n]
    BY RecordsIsScan
<1>2. PICK g : IsScan(c, n, g) /\ RecordsIn(c, n) = g[n]
    BY RecordsIsScan
<1>3. n <= n
    OBVIOUS
<1>4. f[n] = g[n]
    BY <1>1, <1>2, <1>3, ScansAgree
<1> QED
    BY <1>1, <1>2, <1>4

\* Bytes none of which is the last of a record add no record.
LEMMA NoLast ==
    ASSUME NEW b, NEW n \in Nat, NEW k \in Nat, \A i \in n + 1..n + k : ~LastByte(b[i])
    PROVE  RecordsIn(b, n + k) = RecordsIn(b, n)
<1> DEFINE S == {j \in Nat : RecordsIn(b, n + j) = RecordsIn(b, n)}
<1>1. 0 \in S
    <2>1. n + 0 = n
        OBVIOUS
    <2> QED
        BY <2>1
<1>2. ASSUME NEW j \in Nat, j < k, j \in S PROVE j + 1 \in S
    <2> DEFINE m == n + j
    <2>1. m \in Nat /\ m + 1 \in n + 1..n + k /\ n + (j + 1) = m + 1
        BY <1>2
    <2>2. RecordsIn(b, m) = RecordsIn(b, n)
        BY <1>2
    <2> HIDE DEF m
    <2>3. ~LastByte(b[m + 1])
        BY <2>1
    <2>4. RecordsIn(b, m + 1) = Longer(b, m + 1, RecordsIn(b, m))
        BY <2>1, RecordsInFacts
    <2>5. RecordsIn(b, m + 1) = RecordsIn(b, n)
        BY <2>2, <2>3, <2>4, Zenon DEF Longer
    <2> QED
        BY <2>1, <2>5
<1>3. k \in S
    <2> HIDE DEF S
    <2>1. k \in 0..k
        OBVIOUS
    <2> QED
        BY <1>1, <1>2, <2>1, NumbersUpTo
<1> QED
    BY <1>3

\* The last of some bytes that is the last of a record adds that.
LEMMA OneLast ==
    ASSUME NEW b, NEW n \in Nat, NEW k \in Nat, k > 0,
           \A i \in n + 1..n + k : LastByte(b[i]) <=> i = n + k
    PROVE  RecordsIn(b, n + k) = Append(RecordsIn(b, n), b[n + k].rec)
<1> DEFINE j == k - 1
           m == n + j
<1>1. j \in Nat /\ m \in Nat /\ m + 1 = n + k /\ m + 1 \in n + 1..n + k
    OBVIOUS
<1>2. \A i \in n + 1..n + j : ~LastByte(b[i])
    OBVIOUS
<1>3. LastByte(b[m + 1])
    BY <1>1
<1> HIDE DEF j
<1>4. RecordsIn(b, n + j) = RecordsIn(b, n)
    BY <1>1, <1>2, NoLast
<1>5. RecordsIn(b, m) = RecordsIn(b, n)
    BY <1>4
<1> HIDE DEF m
<1>6. RecordsIn(b, m + 1) = Longer(b, m + 1, RecordsIn(b, m))
    BY <1>1, RecordsInFacts
<1>7. RecordsIn(b, m + 1) = Append(RecordsIn(b, n), b[m + 1].rec)
    BY <1>3, <1>5, <1>6, Zenon DEF Longer
<1> QED
    BY <1>1, <1>7, Zenon

LEMMA RecordsInType ==
    ASSUME NEW b, NEW n \in Nat, \A i \in 1..n : b[i].rec \in Record
    PROVE  RecordsIn(b, n) \in Seq(Record)
<1> DEFINE S == {k \in Nat : RecordsIn(b, k) \in Seq(Record)}
<1>1. 0 \in S
    <2>1. RecordsIn(b, 0) = <<>>
        BY RecordsInFacts
    <2>2. <<>> \in Seq(Record) /\ 0 \in Nat
        OBVIOUS
    <2>3. RecordsIn(b, 0) \in Seq(Record)
        BY <2>1, <2>2, Zenon
    <2> QED
        BY <2>2, <2>3
<1>2. ASSUME NEW k \in Nat, k < n, k \in S PROVE k + 1 \in S
    <2> DEFINE s == RecordsIn(b, k)
    <2>1. s \in Seq(Record) /\ k + 1 \in 1..n
        BY <1>2
    <2>2. RecordsIn(b, k + 1) = Longer(b, k + 1, s)
        BY RecordsInFacts
    <2>3. b[k + 1].rec \in Record
        BY <2>1
    <2> HIDE DEF s
    <2>4. Longer(b, k + 1, s) \in Seq(Record)
        BY <2>1, <2>3, AppendProperties DEF Longer
    <2>5. RecordsIn(b, k + 1) \in Seq(Record)
        BY <2>2, <2>4, Zenon
    <2> QED
        BY <2>5
<1>3. n \in S
    <2> HIDE DEF S
    <2>1. n \in 0..n
        OBVIOUS
    <2> QED
        BY <1>1, <1>2, <2>1, NumbersUpTo
<1> QED
    BY <1>3

LEMMA AppendBehind ==
    ASSUME NEW s \in Seq(Record), NEW t \in Seq(Record), NEW r \in Record
    PROVE  s \o Append(t, r) = Append(s \o t, r)
<1>1. s \o Append(t, r) \in Seq(Record) /\ Append(s \o t, r) \in Seq(Record)
    OBVIOUS
<1>2. Len(s \o Append(t, r)) = Len(Append(s \o t, r))
    OBVIOUS
<1>3. \A i \in 1..Len(s \o Append(t, r)) : (s \o Append(t, r))[i] = Append(s \o t, r)[i]
    OBVIOUS
<1> QED
    BY <1>1, <1>2, <1>3, SeqEqual

\* The records of the first k bytes come before those of the m behind them.
LEMMA RecordsBehind ==
    ASSUME NEW b, NEW c, NEW k \in Nat, NEW m \in Nat,
           \A i \in 1..m : c[i] = b[i + k],
           \A i \in 1..k + m : b[i].rec \in Record
    PROVE  RecordsIn(b, k + m) = RecordsIn(b, k) \o RecordsIn(c, m)
<1> DEFINE s == RecordsIn(b, k)
           S == {j \in Nat : RecordsIn(b, k + j) = s \o RecordsIn(c, j)}
<1>1. s \in Seq(Record)
    <2>1. \A i \in 1..k : b[i].rec \in Record
        OBVIOUS
    <2> QED
        BY <2>1, RecordsInType
<1>2. 0 \in S
    <2>1. k + 0 = k /\ RecordsIn(c, 0) = <<>>
        BY RecordsInFacts
    <2> HIDE DEF s
    <2>2. s \o <<>> = s
        BY <1>1
    <2> QED
        BY <2>1, <2>2 DEF s
<1>3. ASSUME NEW j \in Nat, j < m, j \in S PROVE j + 1 \in S
    <2> DEFINE n == k + j
               t == RecordsIn(c, j)
               l == j + 1
    <2>1. /\ n \in Nat /\ k + l = n + 1 /\ n + 1 = l + k /\ n + 1 \in 1..k + m /\ l \in 1..m
          /\ l \in Nat
        BY <1>3
    <2>2. RecordsIn(b, n) = s \o t
        BY <1>3
    <2>3. RecordsIn(c, l) = Longer(c, l, t)
        BY RecordsInFacts
    <2>4. t \in Seq(Record)
        <3>1. \A i \in 1..j : c[i].rec \in Record
            <4>1. TAKE i \in 1..j
            <4>2. i \in 1..m /\ i + k \in 1..k + m
                BY <1>3
            <4>3. c[i] = b[i + k]
                BY <4>2
            <4> QED
                BY <4>2, <4>3
        <3> QED
            BY <3>1, RecordsInType
    <2> HIDE DEF n, t, l, s
    <2>5. RecordsIn(b, n + 1) = Longer(b, n + 1, s \o t)
        BY <2>1, <2>2, RecordsInFacts
    <2>6. c[l] = b[n + 1] /\ b[n + 1].rec \in Record
        BY <2>1
    <2>7. s \o Append(t, b[n + 1].rec) = Append(s \o t, b[n + 1].rec)
        BY <1>1, <2>4, <2>6, AppendBehind
    <2>8. Longer(b, n + 1, s \o t) = s \o Longer(c, l, t)
        BY <2>6, <2>7, Zenon DEF Longer
    <2>9. RecordsIn(b, k + l) = s \o RecordsIn(c, l)
        BY <2>1, <2>3, <2>5, <2>8, Zenon
    <2> QED
        BY <2>1, <2>9 DEF l
<1>4. m \in S
    <2> HIDE DEF S
    <2>1. m \in 0..m
        OBVIOUS
    <2> QED
        BY <1>2, <1>3, <2>1, NumbersUpTo
<1> QED
    BY <1>4

\* The same, as its uses have it.
LEMMA RecordsBehindAt ==
    ASSUME NEW b, NEW c, NEW n \in Nat, NEW k \in Nat, NEW m \in Nat, n = k + m,
           \A i \in 1..m : c[i] = b[i + k],
           \A i \in 1..n : b[i].rec \in Record
    PROVE  RecordsIn(b, n) = RecordsIn(b, k) \o RecordsIn(c, m)
<1>1. \A i \in 1..k + m : b[i].rec \in Record
    OBVIOUS
<1>2. RecordsIn(b, k + m) = RecordsIn(b, k) \o RecordsIn(c, m)
    BY <1>1, RecordsBehind, SMTT(40)
<1> QED
    BY <1>2

-----------------------------------------------------------------------------
(***************************************************************************)
(* The FIFO implements the queue of records.                               *)
(***************************************************************************)
UnreadIsRing ==
    /\ MemUsed \in Nat
    /\ \A i \in 1..MemUsed : Unread[i] = B(i) /\ B(i).rec \in Record

LEMMA UnreadFacts == TypeOK => UnreadIsRing
<1> SUFFICES ASSUME TypeOK PROVE UnreadIsRing
    OBVIOUS
<1>1. MemUsed \in Nat
    BY RingFacts
<1>2. \A i \in 1..MemUsed : Unread[i] = B(i)
    BY <1>1, PeekFacts DEF Unread
<1> QED
    BY <1>1, <1>2, ByteFacts DEF UnreadIsRing

LEMMA UnreadFactsNext == TypeOK' => UnreadIsRing'
BY UnreadFacts, PTL

LEMMA QueuedKept ==
    ASSUME UNCHANGED <<ring, read, write>>
    PROVE  Queued' = Queued
<1>1. MemUsed' = MemUsed /\ Unread' = Unread
    BY DEF MemUsed, Unread, Peek, GetPiece
<1> QED
    BY <1>1, Zenon DEF Queued

\* shmfifo_put(): the header adds no record, the data add the record.
LEMMA PutHeaderQueued ==
    ASSUME LockInv, Aligned, PutHeader
    PROVE  Queued' = Queued
<1> DEFINE n == MemUsed
           b == Unread
           c == Unread'
<1>1. /\ TypeOK /\ ~NoRoom /\ LlPut(Header(rec)) /\ read' = read /\ rec \in Record
    BY DEF PutHeader, LockInv, TypeOK
<1>2. /\ H \in Nat /\ H > 0 /\ rec.sz \in Nat /\ rec.sz > 0 /\ n \in Nat
      /\ MemFree \in Nat /\ MemFree > rec.sz + H
    <2>1. rec.sz \in Nat /\ rec.sz > 0
        BY <1>1, RecordFacts
    <2> QED
        BY <1>1, <2>1, RingFacts DEF NoRoom, Total
<1>3. /\ MemUsed' = n + H
      /\ \A i \in 1..n : B(i)' = B(i)
      /\ \A i \in 1..MemUsed' : i > n => B(i)' = Header(rec)[i - n]
    <2>1. Len(Header(rec)) = H
        BY <1>1, BytesFacts
    <2>2. Len(Header(rec)) \in Nat /\ Len(Header(rec)) < MemFree
        BY <1>2, <2>1
    <2> QED
        BY <1>1, <2>1, <2>2, PutRing
<1>4. TypeOK' /\ UnreadIsRing /\ UnreadIsRing'
    <2>1. TypeOK'
        BY <1>1, StepType DEF Next
    <2> QED
        BY <1>1, <2>1, UnreadFacts, UnreadFactsNext
<1>5. \A i \in 1..n : c[i] = b[i]
    <2>1. TAKE i \in 1..n
    <2>2. i \in 1..MemUsed'
        BY <1>2, <1>3
    <2>3. Unread[i] = B(i)
        BY <1>4 DEF UnreadIsRing
    <2>4. Unread'[i] = B(i)'
        BY <1>4, <2>2 DEF UnreadIsRing
    <2> QED
        BY <1>3, <2>3, <2>4
<1>6. \A i \in n + 1..n + H : ~LastByte(c[i])
    <2>1. TAKE i \in n + 1..n + H
    <2>2. i \in 1..MemUsed' /\ i > n /\ i - n \in 1..H
        BY <1>2, <1>3
    <2>3. Unread'[i] = Header(rec)[i - n]
        BY <1>3, <1>4, <2>2 DEF UnreadIsRing
    <2>4. Header(rec)[i - n] = [rec |-> rec, pos |-> 1 + (i - n) - 1]
        <3>1. Header(rec) = [k \in 1..H |-> [rec |-> rec, pos |-> 1 + k - 1]]
            BY <1>2 DEF Header, Bytes
        <3> QED
            BY <2>2, <3>1
    <2>5. c[i].rec = rec /\ c[i].pos = 1 + (i - n) - 1
        BY <2>3, <2>4
    <2> HIDE DEF c
    <2> QED
        BY <1>2, <2>2, <2>5 DEF LastByte
<1>7. Queued = RecordsIn(b, n) /\ Queued' = RecordsIn(c, MemUsed')
    BY DEF Queued
<1> HIDE DEF n, b, c
<1>8. RecordsIn(c, n + H) = RecordsIn(c, n)
    BY <1>2, <1>6, NoLast
<1>9. RecordsIn(c, n) = RecordsIn(b, n)
    BY <1>2, <1>5, SameRecords
<1> QED
    BY <1>3, <1>7, <1>8, <1>9, Zenon

LEMMA PutDataQueued ==
    ASSUME LockInv, Aligned, PutData
    PROVE  Queued' = Append(Queued, rec)
<1> DEFINE n == MemUsed
           z == rec.sz
           b == Unread
           c == Unread'
<1>1. /\ TypeOK /\ pc[Writer] = "put_data" /\ LlPut(Data(rec)) /\ read' = read /\ rec \in Record
    BY DEF PutData, LockInv, TypeOK
<1>2. /\ H \in Nat /\ H > 0 /\ z \in Nat /\ z > 0 /\ n \in Nat /\ MemFree \in Nat /\ MemFree > z
    <2>1. z \in Nat /\ z > 0
        BY <1>1, RecordFacts
    <2> QED
        BY <1>1, <2>1, RingFacts DEF Aligned, PutsData
<1>3. /\ MemUsed' = n + z
      /\ \A i \in 1..n : B(i)' = B(i)
      /\ \A i \in 1..MemUsed' : i > n => B(i)' = Data(rec)[i - n]
    <2>1. Len(Data(rec)) = z
        BY <1>1, BytesFacts
    <2>2. Len(Data(rec)) \in Nat /\ Len(Data(rec)) < MemFree
        BY <1>2, <2>1
    <2> QED
        BY <1>1, <2>1, <2>2, PutRing
<1>4. TypeOK' /\ UnreadIsRing /\ UnreadIsRing'
    <2>1. TypeOK'
        BY <1>1, StepType DEF Next
    <2> QED
        BY <1>1, <2>1, UnreadFacts, UnreadFactsNext
<1>5. \A i \in 1..n : c[i] = b[i]
    <2>1. TAKE i \in 1..n
    <2>2. i \in 1..MemUsed'
        BY <1>2, <1>3
    <2>3. Unread[i] = B(i)
        BY <1>4 DEF UnreadIsRing
    <2>4. Unread'[i] = B(i)'
        BY <1>4, <2>2 DEF UnreadIsRing
    <2> QED
        BY <1>3, <2>3, <2>4
<1>6. \A i \in n + 1..n + z : c[i].rec = rec /\ c[i].pos = H + (i - n)
    <2>1. TAKE i \in n + 1..n + z
    <2>2. i \in 1..MemUsed' /\ i > n /\ i - n \in 1..z
        BY <1>2, <1>3
    <2>3. Unread'[i] = Data(rec)[i - n]
        BY <1>3, <1>4, <2>2 DEF UnreadIsRing
    <2>4. Data(rec)[i - n] = [rec |-> rec, pos |-> (H + 1) + (i - n) - 1]
        <3>1. Data(rec) = [k \in 1..z |-> [rec |-> rec, pos |-> (H + 1) + k - 1]]
            BY <1>2 DEF Data, Bytes
        <3> QED
            BY <2>2, <3>1
    <2>5. (H + 1) + (i - n) - 1 = H + (i - n)
        BY <1>2, <2>2
    <2> QED
        BY <2>3, <2>4, <2>5
<1>7. Queued = RecordsIn(b, n) /\ Queued' = RecordsIn(c, MemUsed')
    BY DEF Queued
<1> HIDE DEF n, b, c
<1>8. \A i \in n + 1..n + z : LastByte(c[i]) <=> i = n + z
    <2>1. TAKE i \in n + 1..n + z
    <2>2. c[i].pos = H + (i - n) /\ c[i].rec.sz = z
        BY <1>6
    <2> HIDE DEF z
    <2> QED
        BY <1>2, <2>2 DEF LastByte
<1>9. RecordsIn(c, n + z) = Append(RecordsIn(c, n), c[n + z].rec)
    <2> HIDE DEF z
    <2> QED
        BY <1>2, <1>8, OneLast
<1>10. c[n + z].rec = rec
    <2> HIDE DEF z
    <2>1. n + z \in n + 1..n + z
        BY <1>2
    <2> QED
        BY <1>6, <2>1
<1>11. RecordsIn(c, n) = RecordsIn(b, n)
    BY <1>2, <1>5, SameRecords
<1> QED
    BY <1>3, <1>7, <1>9, <1>10, <1>11, Zenon

\* shmfifo_get(): the header that is consumed holds no record's last byte, whether
\* it is put back or not; the data end the oldest record.
LEMMA GetHeaderQueued ==
    ASSUME LockInv, Aligned, GetHeader
    PROVE  Queued' = Queued
<1>1. /\ TypeOK /\ pc[Reader] = "get_locked" /\ MemUsed >= H /\ UNCHANGED <<ring, write>>
    BY DEF GetHeader, LockInv
<1>2. CASE read' = read
    BY <1>1, <1>2, QueuedKept
<1>3. CASE read' = ReadAfter(H)
    <2> DEFINE n == MemUsed
               m == MemUsed'
               b == Unread
               c == Unread'
    <2>1. /\ B(1).pos = 1 /\ B(1).rec \in Record /\ H + B(1).rec.sz <= n
          /\ B(1).rec.sz \in Nat /\ B(1).rec.sz > 0
        BY <1>1, HeaderFacts, RecordFacts
    <2>2. H \in Nat /\ H > 0 /\ n \in Nat /\ 1 \in 1..n
        BY <1>1, RingFacts
    <2>3. m = n - H /\ \A i \in 1..m : B(i)' = B(i + H)
        BY <1>1, <1>3, <2>2, GetRing
    <2>4. TypeOK' /\ UnreadIsRing /\ UnreadIsRing'
        <3>1. TypeOK'
            BY <1>1, StepType DEF Next
        <3> QED
            BY <1>1, <3>1, UnreadFacts, UnreadFactsNext
    <2>5. \A i \in 1..m : c[i] = b[i + H]
        <3>1. TAKE i \in 1..m
        <3>2. i + H \in 1..n
            BY <1>1, <2>2, <2>3
        <3>3. Unread[i + H] = B(i + H)
            BY <2>4, <3>2 DEF UnreadIsRing
        <3>4. Unread'[i] = B(i)'
            BY <2>4 DEF UnreadIsRing
        <3> QED
            BY <2>3, <3>3, <3>4
    <2>6. \A i \in 1..n : b[i].rec \in Record
        BY <2>4 DEF UnreadIsRing
    <2>7. \A i \in 0 + 1..0 + H : ~LastByte(b[i])
        <3>1. TAKE i \in 0 + 1..0 + H
        <3>2. i \in 1..n /\ i - 1 + B(1).pos = i /\ i \in 1..H + B(1).rec.sz
            BY <1>1, <2>1, <2>2
        <3>3. B(i).rec = B(1).rec /\ B(i).pos = i
            BY <2>2, <3>2 DEF Aligned, Around
        <3>4. b[i] = B(i)
            BY <2>4, <3>2 DEF UnreadIsRing
        <3> HIDE DEF b
        <3>5. b[i].pos # H + b[i].rec.sz
            BY <2>1, <2>2, <3>3, <3>4
        <3> QED
            BY <3>5 DEF LastByte
    <2>8. Queued = RecordsIn(b, n) /\ Queued' = RecordsIn(c, m)
        BY DEF Queued
    <2>9. n = H + m /\ m \in Nat
        BY <1>1, <2>2, <2>3
    <2> HIDE DEF n, m, b, c
    <2>10. RecordsIn(b, 0 + H) = RecordsIn(b, 0)
        BY <2>2, <2>7, NoLast
    <2>11. RecordsIn(b, H) = <<>>
        BY <2>2, <2>10, RecordsInFacts
    <2>12. RecordsIn(b, H + m) = RecordsIn(b, H) \o RecordsIn(c, m)
        <3>1. n \in Nat /\ H \in Nat /\ m \in Nat /\ n = H + m
            BY <2>2, <2>9
        <3>2. RecordsIn(b, n) = RecordsIn(b, H) \o RecordsIn(c, m)
            BY <2>5, <2>6, <3>1, RecordsBehindAt
        <3> QED
            BY <2>9, <3>2, Zenon
    <2>13. RecordsIn(c, m) \in Seq(Record)
        <3>1. \A i \in 1..m : c[i].rec \in Record
            <4>1. TAKE i \in 1..m
            <4>2. i + H \in 1..n
                BY <2>2, <2>9
            <4> QED
                BY <2>5, <2>6, <4>2
        <3> QED
            BY <2>9, <3>1, RecordsInType
    <2>14. <<>> \o RecordsIn(c, m) = RecordsIn(c, m)
        BY <2>13, ConcatEmptySeq
    <2> QED
        BY <2>8, <2>9, <2>11, <2>12, <2>14, Zenon
<1> QED
    BY <1>2, <1>3, GetHeaderSteps

LEMMA GetDataQueued ==
    ASSUME LockInv, Aligned, GetData
    PROVE  /\ Queued \in Seq(Record) /\ Queued # <<>>
           /\ got' = Data(Head(Queued))
           /\ Queued' = Tail(Queued)
<1> DEFINE n == MemUsed
           m == MemUsed'
           z == header.sz
           b == Unread
           c == Unread'
<1>1. /\ TypeOK /\ pc[Reader] = "get_data" /\ UNCHANGED <<ring, write>>
      /\ pc[Writer] # "put_data" /\ header \in Record
    BY ProcAssumption DEF GetData, LockInv, LockedPlaces, TypeOK
<1>2. /\ H \in Nat /\ H > 0 /\ n \in Nat /\ n > 0 /\ z \in Nat /\ z > 0
      /\ B(1).rec = header /\ B(1).pos = H + 1 /\ 1 \in 1..n
    <2>1. z \in Nat /\ z > 0
        BY <1>1, RecordFacts
    <2> QED
        BY <1>1, <2>1, RingFacts DEF Aligned, GetsData
<1>3. z <= n
    <2>1. Ends(1)
        BY <1>2 DEF Aligned
    <2>2. 1 - (H + 1) + H + z = z
        BY <1>2
    <2> QED
        BY <1>1, <1>2, <2>1, <2>2 DEF Ends
<1>4. read' = ReadAfter(z) /\ got' = Peek(z)
    BY <1>3 DEF GetData
<1>5. m = n - z /\ \A i \in 1..m : B(i)' = B(i + z)
    BY <1>1, <1>2, <1>3, <1>4, GetRing
<1>6. TypeOK' /\ UnreadIsRing /\ UnreadIsRing'
    <2>1. TypeOK'
        BY <1>1, StepType DEF Next
    <2> QED
        BY <1>1, <2>1, UnreadFacts, UnreadFactsNext
<1>7. \A i \in 1..z : B(i) = [rec |-> header, pos |-> H + 1 + i - 1]
    <2>1. TAKE i \in 1..z
    <2>2. i \in 1..n /\ i - 1 + B(1).pos = H + i /\ H + i \in 1..H + B(1).rec.sz
        BY <1>2, <1>3
    <2>3. B(i).rec = header /\ B(i).pos = H + i
        BY <1>2, <2>2 DEF Aligned, Around
    <2>4. B(i) \in Byte
        BY <1>1, <2>2, RingFacts
    <2>5. H + i = H + 1 + i - 1
        BY <1>2
    <2>6. B(i) = [rec |-> header, pos |-> H + i]
        BY <2>3, <2>4 DEF Byte
    <2> QED
        BY <2>5, <2>6
<1>8. got' = Data(header)
    <2>1. Data(header) = [i \in 1..z |-> [rec |-> header, pos |-> (H + 1) + i - 1]]
        BY <1>2 DEF Data, Bytes
    <2>2. Peek(z) = [i \in 1..z |-> Peek(z)[i]]
        BY DEF Peek
    <2>3. \A i \in 1..z : Peek(z)[i] = [rec |-> header, pos |-> (H + 1) + i - 1]
        BY <1>1, <1>2, <1>3, <1>7, PeekFacts
    <2>4. [i \in 1..z |-> Peek(z)[i]] = [i \in 1..z |-> [rec |-> header, pos |-> (H + 1) + i - 1]]
        BY <2>3
    <2> QED
        BY <1>4, <2>1, <2>2, <2>4
<1>9. \A i \in 1..m : c[i] = b[i + z]
    <2>1. TAKE i \in 1..m
    <2>2. i + z \in 1..n
        BY <1>2, <1>3, <1>5
    <2>3. Unread[i + z] = B(i + z)
        BY <1>6, <2>2 DEF UnreadIsRing
    <2>4. Unread'[i] = B(i)'
        BY <1>6 DEF UnreadIsRing
    <2> QED
        BY <1>5, <2>3, <2>4
<1>10. \A i \in 1..n : b[i].rec \in Record
    BY <1>6 DEF UnreadIsRing
<1>11. \A i \in 1..z : b[i].rec = header /\ b[i].pos = H + i
    <2>1. TAKE i \in 1..z
    <2>2. i \in 1..n /\ H + i = H + 1 + i - 1
        BY <1>2, <1>3
    <2>3. b[i] = B(i)
        BY <1>6, <2>2 DEF UnreadIsRing
    <2>4. B(i).rec = header /\ B(i).pos = H + i
        BY <1>7, <2>2
    <2> QED
        BY <2>3, <2>4
<1>12. Queued = RecordsIn(b, n) /\ Queued' = RecordsIn(c, m)
    BY DEF Queued
<1>13. n = z + m /\ m \in Nat
    BY <1>2, <1>3, <1>5
<1> HIDE DEF n, m, b, c
<1>14. \A i \in 0 + 1..0 + z : LastByte(b[i]) <=> i = 0 + z
    <2>1. TAKE i \in 0 + 1..0 + z
    <2>2. b[i].pos = H + i /\ b[i].rec.sz = z
        BY <1>2, <1>11
    <2> HIDE DEF z
    <2> QED
        BY <1>2, <2>2 DEF LastByte
<1> HIDE DEF z
<1>15. RecordsIn(b, z) = <<header>>
    <2>1. RecordsIn(b, 0 + z) = Append(RecordsIn(b, 0), b[0 + z].rec)
        BY <1>2, <1>14, OneLast
    <2>2. 0 + z = z /\ z \in 1..z
        BY <1>2
    <2>3. b[z].rec = header
        BY <1>11, <2>2
    <2>4. RecordsIn(b, 0) = <<>>
        BY RecordsInFacts
    <2>5. RecordsIn(b, z) = Append(<<>>, header)
        BY <2>1, <2>2, <2>3, <2>4, Zenon
    <2>6. Append(<<>>, header) = <<header>>
        OBVIOUS
    <2> QED
        BY <2>5, <2>6, Zenon
<1>16. RecordsIn(b, z + m) = RecordsIn(b, z) \o RecordsIn(c, m)
    <2>1. n \in Nat /\ z \in Nat /\ m \in Nat /\ n = z + m
        BY <1>2, <1>13
    <2>2. RecordsIn(b, n) = RecordsIn(b, z) \o RecordsIn(c, m)
        BY <1>9, <1>10, <2>1, RecordsBehindAt
    <2> QED
        BY <1>13, <2>2, Zenon
<1>17. RecordsIn(c, m) \in Seq(Record)
    <2>1. \A i \in 1..m : c[i].rec \in Record
        <3>1. TAKE i \in 1..m
        <3>2. i + z \in 1..n
            BY <1>2, <1>13
        <3> QED
            BY <1>9, <1>10, <3>2
    <2> QED
        BY <1>13, <2>1, RecordsInType
<1> DEFINE t == RecordsIn(c, m)
           q == <<header>> \o t
<1>18. Queued = q /\ Queued' = t
    BY <1>12, <1>13, <1>15, <1>16, Zenon
<1>19. t \in Seq(Record)
    BY <1>17
<1> HIDE DEF t
<1>20. q \in Seq(Record) /\ q # <<>> /\ Head(q) = header /\ Tail(q) = t
    <2>1. <<header>> \in Seq(Record) /\ Len(<<header>>) = 1 /\ <<header>>[1] = header
        BY <1>1
    <2> DEFINE h == <<header>>
    <2>2. h \in Seq(Record) /\ Len(h) = 1 /\ h[1] = header /\ h # <<>>
        BY <2>1
    <2> HIDE DEF h
    <2>3. /\ h \o t \in Seq(Record) /\ Len(h \o t) = 1 + Len(t)
          /\ \A i \in 1..1 + Len(t) : (h \o t)[i] = IF i <= 1 THEN h[i] ELSE t[i - 1]
        <3>1. /\ h \o t \in Seq(Record) /\ Len(h \o t) = Len(h) + Len(t)
              /\ \A i \in 1..Len(h) + Len(t) :
                    (h \o t)[i] = IF i <= Len(h) THEN h[i] ELSE t[i - Len(h)]
            BY <1>19, <2>2, ConcatProperties
        <3> QED
            BY <2>2, <3>1, Zenon
    <2>4. h \o t # <<>> /\ Head(h \o t) = h[1]
        BY <1>19, <2>3
    <2>5. Tail(h \o t) = t
        <3>1. Tail(h \o t) \in Seq(Record) /\ Len(Tail(h \o t)) = Len(t)
            BY <1>19, <2>3, <2>4
        <3>2. \A i \in 1..Len(t) : Tail(h \o t)[i] = t[i]
            BY <1>19, <2>3, <2>4
        <3> QED
            BY <1>19, <3>1, <3>2, SeqEqual
    <2> QED
        BY <2>2, <2>3, <2>4, <2>5 DEF h
<1> QED
    BY <1>8, <1>18, <1>20, Zenon

\* A call that has still to get its data has got none.
GotNothing == pc[Reader] \in {"get", "get_asleep", "get_locked", "get_data"} => got = <<>>

LEMMA StepGotNothing ==
    ASSUME LockInv, GotNothing, [Next]_vars
    PROVE  GotNothing'
<1> USE ProcAssumption DEF LockInv, TypeOK, Procs, Goto, WriterPlaces, ReaderPlaces, GotNothing
<1>t. pc = [p \in {Writer, Reader} |-> pc[p]] /\ Writer # Reader
    BY Zenon
<1>1. ASSUME NEW p \in Procs, Lock(p) \/ Wake(p) \/ Unlock(p) PROVE GotNothing'
    BY <1>1, <1>t DEF Lock, Wake, Unlock
<1>2. ASSUME NEW r \in Record, PutCall(r) PROVE GotNothing'
    BY <1>2, <1>t DEF PutCall
<1>3. CASE PutTooBig \/ PutWaits \/ PutHeader
    BY <1>3, <1>t DEF PutTooBig, PutWaits, PutHeader, Wait
<1>4. CASE PutData \/ PutNotifies
    BY <1>4, <1>t DEF PutData, PutNotifies
<1>5. CASE GetCall \/ GetWaits
    BY <1>5, <1>t DEF GetCall, GetWaits, Wait
<1>6. CASE GetHeader
    <2>1. pc[Reader] = "get_locked" /\ got' = got
        BY <1>6 DEF GetHeader
    <2> QED
        BY <2>1
<1>7. CASE GetData
    BY <1>7, <1>t DEF GetData
<1>8. CASE GetNotifies
    BY <1>8, <1>t DEF GetNotifies
<1>11. CASE UNCHANGED vars
    BY <1>11 DEF vars
<1> QED
    BY <1>1, <1>2, <1>3, <1>4, <1>5, <1>6, <1>7, <1>8, <1>11 DEF Next

LEMMA InitRefines == Init => Records!Init
<1> SUFFICES ASSUME Init PROVE Records!Init
    OBVIOUS
<1>1. MemUsed = 0 /\ Queued = RecordsIn(Unread, MemUsed)
    BY DEF Init, MemUsed, Queued
<1>2. RecordsIn(Unread, 0) = <<>>
    BY RecordsInFacts
<1>3. Queued = <<>>
    BY <1>1, <1>2, Zenon
<1>4. ~Pending
    BY DEF Init, Pending, Procs
<1>5. rec \in Record /\ got = <<>>
    BY DEF Init
<1> QED
    BY <1>3, <1>4, <1>5 DEF Records!Init

\* The steps of the lock, the sleeps and the notifications are stutters of the
\* queue of records, and so are those that move a header.
LEMMA StutterRefines ==
    ASSUME Queued' = Queued, UNCHANGED <<rec, got>>, Pending' <=> Pending
    PROVE  UNCHANGED Records!vars
BY DEF Records!vars

LEMMA StepRefines ==
    ASSUME LockInv, Aligned, GotNothing, [Next]_vars
    PROVE  [Records!Next]_(Records!vars)
<1> DEFINE Goal == [Records!Next]_(Records!vars)
<1> USE ProcAssumption DEF LockInv, TypeOK, Procs, Goto, WriterPlaces, ReaderPlaces, queue
<1>t. pc = [p \in {Writer, Reader} |-> pc[p]] /\ Writer # Reader
    BY Zenon
<1>s. UNCHANGED queue => Queued' = Queued
    BY QueuedKept
<1>1. ASSUME NEW p \in Procs, Lock(p) \/ Wake(p) \/ Unlock(p) PROVE Goal
    <2>1. UNCHANGED <<queue, rec, got>> /\ (Pending' <=> Pending)
        BY <1>1, <1>t DEF Lock, Wake, Unlock, Pending
    <2> QED
        BY <1>s, <2>1, StutterRefines
<1>2. ASSUME NEW r \in Record, PutCall(r) PROVE Goal
    <2>1. UNCHANGED <<queue, got>> /\ rec' \in Record /\ ~Pending /\ Pending'
        BY <1>2, <1>t DEF PutCall, Pending
    <2>2. Records!BeginPut
        BY <1>s, <2>1 DEF Records!BeginPut
    <2> QED
        BY <2>2 DEF Records!Next
<1>3. CASE PutTooBig
    <2>1. UNCHANGED <<queue, rec, got>> /\ Pending /\ ~Pending'
        BY <1>3, <1>t DEF PutTooBig, Pending
    <2>2. ~FitsRing(rec)
        <3>1. rec.sz \in Nat
            BY RecordFacts
        <3>2. MemUsed + MemFree < Total
            BY <1>3 DEF PutTooBig, TooBig
        <3> QED
            BY <3>1, <3>2, RingFacts DEF Total, FitsRing
    <2>3. Records!Drop
        BY <1>s, <2>1, <2>2 DEF Records!Drop
    <2> QED
        BY <2>3 DEF Records!Next
<1>4. CASE PutWaits
    <2>1. UNCHANGED <<queue, rec, got>> /\ (Pending' <=> Pending)
        BY <1>4, <1>t DEF PutWaits, Wait, HasLock, Pending, LockedPlaces
    <2> QED
        BY <1>s, <2>1, StutterRefines
<1>5. CASE PutHeader
    <2>1. UNCHANGED <<rec, got>> /\ (Pending' <=> Pending)
        BY <1>5, <1>t DEF PutHeader, Pending
    <2> QED
        BY <1>5, <2>1, PutHeaderQueued, StutterRefines
<1>6. CASE PutData
    <2>1. UNCHANGED <<rec, got>> /\ Pending /\ ~Pending'
        BY <1>6, <1>t DEF PutData, Pending
    <2>2. FitsRing(rec)
        <3>1. rec.sz \in Nat /\ MemUsed \in 1..MemUsed
            BY <1>6, RecordFacts, RingFacts DEF PutData, Aligned, PutsData
        <3>2. B(MemUsed).pos = H /\ MemFree > rec.sz
            BY <1>6, <3>1 DEF PutData, Aligned, PutsData
        <3>3. pc[Reader] # "get_data"
            BY <1>6, <1>t DEF PutData, LockedPlaces
        <3>4. MemUsed >= H
            BY <3>1, <3>2, <3>3 DEF Aligned, Begins
        <3> QED
            BY <3>1, <3>2, <3>4, RingFacts DEF FitsRing
    <2>3. Records!Put
        BY <1>6, <2>1, <2>2, PutDataQueued DEF Records!Put
    <2> QED
        BY <2>3 DEF Records!Next
<1>7. CASE PutNotifies
    <2>1. UNCHANGED <<queue, rec, got>> /\ (Pending' <=> Pending)
        BY <1>7, <1>t DEF PutNotifies, Pending
    <2> QED
        BY <1>s, <2>1, StutterRefines
<1>8. CASE GetCall
    <2>1. UNCHANGED <<queue, rec>> /\ got' = <<>> /\ (Pending' <=> Pending)
        BY <1>8, <1>t DEF GetCall, Pending
    <2>2. Records!BeginGet
        BY <1>s, <2>1 DEF Records!BeginGet
    <2> QED
        BY <2>2 DEF Records!Next
<1>9. CASE GetWaits \/ GetNotifies
    <2>1. UNCHANGED <<queue, rec, got>> /\ (Pending' <=> Pending)
        BY <1>9, <1>t DEF GetWaits, GetNotifies, Wait, Pending
    <2> QED
        BY <1>s, <2>1, StutterRefines
<1>10. CASE GetHeader
    <2>1. UNCHANGED <<rec, got>>
        BY <1>10 DEF GetHeader
    <2>2. Pending' <=> Pending
        BY <1>10, <1>t, GetHeaderSteps DEF Pending
    <2> QED
        BY <1>10, <2>1, <2>2, GetHeaderQueued, StutterRefines
<1>11. CASE GetData
    <2>1. UNCHANGED rec /\ got = <<>> /\ (Pending' <=> Pending)
        BY <1>11, <1>t DEF GetData, Pending, GotNothing
    <2>2. Records!Get
        BY <1>11, <2>1, GetDataQueued DEF Records!Get
    <2> QED
        BY <2>2 DEF Records!Next
<1>14. CASE UNCHANGED vars
    <2>1. UNCHANGED <<queue, rec, got>> /\ (Pending' <=> Pending)
        BY <1>14 DEF vars, Pending
    <2> QED
        BY <1>s, <2>1, StutterRefines
<1> QED
    BY <1>1, <1>2, <1>3, <1>4, <1>5, <1>6, <1>7, <1>8, <1>9, <1>10, <1>11, <1>14 DEF Next

\* shmfifo.c:297-396, 960-1130: while both processes live, and print nothing
\* under the lock, the two calls are a queue: each record that fits is put whole and
\* got whole, once, in order, whatever steps of the other call come between those of
\* one, and only one that exceeds the whole FIFO is dropped.
THEOREM RecordsAreAQueue == Spec => QueueSpec
<1>1. LockInv /\ [Next]_vars => LockInv'
    BY StepLock
<1>2. LockInv /\ Aligned /\ [Next]_vars => Aligned'
    BY StepAligned
<1>3. LockInv /\ GotNothing /\ [Next]_vars => GotNothing'
    BY StepGotNothing
<1>4. LockInv /\ Aligned /\ GotNothing /\ [Next]_vars => [Records!Next]_(Records!vars)
    BY StepRefines
<1>5. Init => GotNothing
    BY DEF Init, GotNothing
<1> QED
    BY <1>1, <1>2, <1>3, <1>4, <1>5, InitLock, InitAligned, InitRefines,
       PTL DEF Spec, QueueSpec, Records!Spec
=============================================================================
