------------------------- MODULE ShmRestartProofs -------------------------
(***************************************************************************)
(* Proofs about the shared-memory FIFO while processes are killed, exit    *)
(* and begin again and debug messages are logged, for every capacity,      *)
(* header, set of record sizes and buffer: no process that lives leaves    *)
(* the lock taken behind, the lock's semaphore is never more than 2, and   *)
(* the offsets stay inside the ring even when line 816 empties it in the   *)
(* middle of a call.                                                       *)
(*                                                                         *)
(* The semaphore is bounded because a semop() on its way stands for one    *)
(* more: checkLocked() lets it through only while the semaphore is 0, so   *)
(* that the value and the calls on their way are two together at most.     *)
(* The offsets stay inside because a record is smaller than the ring, and  *)
(* because what is left of an overtaken shmfifo_ll_get() is known by the   *)
(* bytes it copied and where they were (HalfCopied).                       *)
(***************************************************************************)
EXTENDS ShmRestart, Integers, TLAPS, SequenceTheorems

Byte == [rec : Record, pos : Nat]

Backs == {"end", "idle", "put", "get", "put_asleep", "get_asleep", "notify"}

-----------------------------------------------------------------------------
(***************************************************************************)
(* The lock.                                                               *)
(***************************************************************************)
Releasing(p) == IF pc[p] = "release" THEN 1 ELSE 0

LockInv ==
    /\ lock \in Nat
    /\ lockPid \in Procs \union {Nobody}
    /\ pc \in [Procs -> Places]
    /\ back \in [Procs -> Backs]
    /\ lock + Releasing(Writer) + Releasing(Reader) <= 2
    /\ LockIsNotLeft

LEMMA RestartInitLock == RestartInit => LockInv
BY ProcAssumption
   DEF RestartInit, Init, LockInv, Releasing, Procs, Places, UnderLock, Backs,
       LockIsNotLeft, HasLock

\* A process goes to a place, and nothing of the lock changes.
LEMMA Moves ==
    ASSUME LockInv, NEW p \in Procs, NEW place \in Places \ {"release"}, Goto(p, place),
           back' \in [Procs -> Backs], UNCHANGED <<lock, lockPid>>,
           pc[p] \in UnderLock => place \in UnderLock \/ ~HasLock(p)
    PROVE  LockInv'
<1> USE ProcAssumption DEF LockInv, Procs
<1>1. pc' \in [Procs -> Places] /\ pc'[p] = place /\ \A q \in Procs \ {p} : pc'[q] = pc[q]
    BY DEF Goto
<1>2. lock' + Releasing(Writer)' + Releasing(Reader)' <= 2
    BY <1>1 DEF Releasing
<1>3. LockIsNotLeft'
    BY <1>1 DEF LockIsNotLeft, HasLock
<1> QED
    BY <1>1, <1>2, <1>3

LEMMA StepLock == LockInv /\ [RestartNext]_allVars => LockInv'
<1> SUFFICES ASSUME LockInv, [RestartNext]_allVars PROVE LockInv'
    OBVIOUS
<1> USE ProcAssumption, NobodyAssumption DEF Procs
<1>1. ASSUME NEW p \in Procs, Locks(p) PROVE LockInv'
    <2>1. /\ lock \in Nat /\ lock > 0 /\ lock' = lock - 1 /\ lockPid' = p
          /\ pc' = [pc EXCEPT ![p] = IF p = Writer THEN "put_locked" ELSE "get_locked"]
          /\ back' = back
        BY <1>1 DEF Locks, Lock, Goto, LockInv
    <2> QED
        BY <2>1 DEF LockInv, Releasing, Places, UnderLock, LockIsNotLeft, HasLock
<1>2. ASSUME NEW p \in Procs, Wakes(p) PROVE LockInv'
    BY <1>2, Moves DEF Wakes, Wake, LockInv, Places, UnderLock
<1>3. ASSUME NEW p \in Procs, PassingLock(p) PROVE LockInv'
    <2>1. CASE HasLock(p) /\ UNCHANGED <<lock, lockPid>>
        BY <1>3, <2>1, Moves DEF PassingLock, LockInv, Places, UnderLock
    <2>2. CASE lock > 0 /\ lock' = lock - 1 /\ lockPid' = p
        <3>1. pc' = [pc EXCEPT ![p] = "unlock"] /\ back' = back
            BY <1>3 DEF PassingLock, Goto
        <3> QED
            BY <2>2, <3>1 DEF LockInv, Releasing, Places, UnderLock, LockIsNotLeft, HasLock
    <2> QED
        BY <1>3, <2>1, <2>2 DEF PassingLock
<1>4. ASSUME NEW p \in Procs, CheckUnlock(p) PROVE LockInv'
    <2>1. /\ lock = 0 /\ lock' = 0 /\ lockPid' = lockPid
          /\ pc' = [pc EXCEPT ![p] = "release"] /\ back' = back
        BY <1>4 DEF CheckUnlock, Goto, HasLock, sems
    <2> QED
        BY <2>1 DEF LockInv, Releasing, Places, UnderLock, LockIsNotLeft, HasLock
<1>5. ASSUME NEW p \in Procs, ReleaseLock(p) PROVE LockInv'
    <2>1. pc[p] = "release" /\ lock' = lock + 1 /\ lockPid' = p
        BY <1>5 DEF ReleaseLock, Release
    <2>2. \E place \in Places \ {"release"} : pc' = [pc EXCEPT ![p] = place]
        BY <1>5 DEF ReleaseLock, Goto, LockInv, Backs, Places, UnderLock
    <2>3. back' \in [Procs -> Backs]
        BY <1>5 DEF ReleaseLock, LockInv, Backs
    <2> QED
        BY <2>1, <2>2, <2>3 DEF LockInv, Releasing, LockIsNotLeft, HasLock
<1>6. ASSUME NEW p \in Procs, UnlockRefused(p) PROVE LockInv'
    <2>1. back' \in [Procs -> Backs] /\ UNCHANGED <<lock, lockPid>> /\ ~HasLock(p)
        BY <1>6 DEF UnlockRefused, LockInv, Backs, sems
    <2>2. CASE UNCHANGED pc
        BY <2>1, <2>2 DEF LockInv, Releasing, LockIsNotLeft, HasLock
    <2>3. CASE \E place \in {"idle", "put", "get", "notify"} : Goto(p, place)
        BY <2>1, <2>3, Moves DEF Places, UnderLock
    <2> QED
        BY <1>6, <2>2, <2>3 DEF UnlockRefused
<1>7. ASSUME NEW p \in Procs, CheckNotify(p) \/ SetNotice(p) PROVE LockInv'
    <2>1. UNCHANGED <<lock, lockPid>> /\ back' \in [Procs -> Backs]
        BY <1>7 DEF CheckNotify, SetNotice, GoUnlock, sems, LockInv, Backs
    <2>2. \E place \in {"unlock", "notify_set"} : Goto(p, place)
        BY <1>7 DEF CheckNotify, SetNotice, GoUnlock
    <2> QED
        BY <2>1, <2>2, Moves DEF Places, UnderLock
<1>8. ASSUME NEW p \in Procs, Killed(p) PROVE LockInv'
    <2>1. /\ pc' = [pc EXCEPT ![p] = "dead"] /\ lock' = lock
          /\ lockPid' = IF lockPid = p THEN Nobody ELSE lockPid
          /\ back' \in [Procs -> Backs]
        BY <1>8 DEF Killed, Goto, LockInv, Backs
    <2> QED
        BY <2>1 DEF LockInv, Releasing, Places, LockIsNotLeft, HasLock
<1>9. ASSUME NEW r \in Record, PutBegins(r) PROVE LockInv'
    <2>1. UNCHANGED <<lock, lockPid>> /\ back' \in [Procs -> Backs] /\ pc[Writer] = "idle"
        BY <1>9 DEF PutBegins, InPassing, sems, LockInv, Backs
    <2>2. \E place \in {"put", "passing"} : Goto(Writer, place)
        BY <1>9 DEF PutBegins, InPassing
    <2> QED
        BY <2>1, <2>2, Moves DEF Places, UnderLock
<1>10. ASSUME PutFindsNoRoom \/ HeaderPiece \/ HeaderRest \/ DataPiece \/ DataRest
       PROVE  LockInv'
    <2>1. UNCHANGED <<lock, lockPid>> /\ back' \in [Procs -> Backs]
        BY <1>10 DEF PutFindsNoRoom, HeaderPiece, HeaderRest, DataPiece, DataRest, GoUnlock,
                     sems, LockInv, Backs
    <2>2. \E place \in {"unlock", "put_header_rest", "put_data", "put_data_rest", "notify"} :
             Goto(Writer, place)
        BY <1>10, Zenon DEF PutFindsNoRoom, HeaderPiece, HeaderRest, DataPiece, DataRest,
                            FirstPiece, Rest, GoUnlock
    <2> QED
        BY <2>1, <2>2, Moves DEF Places, UnderLock
<1>11. ASSUME GetBegins PROVE LockInv'
    <2>1. UNCHANGED <<lock, lockPid>> /\ back' \in [Procs -> Backs] /\ pc[Reader] = "idle"
        BY <1>11 DEF GetBegins, InPassing, sems, LockInv, Backs
    <2>2. \E place \in {"get", "passing"} : Goto(Reader, place)
        BY <1>11 DEF GetBegins, InPassing
    <2> QED
        BY <2>1, <2>2, Moves DEF Places, UnderLock
<1>12. ASSUME \/ GetFindsEmpty \/ GetFindsTooLittle \/ CopyHeader \/ CopyHeaderRest
              \/ TestHeader \/ CopyData \/ CopyNoData \/ CopyDataRest
       PROVE  LockInv'
    <2>1. UNCHANGED <<lock, lockPid>> /\ back' \in [Procs -> Backs]
        BY <1>12 DEF GetFindsEmpty, GetFindsTooLittle, CopyHeader, CopyHeaderRest, TestHeader,
                     CopyData, CopyNoData, CopyDataRest, DataGot, GoUnlock, InPassing, sems,
                     LockInv, Backs
    <2>2. \E place \in {"unlock", "header_copied", "header", "get_data", "data_copied",
                        "notify", "passing"} : Goto(Reader, place)
        BY <1>12, Zenon DEF GetFindsEmpty, GetFindsTooLittle, CopyHeader, CopyHeaderRest,
                     TestHeader, CopyData, CopyNoData, CopyDataRest, DataGot, GoUnlock, InPassing
    <2> QED
        BY <2>1, <2>2, Moves DEF Places, UnderLock
<1>13. ASSUME Exits PROVE LockInv'
    <2>1. /\ lock' = 0 /\ lockPid' = Nobody /\ back' = [p \in Procs |-> "end"]
          /\ pc' = [p \in Procs |-> IF p = Writer THEN "removed" ELSE "dead"]
        BY <1>13 DEF Exits
    <2> QED
        BY <2>1 DEF LockInv, Releasing, Places, Backs, LockIsNotLeft, HasLock
<1>14. ASSUME ReaderAttaches PROVE LockInv'
    <2>1. UNCHANGED <<lock, lockPid, back>> /\ Goto(Reader, "idle") /\ pc[Reader] = "dead"
        BY <1>14 DEF ReaderAttaches, sems
    <2> QED
        BY <2>1, Moves DEF LockInv, Places, UnderLock
<1>15. ASSUME EmptyOne \/ EmptyOther PROVE LockInv'
    <2>1. UNCHANGED <<lock, lockPid, back>> /\ pc[Writer] \notin UnderLock
        BY <1>15 DEF EmptyOne, EmptyOther, sems, UnderLock
    <2>2. \E place \in {"empty_read", "empty_write", "creating"} : Goto(Writer, place)
        BY <1>15 DEF EmptyOne, EmptyOther
    <2> QED
        BY <2>1, <2>2, Moves DEF LockInv, Places, UnderLock
<1>16. ASSUME SetSemaphores PROVE LockInv'
    <2>1. /\ lock' = 1 /\ lockPid' = Writer /\ pc[Writer] \in {"creating", "removed"}
          /\ pc' = [pc EXCEPT ![Writer] = "passing"] /\ back' = [back EXCEPT ![Writer] = "idle"]
        BY <1>16 DEF SetSemaphores, InPassing, Goto
    <2> QED
        BY <2>1 DEF LockInv, Releasing, Places, UnderLock, Backs, LockIsNotLeft, HasLock
<1>17. ASSUME UNCHANGED allVars PROVE LockInv'
    BY <1>17 DEF allVars, vars, sems, LockInv, Releasing, LockIsNotLeft, HasLock
<1> QED
    BY <1>1, <1>2, <1>3, <1>4, <1>5, <1>6, <1>7, <1>8, <1>9, <1>10, <1>11, <1>12, <1>13,
       <1>14, <1>15, <1>16, <1>17 DEF RestartNext

\* shmfifo.c:198-292, 800-860, 1140-1147: whatever process is killed or exits and
\* begins again, and wherever debug messages are printed, a process that lives and
\* has the lock is on its way to shmfifo_unlock(), so that its next shmfifo_lock()
\* is not refused; only death leaves the lock taken behind.
THEOREM LiveProcessesUnlock == RestartSpec => []LockIsNotLeft
<1>1. LockInv /\ [RestartNext]_allVars => LockInv'
    BY StepLock
<1>2. LockInv => LockIsNotLeft
    BY DEF LockInv
<1> QED
    BY <1>1, <1>2, RestartInitLock, PTL DEF RestartSpec

-----------------------------------------------------------------------------
(***************************************************************************)
(* The ring.                                                               *)
(***************************************************************************)

\* What a shmfifo_ll_get() of n bytes has left when its first memcpy() is done: it
\* copied all, or up to the end of the ring, from where read was, and read is where
\* it was or was set to 0 since.
HalfCopied(n) ==
    /\ Len(copied) \in 1..n
    /\ from + Len(copied) <= Cap
    /\ Len(copied) = n \/ from + Len(copied) = Cap
    /\ read \in {from, 0}

RingType ==
    /\ ring \in [0..Cap - 1 -> Byte]
    /\ read \in 0..Cap - 1
    /\ write \in 0..Cap - 1
    /\ placed \in 0..Cap
    /\ copied \in Seq(Byte)
    /\ Len(copied) <= Cap
    /\ from \in 0..Cap - 1
    /\ rec \in Record
    /\ header \in Record
    /\ pc[Reader] = "header_copied" => HalfCopied(H)
    /\ pc[Reader] = "header" => Len(copied) = H
    /\ pc[Reader] = "data_copied" => HalfCopied(header.sz)

\* The variables that have few values.
FlagsType ==
    /\ notice \in [Procs -> {0, 1}]
    /\ nbytes \in Nat
    /\ stale \in BOOLEAN
    /\ spoilt \in BOOLEAN
    /\ result \in [Procs -> {"none", "ok", "EINVAL"}]

TypeInv == LockInv /\ FlagsType /\ RingType

LEMMA TypeFromInv == TypeInv => RestartTypeOK
BY DEF TypeInv, RestartTypeOK, FlagsType, RingType, LockInv, Releasing, Byte, Backs, Procs

LEMMA SizeFacts ==
    /\ Cap \in Nat /\ H \in Nat /\ 0 < H /\ H < Cap
    /\ \A r \in Record : r.sz \in Nat /\ 0 < r.sz /\ r.sz < Cap
    /\ Blank \in Byte
<1>1. Cap \in Nat /\ H \in Nat /\ 0 < H
    BY SizeAssumption
<1>2. \A sz \in Sizes : sz \in Nat /\ 0 < sz /\ sz < Cap /\ H < Cap
    BY <1>1, SizeAssumption, BufferAssumption
<1>3. PICK tag \in Tag, sz \in Sizes : TRUE
    BY SizeAssumption
<1>4. [tag |-> tag, sz |-> sz] \in Record
    BY <1>3 DEF Record
<1>5. Blank \in Byte
    BY <1>4 DEF Blank, Byte
<1> QED
    BY <1>1, <1>2, <1>3, <1>5 DEF Record

\* The bytes of a record.
LEMMA RecordBytes ==
    ASSUME NEW r \in Record
    PROVE  /\ Header(r) \in Seq(Byte) /\ Len(Header(r)) = H
           /\ Data(r) \in Seq(Byte) /\ Len(Data(r)) = r.sz
<1>0. r.sz \in Nat /\ H \in Nat
    BY SizeFacts
<1>1. Header(r) = [i \in 1..H |-> [rec |-> r, pos |-> 1 + i - 1]]
    BY <1>0 DEF Header, Bytes
<1>2. Data(r) = [i \in 1..r.sz |-> [rec |-> r, pos |-> (H + 1) + i - 1]]
    BY <1>0 DEF Data, Bytes
<1>3. /\ \A i \in 1..H : [rec |-> r, pos |-> 1 + i - 1] \in Byte
      /\ \A i \in 1..r.sz : [rec |-> r, pos |-> (H + 1) + i - 1] \in Byte
    BY <1>0 DEF Byte
<1>4. Header(r) \in Seq(Byte) /\ Len(Header(r)) = H
    BY <1>0, <1>1, <1>3
<1>5. Data(r) \in Seq(Byte) /\ Len(Data(r)) = r.sz
    BY <1>0, <1>2, <1>3
<1> QED
    BY <1>4, <1>5

\* Bytes stored from any offset, fewer than the ring has, stay inside it.
LEMMA StoreType ==
    ASSUME RestartTypeOK, NEW bytes \in Seq(Byte), Len(bytes) < Cap, Store(bytes)
    PROVE  ring' \in [0..Cap - 1 -> Byte] /\ write' \in 0..Cap - 1
<1> DEFINE sz == Len(bytes)
           copysz == Smaller(Cap - write, sz)
<1>1. /\ write' = Advance(write, sz, copysz)
      /\ ring' = [o \in 0..Cap - 1 |->
                    IF o \in write..write + copysz - 1 THEN bytes[o - write + 1]
                    ELSE IF o < sz - copysz THEN bytes[o + copysz + 1]
                    ELSE ring[o]]
    BY DEF Store
<1>2. /\ Cap \in Nat /\ write \in 0..Cap - 1 /\ sz \in Nat /\ sz < Cap
      /\ copysz = IF Cap - write <= sz THEN Cap - write ELSE sz
      /\ ring \in [0..Cap - 1 -> Byte]
    BY SizeFacts DEF RestartTypeOK, Smaller, Byte
<1>3. \A i \in 1..sz : bytes[i] \in Byte
    OBVIOUS
<1> HIDE DEF sz, copysz
<1>4. write' \in 0..Cap - 1
    BY <1>1, <1>2 DEF Advance
<1>5. ASSUME NEW o \in 0..Cap - 1 PROVE ring'[o] \in Byte
    <2>1. CASE o \in write..write + copysz - 1
        <3>1. o - write + 1 \in 1..sz
            BY <1>2, <2>1
        <3> QED
            BY <1>1, <1>3, <2>1, <3>1
    <2>2. CASE o \notin write..write + copysz - 1 /\ o < sz - copysz
        <3>1. o + copysz + 1 \in 1..sz
            BY <1>2, <2>2
        <3> QED
            BY <1>1, <1>3, <2>2, <3>1
    <2>3. CASE o \notin write..write + copysz - 1 /\ ~(o < sz - copysz)
        BY <1>1, <1>2, <2>3
    <2> QED
        BY <2>1, <2>2, <2>3
<1> QED
    BY <1>1, <1>4, <1>5

LEMMA PieceType ==
    ASSUME RestartTypeOK, NEW bytes \in Seq(Byte), Len(bytes) < Cap, NEW more, NEW next,
           FirstPiece(bytes, more, next)
    PROVE  /\ ring' \in [0..Cap - 1 -> Byte] /\ write' \in 0..Cap - 1 /\ placed' \in 0..Cap
<1> DEFINE n == Smaller(Cap - write, Len(bytes))
           piece == SubSeq(bytes, 1, n)
<1>1. n \in 0..Len(bytes) /\ n < Cap
    BY SizeFacts DEF RestartTypeOK, Smaller
<1>2. piece \in Seq(Byte) /\ Len(piece) = n
    <2>1. \A i \in 1..n : bytes[i] \in Byte
        BY <1>1
    <2> QED
        BY <1>1, <2>1, SubSeqProperties
<1> HIDE DEF n
<1>3. CASE MemFree < Len(bytes)
    BY <1>3 DEF FirstPiece, RestartTypeOK, Byte
<1>4. CASE ~(MemFree < Len(bytes))
    <2>1. Store(piece) /\ placed' \in {0, Len(piece)}
        BY <1>4 DEF FirstPiece, n
    <2> HIDE DEF piece
    <2>2. ring' \in [0..Cap - 1 -> Byte] /\ write' \in 0..Cap - 1
        BY <1>1, <1>2, <2>1, StoreType
    <2> QED
        BY <1>1, <1>2, <2>1, <2>2, SizeFacts
<1> QED
    BY <1>3, <1>4

LEMMA RestType ==
    ASSUME RestartTypeOK, NEW bytes \in Seq(Byte), Len(bytes) < Cap, NEW next,
           Rest(bytes, next)
    PROVE  /\ ring' \in [0..Cap - 1 -> Byte] /\ write' \in 0..Cap - 1 /\ placed' \in 0..Cap
<1> DEFINE piece == SubSeq(bytes, placed + 1, Len(bytes))
<1>1. placed \in Nat
    BY SizeFacts DEF RestartTypeOK
<1>2. piece \in Seq(Byte) /\ Len(piece) \in Nat /\ Len(piece) <= Len(bytes)
    <2>1. \A i \in placed + 1..Len(bytes) : bytes[i] \in Byte
        BY <1>1
    <2> QED
        BY <1>1, <2>1, SubSeqProperties
<1>3. Store(piece) /\ placed' = 0
    BY DEF Rest
<1> HIDE DEF piece
<1>4. Len(piece) < Cap
    BY <1>2, SizeFacts
<1> QED
    BY <1>2, <1>3, <1>4, StoreType, SizeFacts

\* The first memcpy() of n bytes that are there.
LEMMA CopyPieceType ==
    ASSUME RestartTypeOK, NEW n \in 1..Cap - 1, n <= MemUsed, CopyPiece(n), read' = read
    PROVE  copied' \in Seq(Byte) /\ from' \in 0..Cap - 1 /\ HalfCopied(n)'
<1> DEFINE piece == GetPiece(n)
<1>1. /\ Cap \in Nat /\ read \in 0..Cap - 1 /\ ring \in [0..Cap - 1 -> Byte]
      /\ piece \in 1..n /\ read + piece <= Cap
      /\ piece = n \/ read + piece = Cap
    BY SizeFacts DEF RestartTypeOK, Byte, GetPiece, Smaller, MemUsed
<1>2. copied' = [i \in 1..piece |-> ring[read + i - 1]] /\ from' = read
    BY DEF CopyPiece
<1> HIDE DEF piece
<1>3. \A i \in 1..piece : ring[read + i - 1] \in Byte
    BY <1>1
<1>4. copied' \in Seq(Byte) /\ Len(copied') = piece
    BY <1>1, <1>2, <1>3
<1> QED
    BY <1>1, <1>2, <1>4 DEF HalfCopied

\* The rest of it, whatever line 816 did since.
LEMMA CopyRestType ==
    ASSUME RestartTypeOK, copied \in Seq(Byte), NEW n \in 1..Cap - 1, HalfCopied(n),
           NEW bytes, NEW newRead, CopyRest(n, bytes, newRead)
    PROVE  bytes \in Seq(Byte) /\ Len(bytes) = n /\ newRead \in 0..Cap - 1
<1>1. PICK start \in {from, read} :
          LET next == start + Len(copied)
              at == IF next = Cap THEN 0 ELSE next
              rest == n - Len(copied)
          IN  /\ bytes = copied \o [i \in 1..rest |-> ring[at + i - 1]]
              /\ newRead = at + rest
    BY DEF CopyRest
<1> DEFINE l == Len(copied)
           at == IF start + l = Cap THEN 0 ELSE start + l
           rest == n - l
           tail == [i \in 1..rest |-> ring[at + i - 1]]
<1>2. bytes = copied \o tail /\ newRead = at + rest
    BY <1>1
<1>3. /\ Cap \in Nat /\ from \in 0..Cap - 1 /\ ring \in [0..Cap - 1 -> Byte]
      /\ l \in 1..n /\ from + l <= Cap /\ (l = n \/ from + l = Cap)
      /\ start \in {from, 0}
    BY SizeFacts DEF RestartTypeOK, Byte, HalfCopied
<1> HIDE DEF l
<1>4. at \in 0..Cap - 1 /\ rest \in Nat /\ at + rest \in 0..Cap - 1
    BY <1>3
<1> HIDE DEF at, rest
<1>5. \A i \in 1..rest : ring[at + i - 1] \in Byte
    BY <1>3, <1>4
<1>6. tail \in Seq(Byte) /\ Len(tail) = rest
    BY <1>4, <1>5
<1> HIDE DEF tail
<1>7. bytes \in Seq(Byte) /\ Len(bytes) = l + rest
    BY <1>2, <1>6, ConcatProperties DEF l
<1> QED
    BY <1>2, <1>3, <1>4, <1>7 DEF rest

-----------------------------------------------------------------------------
LEMMA RestartInitType == RestartInit => TypeInv
<1> SUFFICES ASSUME RestartInit PROVE TypeInv
    OBVIOUS
<1>1. FlagsType
    BY DEF RestartInit, Init, FlagsType
<1>2. RingType
    <2>1. ring \in [0..Cap - 1 -> Byte]
        BY SizeFacts DEF RestartInit, Init
    <2>2. copied \in Seq(Byte) /\ Len(copied) = 0
        BY DEF RestartInit
    <2>3. pc[Reader] = "idle"
        BY DEF RestartInit, Init, Procs
    <2> QED
        BY <2>1, <2>2, <2>3, SizeFacts DEF RestartInit, Init, RingType
<1> QED
    BY <1>1, <1>2, RestartInitLock DEF TypeInv

LEMMA StepFlags == TypeInv /\ [RestartNext]_allVars => FlagsType'
<1> SUFFICES ASSUME TypeInv, [RestartNext]_allVars PROVE FlagsType'
    OBVIOUS
<1> USE DEF FlagsType, Procs
<1>0. FlagsType /\ header.sz \in Nat
    BY SizeFacts DEF TypeInv, RingType
<1>1. ASSUME NEW p \in Procs,
             \/ Locks(p) \/ Wakes(p) \/ PassingLock(p) \/ CheckUnlock(p) \/ ReleaseLock(p)
             \/ UnlockRefused(p) \/ CheckNotify(p)
      PROVE  FlagsType'
    BY <1>0, <1>1 DEF Locks, Lock, Wakes, Wake, PassingLock, CheckUnlock, ReleaseLock,
                      UnlockRefused, CheckNotify, GoUnlock, sems, get
<1>2. ASSUME NEW p \in Procs, SetNotice(p) PROVE FlagsType'
    BY <1>0, <1>2 DEF SetNotice
<1>3. ASSUME NEW p \in Procs, Killed(p) PROVE FlagsType'
    <2>1. notice' = notice
        BY <1>3 DEF Killed
    <2>2. result' \in [Procs -> {"none", "ok", "EINVAL"}]
        BY <1>0, <1>3 DEF Killed
    <2>3. nbytes' \in Nat /\ stale' \in BOOLEAN /\ spoilt' \in BOOLEAN
        <3>1. CASE p = Reader
            <4>1. ReaderForgets /\ spoilt' = spoilt
                BY <1>3, <3>1, Zenon DEF Killed
            <4> QED
                BY <1>0, <4>1 DEF ReaderForgets
        <3>2. CASE p # Reader
            BY <1>0, <1>3, <3>2 DEF Killed, get
        <3> QED
            BY <3>1, <3>2
    <2> QED
        BY <1>0, <2>1, <2>2, <2>3
<1>4. ASSUME NEW r \in Record, PutBegins(r) PROVE FlagsType'
    BY <1>0, <1>4 DEF PutBegins, sems, get
<1>5. ASSUME PutFindsNoRoom \/ HeaderPiece \/ HeaderRest \/ DataPiece \/ DataRest
      PROVE  FlagsType'
    BY <1>0, <1>5 DEF PutFindsNoRoom, HeaderPiece, HeaderRest, DataPiece, DataRest, GoUnlock,
                      sems, get
<1>6. ASSUME GetBegins PROVE FlagsType'
    BY <1>0, <1>6 DEF GetBegins, sems
<1>14. ASSUME GetFindsEmpty \/ GetFindsTooLittle PROVE FlagsType'
    BY <1>0, <1>14 DEF GetFindsEmpty, GetFindsTooLittle, sems, get
<1>7. ASSUME CopyHeader \/ CopyHeaderRest PROVE FlagsType'
    BY <1>0, <1>7 DEF CopyHeader, CopyHeaderRest, UsesRing, sems
<1>8. ASSUME TestHeader PROVE FlagsType'
    BY <1>0, <1>8 DEF TestHeader, UsesRing, sems
<1>9. ASSUME CopyData \/ CopyNoData \/ CopyDataRest PROVE FlagsType'
    BY <1>0, <1>9 DEF CopyData, CopyNoData, CopyDataRest, UsesRing, sems
<1>10. ASSUME Exits PROVE FlagsType'
    BY <1>0, <1>10 DEF Exits, ReaderForgets
<1>11. ASSUME ReaderAttaches \/ SetSemaphores PROVE FlagsType'
    BY <1>0, <1>11 DEF ReaderAttaches, SetSemaphores, sems, get
<1>12. ASSUME EmptyOne \/ EmptyOther PROVE FlagsType'
    BY <1>0, <1>12 DEF EmptyOne, EmptyOther, Overtakes, sems
<1>13. ASSUME UNCHANGED allVars PROVE FlagsType'
    BY <1>0, <1>13 DEF allVars, vars, sems
<1> QED
    BY <1>1, <1>2, <1>3, <1>4, <1>5, <1>6, <1>7, <1>8, <1>9, <1>10, <1>11, <1>12, <1>13,
       <1>14 DEF RestartNext

\* Steps that leave the ring and what is being copied alone.
LEMMA RingKept ==
    ASSUME TypeInv, UNCHANGED <<ring, read, write, placed, copied, from, header>>,
           rec' \in Record,
           pc[Reader]' \in {"header_copied", "header", "data_copied"} => pc[Reader]' = pc[Reader]
    PROVE  RingType'
BY DEF TypeInv, RingType, HalfCopied

\* Steps of shmfifo_ll_put().
LEMMA RingStored ==
    ASSUME TypeInv, ring' \in [0..Cap - 1 -> Byte], write' \in 0..Cap - 1,
           placed' \in 0..Cap, NEW place, Goto(Writer, place),
           UNCHANGED <<read, copied, from, header, rec>>
    PROVE  RingType'
<1>1. pc[Reader]' = pc[Reader]
    BY ProcAssumption DEF Goto, TypeInv, LockInv, Procs
<1> QED
    BY <1>1 DEF TypeInv, RingType, HalfCopied

LEMMA StepRing == TypeInv /\ [RestartNext]_allVars => RingType'
<1> SUFFICES ASSUME TypeInv, [RestartNext]_allVars PROVE RingType'
    OBVIOUS
<1> USE ProcAssumption
<1>t. /\ RestartTypeOK /\ RingType /\ rec \in Record /\ header \in Record
      /\ pc \in [Procs -> Places] /\ back \in [Procs -> Backs]
    BY TypeFromInv DEF TypeInv, RingType, LockInv
<1>s. /\ H \in 1..Cap - 1 /\ header.sz \in 1..Cap - 1 /\ rec.sz \in 1..Cap - 1
      /\ Cap \in Nat
    BY <1>t, SizeFacts
<1>0. ASSUME NEW p \in Procs, NEW place, Goto(p, place),
             place \notin {"header_copied", "header", "data_copied"}
      PROVE  pc[Reader]' \in {"header_copied", "header", "data_copied"}
                => pc[Reader]' = pc[Reader]
    BY <1>0, <1>t DEF Goto, Procs
<1>1. ASSUME NEW p \in Procs, Locks(p) \/ Wakes(p) \/ PassingLock(p) \/ CheckUnlock(p)
      PROVE  RingType'
    <2>1. UNCHANGED <<ring, read, write, placed, copied, from, header, rec>>
        BY <1>1 DEF Locks, Lock, Wakes, Wake, PassingLock, CheckUnlock, queue, put, get
    <2>2. \E place \in {"put_locked", "get_locked", "put", "get", "unlock", "release"} :
             Goto(p, place)
        BY <1>1 DEF Locks, Lock, Wakes, Wake, PassingLock, CheckUnlock
    <2> QED
        BY <1>0, <1>t, <2>1, <2>2, RingKept
<1>2. ASSUME NEW p \in Procs,
             ReleaseLock(p) \/ UnlockRefused(p) \/ CheckNotify(p) \/ SetNotice(p)
      PROVE  RingType'
    <2>1. UNCHANGED <<ring, read, write, placed, copied, from, header, rec>>
        BY <1>2 DEF ReleaseLock, UnlockRefused, CheckNotify, SetNotice, queue, put, get
    <2>2. \/ \E place \in Backs \union {"unlock", "notify_set"} : Goto(p, place)
          \/ UNCHANGED pc
        <3>1. CASE ReleaseLock(p)
            BY <1>t, <3>1 DEF ReleaseLock, Backs
        <3>2. CASE UnlockRefused(p)
            BY <1>t, <3>2 DEF UnlockRefused, Backs
        <3>3. CASE CheckNotify(p) \/ SetNotice(p)
            BY <3>3 DEF CheckNotify, SetNotice, GoUnlock
        <3> QED
            BY <1>2, <3>1, <3>2, <3>3
    <2> QED
        BY <1>0, <1>t, <2>1, <2>2, RingKept DEF Backs
<1>3. ASSUME NEW p \in Procs, Killed(p) PROVE RingType'
    <2>1. CASE p = Writer
        <3>1. UNCHANGED <<ring, read, write, copied, from, header>> /\ placed' = 0
              /\ rec' = Blank.rec /\ Goto(Writer, "dead")
            BY <1>3, <2>1 DEF Killed, WriterForgets, queue, get
        <3>2. pc[Reader]' = pc[Reader]
            BY <1>t, <3>1 DEF Goto, Procs
        <3> QED
            BY <1>t, <1>s, <3>1, <3>2, SizeFacts DEF RingType, HalfCopied, Byte
    <2>2. CASE p = Reader
        <3>1. UNCHANGED <<ring, read, write, rec, placed>> /\ ReaderForgets
              /\ pc[Reader]' = "dead"
            BY <1>3, <1>t, <2>2 DEF Killed, queue, put, Goto
        <3>2. copied' \in Seq(Byte) /\ Len(copied') = 0 /\ from' = 0 /\ header' \in Record
            BY <3>1, SizeFacts DEF ReaderForgets, Byte
        <3> QED
            BY <1>t, <1>s, <3>1, <3>2 DEF RingType
    <2> QED
        BY <2>1, <2>2 DEF Procs
<1>4. ASSUME NEW r \in Record, PutBegins(r) PROVE RingType'
    <2>1. UNCHANGED <<ring, read, write, placed, copied, from, header>> /\ rec' = r
          /\ \E place \in {"put", "passing"} : Goto(Writer, place)
        BY <1>4 DEF PutBegins, InPassing, queue, get
    <2> QED
        BY <1>0, <2>1, RingKept DEF Procs
<1>5. ASSUME PutFindsNoRoom PROVE RingType'
    BY <1>0, <1>t, <1>5, RingKept DEF PutFindsNoRoom, GoUnlock, queue, put, get, Procs
<1>6. ASSUME HeaderPiece \/ DataPiece PROVE RingType'
    <2>1. /\ UNCHANGED <<read, rec, copied, from, header>>
          /\ \/ FirstPiece(Header(rec), "put_header_rest", "put_data")
             \/ FirstPiece(Data(rec), "put_data_rest", "notify")
        BY <1>6 DEF HeaderPiece, DataPiece, get
    <2>2. ring' \in [0..Cap - 1 -> Byte] /\ write' \in 0..Cap - 1 /\ placed' \in 0..Cap
        BY <1>t, <1>s, <2>1, RecordBytes, PieceType
    <2>3. \E place : Goto(Writer, place)
        BY <2>1, Zenon DEF FirstPiece
    <2> QED
        BY <2>1, <2>2, <2>3, RingStored
<1>7. ASSUME HeaderRest \/ DataRest PROVE RingType'
    <2>1. /\ UNCHANGED <<read, rec, copied, from, header>>
          /\ Rest(Header(rec), "put_data") \/ Rest(Data(rec), "notify")
        BY <1>7 DEF HeaderRest, DataRest, get
    <2>2. ring' \in [0..Cap - 1 -> Byte] /\ write' \in 0..Cap - 1 /\ placed' \in 0..Cap
        BY <1>t, <1>s, <2>1, RecordBytes, RestType
    <2>3. \E place : Goto(Writer, place)
        BY <2>1, Zenon DEF Rest
    <2> QED
        BY <2>1, <2>2, <2>3, RingStored
<1>8. ASSUME GetBegins \/ GetFindsEmpty \/ GetFindsTooLittle \/ CopyNoData PROVE RingType'
    <2>1. UNCHANGED <<ring, read, write, placed, copied, from, header, rec>>
        BY <1>8 DEF GetBegins, GetFindsEmpty, GetFindsTooLittle, CopyNoData, queue, put, get
    <2>2. \E place \in {"get", "passing", "unlock", "notify"} : Goto(Reader, place)
        BY <1>8 DEF GetBegins, GetFindsEmpty, GetFindsTooLittle, CopyNoData, DataGot,
                    GoUnlock, InPassing
    <2> QED
        BY <1>0, <1>t, <2>1, <2>2, RingKept DEF Procs
<1>9. ASSUME CopyHeader PROVE RingType'
    <2>1. /\ CopyPiece(H) /\ H <= MemUsed /\ pc[Reader]' = "header_copied"
          /\ UNCHANGED <<ring, read, write, placed, header, rec>>
        BY <1>9, <1>t, <1>s DEF CopyHeader, Goto, Procs, queue, put, MemUsed, RestartTypeOK
    <2>2. copied' \in Seq(Byte) /\ from' \in 0..Cap - 1 /\ HalfCopied(H)'
        BY <1>t, <1>s, <2>1, CopyPieceType
    <2> QED
        BY <1>t, <1>s, <2>1, <2>2 DEF RingType, HalfCopied
<1>10. ASSUME CopyHeaderRest PROVE RingType'
    <2>1. /\ CopyRest(H, copied', read') /\ HalfCopied(H) /\ copied \in Seq(Byte)
          /\ from' = 0 /\ pc[Reader]' = "header"
          /\ UNCHANGED <<ring, write, placed, header, rec>>
        BY <1>10, <1>t DEF CopyHeaderRest, CopyRest, RingType, Goto, Procs, put
    <2>2. copied' \in Seq(Byte) /\ Len(copied') = H /\ read' \in 0..Cap - 1
        BY <1>t, <1>s, <2>1, CopyRestType
    <2> QED
        BY <1>t, <1>s, <2>1, <2>2 DEF RingType
<1>11. ASSUME TestHeader PROVE RingType'
    <2>1. /\ copied' = <<>> /\ UNCHANGED <<ring, write, placed, from, rec>>
          /\ pc[Reader]' \in {"get_data", "unlock"}
        BY <1>11, <1>t DEF TestHeader, GoUnlock, Goto, Procs, put
    <2>2. read' \in 0..Cap - 1
        BY <1>11, <1>t, <1>s DEF TestHeader, RingType, Rewound
    <2>3. header' \in Record
        <3>1. copied[1] \in Byte
            BY <1>11, <1>t, <1>s DEF TestHeader, RingType
        <3>2. HeaderSizes \subseteq Record
            BY <3>1 DEF HeaderSizes, Byte
        <3> QED
            BY <1>11, <1>t, <3>2 DEF TestHeader
    <2> QED
        BY <1>t, <1>s, <2>1, <2>2, <2>3 DEF RingType
<1>12. ASSUME CopyData PROVE RingType'
    <2>1. /\ CopyPiece(header.sz) /\ header.sz <= MemUsed /\ pc[Reader]' = "data_copied"
          /\ UNCHANGED <<ring, read, write, placed, header, rec>>
        BY <1>12, <1>t, <1>s DEF CopyData, Goto, Procs, queue, put, MemUsed, RestartTypeOK
    <2>2. copied' \in Seq(Byte) /\ from' \in 0..Cap - 1 /\ HalfCopied(header.sz)'
        BY <1>t, <1>s, <2>1, CopyPieceType
    <2> QED
        BY <1>t, <1>s, <2>1, <2>2 DEF RingType, HalfCopied
<1>13. ASSUME CopyDataRest PROVE RingType'
    <2>1. /\ CopyRest(header.sz, got', read') /\ HalfCopied(header.sz)
          /\ copied \in Seq(Byte) /\ copied' = <<>> /\ from' = 0
          /\ pc[Reader]' \in {"notify", "passing"}
          /\ UNCHANGED <<ring, write, placed, header, rec>>
        BY <1>13, <1>t DEF CopyDataRest, CopyRest, DataGot, InPassing, RingType, Goto, Procs,
                           put
    <2>2. read' \in 0..Cap - 1
        BY <1>t, <1>s, <2>1, CopyRestType
    <2> QED
        BY <1>t, <1>s, <2>1, <2>2 DEF RingType
<1>14. ASSUME Exits PROVE RingType'
    <2>1. /\ ring' = [o \in 0..Cap - 1 |-> Blank] /\ read' = 0 /\ write' = 0
          /\ rec' = Blank.rec /\ placed' = 0 /\ header' = Blank.rec /\ copied' = <<>>
          /\ from' = 0 /\ pc'[Reader] = "dead"
        BY <1>14 DEF Exits, WriterForgets, ReaderForgets, Procs
    <2>2. Blank.rec \in Record
        BY SizeFacts DEF Byte
    <2> QED
        BY <1>s, <2>1, <2>2, SizeFacts DEF RingType
<1>15. ASSUME ReaderAttaches \/ SetSemaphores PROVE RingType'
    <2>1. UNCHANGED <<ring, read, write, placed, copied, from, header, rec>>
        BY <1>15 DEF ReaderAttaches, SetSemaphores, queue, put, get
    <2>2. Goto(Reader, "idle") \/ Goto(Writer, "passing")
        BY <1>15 DEF ReaderAttaches, SetSemaphores, InPassing
    <2> QED
        BY <1>0, <1>t, <2>1, <2>2, RingKept DEF Procs
<1>16. ASSUME EmptyOne \/ EmptyOther PROVE RingType'
    <2>1. /\ read' \in {read, 0} /\ write' \in {write, 0}
          /\ UNCHANGED <<ring, placed, copied, from, header, rec>>
        BY <1>16 DEF EmptyOne, EmptyOther, put
    <2>2. \E place : Goto(Writer, place)
        BY <1>16 DEF EmptyOne, EmptyOther
    <2>3. pc[Reader]' = pc[Reader]
        BY <1>t, <2>2 DEF Goto, Procs
    <2> QED
        BY <1>t, <1>s, <2>1, <2>3 DEF RingType, HalfCopied
<1>17. ASSUME UNCHANGED allVars PROVE RingType'
    BY <1>t, <1>17, RingKept DEF allVars, vars, queue
<1> QED
    BY <1>1, <1>2, <1>3, <1>4, <1>5, <1>6, <1>7, <1>8, <1>9, <1>10, <1>11, <1>12, <1>13,
       <1>14, <1>15, <1>16, <1>17 DEF RestartNext

\* shmfifo.c:198-292, 297-439, 806-856: whatever is killed, exits and begins again,
\* the offsets stay inside the ring, also for a call in whose middle line 816 sets
\* them to 0, and the semaphore of the lock is 2 at most.
THEOREM RestartTypeCorrect == RestartSpec => []RestartTypeOK
<1>1. TypeInv /\ [RestartNext]_allVars => TypeInv'
    BY StepLock, StepFlags, StepRing DEF TypeInv
<1> QED
    BY <1>1, RestartInitType, TypeFromInv, PTL DEF RestartSpec
=============================================================================
