------------------------------ MODULE ShmFifo ------------------------------
(***************************************************************************)
(* The shared-memory FIFO of shmfifo.c between two processes: dvbs_multicast *)
(* puts records (datagrams) and readnoaaport, or dvbs_multicast's own      *)
(* child, gets them.  A record is stored as a header and its data.         *)
(*                                                                         *)
(* One System V semaphore is the lock; its value and the process that set  *)
(* it last are what checkLocked() and checkUnlocked() look at.  Two more,  *)
(* set to 1 by a notification, are what the processes sleep on.            *)
(*                                                                         *)
(* Here both processes live and the FIFO is created once; nothing is       *)
(* printed under the lock.  Then only the lock's holder operates on the    *)
(* ring and on the lock (AloneUnderLock), so that checkLocked() and the    *)
(* semop() it allows, and each shmfifo_ll_put() and shmfifo_ll_get(), are  *)
(* one step.  ShmRestart takes them apart: there processes die, the FIFO   *)
(* is created anew under a reader and debug messages are logged.           *)
(* Offsets count from the end of the prefix and the private part (privsz)  *)
(* of the segment.                                                         *)
(***************************************************************************)
EXTENDS Naturals, Sequences

CONSTANTS Writer, Reader,  \* the processes
          Tag,             \* records of one size are told apart by a tag
          Cap,             \* the ring's bytes: sz - sizeof(prefix) - privsz
          H,               \* sizeof(struct shmbh)
          Sizes,           \* of the records put
          BufSize          \* of the buffer that shmfifo_get() is given

Procs == {Writer, Reader}
Peer(p) == IF p = Writer THEN Reader ELSE Writer

ASSUME ProcAssumption == Writer # Reader
ASSUME SizeAssumption == Cap \in Nat \ {0} /\ H \in Nat \ {0} /\ BufSize \in Nat \ {0}
                         /\ Sizes \subseteq Nat \ {0} /\ Sizes # {} /\ Tag # {}

VARIABLES
    ring,      \* the bytes: which record, and which byte of its encoding
    read, write,
    lock,      \* value of semaphore SI_LOCK
    lockPid,   \* the process that performed the last operation on it
    notice,    \* values of semaphores SI_WRITER and SI_READER
    pc,        \* per process: where it is in shmfifo_put() or shmfifo_get()
    rec,       \* the record being put
    header,    \* the record whose header has been got
    got,       \* the data got by the current or last get
    nbytes,    \* *nbytes of it, 0 when not set
    result     \* per process: what its last call returned

queue == <<ring, read, write>>
sems == <<lock, lockPid, notice>>
vars == <<queue, sems, pc, rec, header, got, nbytes, result>>

Record == [tag : Tag, sz : Sizes]

Blank == [rec |-> CHOOSE r \in Record : TRUE, pos |-> 0]

\* The bytes of a record: its header, then its data.
Bytes(r, from, to) == [i \in 1..to - from + 1 |-> [rec |-> r, pos |-> from + i - 1]]
Header(r) == Bytes(r, 1, H)
Data(r) == Bytes(r, H + 1, H + r.sz)

-----------------------------------------------------------------------------
(***************************************************************************)
(* The ring: shmfifo_ll_...().  It is never filled: read = write means     *)
(* empty.                                                                  *)
(***************************************************************************)
MemFree == IF write >= read THEN (Cap - write) + read ELSE read - write
MemUsed == IF write >= read THEN write - read ELSE Cap - read + write

Smaller(a, b) == IF a <= b THEN a ELSE b

\* An offset advanced by n bytes, the first copysz of them in one piece.
Advance_NoWrap(offset, n, copysz) == offset + n
Advance(offset, n, copysz) ==
    LET next == IF offset + copysz = Cap THEN 0 ELSE offset + copysz
    IN  next + (n - copysz)

\* Bytes stored from write on, and write behind them.
Store(bytes) ==
    LET sz == Len(bytes)
        copysz == Smaller(Cap - write, sz)
    IN  /\ write' = Advance(write, sz, copysz)
        /\ ring' = [o \in 0..Cap - 1 |->
                       IF o \in write..write + copysz - 1 THEN bytes[o - write + 1]
                       ELSE IF o < sz - copysz THEN bytes[o + copysz + 1]
                       ELSE ring[o]]

LlPut(bytes) == IF MemFree < Len(bytes) THEN UNCHANGED <<ring, write>> ELSE Store(bytes)

\* The next n bytes to get, and the offset after them.
GetPiece(n) == IF write > read THEN Smaller(write - read, n) ELSE Smaller(Cap - read, n)
Peek(n) == [i \in 1..n |-> IF i <= GetPiece(n) THEN ring[read + i - 1]
                                                ELSE ring[i - GetPiece(n) - 1]]
ReadAfter(n) == Advance(read, n, GetPiece(n))

\* shmfifo_ll_hrewind(): a header back from an offset; it goes below zero when
\* the header ran over the end.
Rewound_NoWrap(offset) == IF offset >= H THEN offset - H ELSE 0
Rewound(offset) == IF offset >= H THEN offset - H ELSE Cap + offset - H

-----------------------------------------------------------------------------
(***************************************************************************)
(* The lock.                                                               *)
(***************************************************************************)
Init ==
    /\ ring = [o \in 0..Cap - 1 |-> Blank]
    /\ read = 0
    /\ write = 0
    /\ lock = 1
    /\ lockPid = Writer
    /\ notice = [p \in Procs |-> 0]
    /\ pc = [p \in Procs |-> "idle"]
    /\ rec \in Record
    /\ header = rec
    /\ got = <<>>
    /\ nbytes = 0
    /\ result = [p \in Procs |-> "none"]

Goto(p, place) == pc' = [pc EXCEPT ![p] = place]

\* checkLocked(): every operation under the lock but the copies asks for it.
HasLock(p) == lock = 0 /\ lockPid = p

Release(p) == lock' = lock + 1 /\ lockPid' = p

\* shmfifo_lock(), of a call or after a sleep.  A process that has the lock
\* already would be refused; none asks for it (LockIsNotLeft of ShmRestart).
Lock_NotExclusive(p) ==
    /\ pc[p] \in {"put", "get"}
    /\ lock' = 0
    /\ lockPid' = p
    /\ Goto(p, IF p = Writer THEN "put_locked" ELSE "get_locked")
    /\ UNCHANGED <<queue, notice, rec, header, got, nbytes, result>>

Lock(p) ==
    /\ pc[p] \in {"put", "get"}
    /\ lock > 0
    /\ lock' = lock - 1
    /\ lockPid' = p
    /\ Goto(p, IF p = Writer THEN "put_locked" ELSE "get_locked")
    /\ UNCHANGED <<queue, notice, rec, header, got, nbytes, result>>

\* shmfifo_wait(): release the lock and sleep.  When the lock is not (or no
\* longer) this process's it goes to the end of the call.
Wait(p, asleep) ==
    /\ IF HasLock(p) THEN Release(p) /\ Goto(p, asleep)
                     ELSE UNCHANGED <<lock, lockPid>> /\ Goto(p, "unlock")
    /\ UNCHANGED <<queue, notice, rec, header, got, nbytes, result>>

Wake(p) ==
    /\ pc[p] \in {"put_asleep", "get_asleep"}
    /\ notice[p] = 1
    /\ notice' = [notice EXCEPT ![p] = 0]
    /\ Goto(p, IF p = Writer THEN "put" ELSE "get")
    /\ UNCHANGED <<queue, lock, lockPid, rec, header, got, nbytes, result>>

\* The end of both calls: what shmfifo_unlock() returns is what the call returns.
Unlock(p) ==
    /\ pc[p] = "unlock"
    /\ IF HasLock(p) THEN Release(p) /\ result' = [result EXCEPT ![p] = "ok"]
                     ELSE UNCHANGED <<lock, lockPid>> /\ result' = [result EXCEPT ![p] = "EINVAL"]
    /\ Goto(p, "idle")
    /\ UNCHANGED <<queue, notice, rec, header, got, nbytes>>

-----------------------------------------------------------------------------
(***************************************************************************)
(* shmfifo_put()                                                           *)
(***************************************************************************)
PutCall(r) ==
    /\ pc[Writer] = "idle"
    /\ rec' = r
    /\ result' = [result EXCEPT ![Writer] = "none"]
    /\ Goto(Writer, "put")
    /\ UNCHANGED <<queue, sems, header, got, nbytes>>

Total == rec.sz + H
TooBig == MemUsed + MemFree < Total

NoRoom_Full == MemFree < Total
NoRoom == MemFree <= Total

PutTooBig ==
    /\ pc[Writer] = "put_locked"
    /\ TooBig
    /\ Goto(Writer, "unlock")
    /\ UNCHANGED <<queue, sems, rec, header, got, nbytes, result>>

PutWaits ==
    /\ pc[Writer] = "put_locked"
    /\ ~TooBig /\ NoRoom
    /\ Wait(Writer, "put_asleep")

PutHeader ==
    /\ pc[Writer] = "put_locked"
    /\ ~TooBig /\ ~NoRoom
    /\ LlPut(Header(rec))
    /\ Goto(Writer, "put_data")
    /\ UNCHANGED <<read, sems, rec, header, got, nbytes, result>>

PutData ==
    /\ pc[Writer] = "put_data"
    /\ LlPut(Data(rec))
    /\ Goto(Writer, "notify")
    /\ UNCHANGED <<read, sems, rec, header, got, nbytes, result>>

PutNotifies ==
    /\ pc[Writer] = "notify"
    /\ notice' = IF HasLock(Writer) THEN [notice EXCEPT ![Reader] = 1] ELSE notice
    /\ Goto(Writer, "unlock")
    /\ UNCHANGED <<queue, lock, lockPid, rec, header, got, nbytes, result>>

-----------------------------------------------------------------------------
(***************************************************************************)
(* shmfifo_get()                                                           *)
(***************************************************************************)
GetCall ==
    /\ pc[Reader] = "idle"
    /\ got' = <<>>
    /\ nbytes' = 0
    /\ result' = [result EXCEPT ![Reader] = "none"]
    /\ Goto(Reader, "get")
    /\ UNCHANGED <<queue, sems, rec, header>>

\* Less than a header (none here, for records are whole) ends the call.
GetWaits ==
    /\ pc[Reader] = "get_locked"
    /\ MemUsed < H
    /\ IF MemUsed = 0 THEN Wait(Reader, "get_asleep")
       ELSE /\ Goto(Reader, "unlock")
            /\ UNCHANGED <<queue, sems, rec, header, got, nbytes, result>>

\* Whether the next bytes are a header (the "canary"), with the data behind it.
NextIsHeader == Peek(H) = Header(Peek(1)[1].rec)
DataFollows == MemUsed >= H + Peek(1)[1].rec.sz

BufferTooSmall_OrEqual(r) == r.sz >= BufSize
BufferTooSmall(r) == r.sz > BufSize

\* The header is consumed, and put back only when the buffer is too small.
GetHeader ==
    /\ pc[Reader] = "get_locked"
    /\ MemUsed >= H
    /\ header' = Peek(1)[1].rec
    /\ IF NextIsHeader /\ DataFollows
       THEN IF BufferTooSmall(header')
            THEN read' = Rewound(ReadAfter(H)) /\ Goto(Reader, "unlock")
            ELSE read' = ReadAfter(H) /\ Goto(Reader, "get_data")
       ELSE read' = ReadAfter(H) /\ Goto(Reader, "unlock")
    /\ UNCHANGED <<ring, write, sems, rec, got, nbytes, result>>

GetData ==
    /\ pc[Reader] = "get_data"
    /\ IF MemUsed >= header.sz
       THEN got' = Peek(header.sz) /\ read' = ReadAfter(header.sz)
       ELSE UNCHANGED <<got, read>>
    /\ Goto(Reader, "notify")
    /\ UNCHANGED <<ring, write, sems, rec, header, nbytes, result>>

GetNotifies_Not ==
    /\ pc[Reader] = "notify"
    /\ nbytes' = IF HasLock(Reader) THEN header.sz ELSE nbytes
    /\ Goto(Reader, "unlock")
    /\ UNCHANGED <<queue, lock, lockPid, notice, rec, header, got, result>>

GetNotifies ==
    /\ pc[Reader] = "notify"
    /\ IF HasLock(Reader)
       THEN notice' = [notice EXCEPT ![Writer] = 1] /\ nbytes' = header.sz
       ELSE UNCHANGED <<notice, nbytes>>
    /\ Goto(Reader, "unlock")
    /\ UNCHANGED <<queue, lock, lockPid, rec, header, got, result>>

-----------------------------------------------------------------------------
Step(p) ==
    \/ Lock(p) \/ Wake(p) \/ Unlock(p)
    \/ p = Writer /\ (PutTooBig \/ PutWaits \/ PutHeader \/ PutData \/ PutNotifies)
    \/ p = Reader /\ (GetWaits \/ GetHeader \/ GetData \/ GetNotifies)

Next ==
    \/ \E p \in Procs : Lock(p) \/ Wake(p) \/ Unlock(p)
    \/ \E r \in Record : PutCall(r)
    \/ PutTooBig \/ PutWaits \/ PutHeader \/ PutData \/ PutNotifies
    \/ GetCall \/ GetWaits \/ GetHeader \/ GetData \/ GetNotifies

Spec == Init /\ [][Next]_vars

\* A call that has begun goes on, and gets a semaphore that is free again and
\* again; the reader calls shmfifo_get() in a loop.
Fairness == /\ \A p \in Procs : SF_vars(Step(p))
            /\ WF_vars(GetCall)

FairSpec == Spec /\ Fairness

-----------------------------------------------------------------------------
(***************************************************************************)
(* Properties.                                                             *)
(***************************************************************************)
LockedPlaces == {"put_locked", "put_data", "get_locked", "get_data", "notify", "unlock"}

TypeOK ==
    /\ ring \in [0..Cap - 1 -> [rec : Record, pos : Nat]]
    /\ read \in 0..Cap - 1
    /\ write \in 0..Cap - 1
    /\ lock \in {0, 1}
    /\ lockPid \in Procs
    /\ notice \in [Procs -> {0, 1}]
    /\ pc \in [Procs -> LockedPlaces \union {"idle", "put", "get",
                    "put_asleep", "get_asleep"}]
    /\ rec \in Record
    /\ header \in Record
    /\ nbytes \in Nat
    /\ result \in [Procs -> {"none", "ok", "EINVAL"}]

\* The bytes put and not yet got, oldest first.
Unread == Peek(MemUsed)

\* Under the lock a process is alone: the two semaphore calls of checkLocked()
\* and the sleep in the middle of a call never let the other one in as well.
AloneUnderLock ==
    \A p \in Procs : pc[p] \in LockedPlaces => HasLock(p) /\ pc[Peer(p)] \notin LockedPlaces

\* The ring holds whole records, each header followed by its data, but for the
\* data that are still to be put and the header that was got already.
RecordsAreWhole ==
    /\ MemUsed > 0 => Unread[1].pos = IF pc[Reader] = "get_data" THEN H + 1 ELSE 1
    /\ \A i \in 1..MemUsed :
          LET b == Unread[i]
              last == b.pos = IF i = MemUsed /\ pc[Writer] = "put_data" THEN H
                                                                     ELSE H + b.rec.sz
          IN  IF i = MemUsed THEN last
              ELSE Unread[i + 1] = IF b.pos = H + b.rec.sz
                                   THEN [rec |-> Unread[i + 1].rec, pos |-> 1]
                                   ELSE [b EXCEPT !.pos = @ + 1]

\* No notification is lost: a process sleeps without one only while there is
\* nothing for it to do or the other one is about to notify it.
SleepersHaveReason ==
    /\ pc[Reader] = "get_asleep" /\ notice[Reader] = 0 =>
          MemUsed = 0 \/ pc[Writer] \in {"put_data", "notify"}
    /\ pc[Writer] = "put_asleep" /\ notice[Writer] = 0 =>
          NoRoom \/ pc[Reader] \in {"get_data", "notify"}

\* The next record to get is larger than the reader's buffer: it is put back, and
\* nothing after it is ever got.
HeadTooLarge == MemUsed > 0 /\ Unread[1].pos = 1 /\ Unread[1].rec.sz > BufSize

\* A record that, with its header, is exactly as large as the ring is not refused
\* (line 1090), and there is never room for it (line 1105).
NeverPut(r) == r.sz + H = Cap

\* Every call of shmfifo_put() returns, whether its record fits or is refused for
\* being larger than the ring, unless a record that the reader's buffer cannot
\* hold is in the way; but for one that is exactly as large as the ring.
PutsReturn == pc[Writer] = "put" ~> pc[Writer] = "idle" \/ HeadTooLarge \/ NeverPut(rec)

\* Every record put lets shmfifo_get() return one, unless one that the reader's
\* buffer cannot hold is in the way.
RecordsAreGot == pc[Writer] = "notify" ~> pc[Reader] = "notify" \/ HeadTooLarge

\* The records that have their last byte among the first n of some bytes.
LastByte(b) == b.pos = H + b.rec.sz
RecordsIn(bytes, n) ==
    LET upTo[i \in 0..n] == IF i = 0 THEN <<>>
                            ELSE IF LastByte(bytes[i]) THEN Append(upTo[i - 1], bytes[i].rec)
                            ELSE upTo[i - 1]
    IN upTo[n]
Queued == RecordsIn(Unread, MemUsed)

Pending == pc[Writer] \in {"put", "put_locked", "put_asleep", "put_data"}

FitsRing(r) == r.sz + H <= Cap

\* The FIFO implements the queue of records.  A record is in the queue from when
\* its last byte is in the ring until that is got.
Records == INSTANCE RecordQueue WITH
    Fits <- FitsRing, Contents <- Data, queue <- Queued, offer <- rec, pending <- Pending
QueueSpec == Records!Spec
=============================================================================
