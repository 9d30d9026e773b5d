---------------------------- MODULE ShmRestart ----------------------------
(***************************************************************************)
(* The shared-memory FIFO of dvbs_multicast "-m" and readnoaaport while    *)
(* either process is killed or exits and is started again, and while debug *)
(* messages come and go.  ShmFifo is the FIFO that nothing of this happens *)
(* to; here its operations are taken apart where these can come between:   *)
(*   - checkLocked() and the semaphore call that it allows;                *)
(*   - the test, the first memcpy() and the rest of shmfifo_ll_get(), for  *)
(*     shmfifo_create() empties the ring without the lock (line 816);      *)
(*   - the two pieces of shmfifo_ll_put(), which a reader can see when the *)
(*     lock's semaphore has become 2.                                      *)
(***************************************************************************)
EXTENDS ShmFifo

CONSTANTS Nobody,   \* the process of the lock's last operation is gone
          Debug,    \* whether SIGUSR2 may have set ulogIsDebug()
          MayDie    \* whether processes are killed, and exit on a signal

ASSUME NobodyAssumption == Nobody \notin Procs
ASSUME FlagAssumption == Debug \in BOOLEAN /\ MayDie \in BOOLEAN
\* The reader's buffer holds the largest datagram: msgbuf[10000] and MAX_MSG.
\* dvbs_multicast's ring has 500 pages at least, so that it holds several.
ASSUME BufferAssumption == \A sz \in Sizes : sz <= BufSize /\ sz + H < Cap

VARIABLES
    back,    \* per process: where shmfifo_unlock() returns to; "end" of the call
    placed,  \* the bytes stored by the shmfifo_ll_put() in progress
    copied,  \* the bytes copied by the shmfifo_ll_get() in progress
    from,    \* the offset they were copied from
    stale,   \* the reader's present or last call was overtaken by line 816, or
             \* used a ring that is spoilt
    spoilt   \* the offsets are not those of a ring that was emptied: line 816 is half
             \* done, or a call that it overtook has used the ring since

get == <<header, got, nbytes, copied, from, stale, spoilt>>
put == <<rec, placed>>
allVars == <<vars, back, placed, copied, from, stale, spoilt>>

RestartInit ==
    /\ Init
    /\ back = [p \in Procs |-> "end"]
    /\ placed = 0
    /\ copied = <<>>
    /\ from = 0
    /\ stale = FALSE
    /\ spoilt = FALSE

-----------------------------------------------------------------------------
(***************************************************************************)
(* The lock.                                                               *)
(***************************************************************************)

\* Goes to shmfifo_unlock(), which returns to a place.
GoUnlock(p, place) == Goto(p, "unlock") /\ back' = [back EXCEPT ![p] = place]

Locks(p) ==
    /\ Lock(p)
    /\ stale' = (stale /\ p # Reader)
    /\ UNCHANGED <<back, placed, copied, from, spoilt>>

Wakes(p) == Wake(p) /\ UNCHANGED <<back, placed, copied, from, stale, spoilt>>

\* The lock is taken and given back in passing, whatever the status of either:
\* shmfifo_setpriv(), and shmfifo_printmemstatus(), whose shmfifo_lock() is refused
\* when the process has the lock.
InPassing(p, place) == Goto(p, "passing") /\ back' = [back EXCEPT ![p] = place]

PassingLock(p) ==
    /\ pc[p] = "passing"
    /\ \/ HasLock(p) /\ UNCHANGED <<lock, lockPid>>
       \/ lock > 0 /\ lock' = lock - 1 /\ lockPid' = p
    /\ Goto(p, "unlock")
    /\ UNCHANGED <<queue, notice, result, back, put, get>>

\* shmfifo_unlock(): checkLocked(), and the semop(), which adds 1 to what the
\* semaphore is by now.
CheckUnlock(p) ==
    /\ pc[p] = "unlock"
    /\ HasLock(p)
    /\ Goto(p, "release")
    /\ UNCHANGED <<queue, sems, result, back, put, get>>

ReleaseLock(p) ==
    /\ pc[p] = "release"
    /\ Release(p)
    /\ IF back[p] = "end" THEN Goto(p, "idle") /\ result' = [result EXCEPT ![p] = "ok"]
                          ELSE Goto(p, back[p]) /\ UNCHANGED result
    /\ back' = [back EXCEPT ![p] = "end"]
    /\ UNCHANGED <<queue, notice, put, get>>

\* When checkLocked() refuses, a wait goes on to the end of the call, and the end of
\* the call returns EINVAL.
UnlockRefused(p) ==
    /\ pc[p] = "unlock"
    /\ ~HasLock(p)
    /\ \/ /\ back[p] = "end"
          /\ result' = [result EXCEPT ![p] = "EINVAL"]
          /\ Goto(p, "idle")
       \/ back[p] \in {"put_asleep", "get_asleep"} /\ UNCHANGED <<pc, result>>
       \/ /\ back[p] \in {"idle", "put", "get", "notify"}
          /\ Goto(p, back[p]) /\ UNCHANGED result
    /\ back' = [back EXCEPT ![p] = "end"]
    /\ UNCHANGED <<queue, sems, put, get>>

\* shmfifo_notify() of the other process: checkLocked(), and the semctl().
CheckNotify(p) ==
    /\ pc[p] = "notify"
    /\ IF HasLock(p) THEN Goto(p, "notify_set") /\ UNCHANGED back
                     ELSE GoUnlock(p, "end")
    /\ UNCHANGED <<queue, sems, result, put, get>>

SetNotice(p) ==
    /\ pc[p] = "notify_set"
    /\ notice' = [notice EXCEPT ![Peer(p)] = 1]
    /\ nbytes' = IF p = Reader THEN header.sz ELSE nbytes
    /\ GoUnlock(p, "end")
    /\ UNCHANGED <<queue, lock, lockPid, result, put, header, got, copied, from, stale, spoilt>>

-----------------------------------------------------------------------------
(***************************************************************************)
(* shmfifo_put() of dvbs_multicast, which exits when one has failed.       *)
(***************************************************************************)
PutBegins(r) ==
    /\ pc[Writer] = "idle"
    /\ result[Writer] # "EINVAL"
    /\ rec' = r
    /\ result' = [result EXCEPT ![Writer] = "none"]
    /\ \/ Goto(Writer, "put") /\ UNCHANGED back
       \/ Debug /\ InPassing(Writer, "put")
    /\ UNCHANGED <<queue, sems, placed, get>>

PutFindsNoRoom ==
    /\ pc[Writer] = "put_locked"
    /\ NoRoom
    /\ GoUnlock(Writer, "put_asleep")
    /\ UNCHANGED <<queue, sems, result, put, get>>

\* shmfifo_ll_put(): the test and the bytes up to the end of the ring, and the rest.
FirstPiece(bytes, more, next) ==
    LET piece == SubSeq(bytes, 1, Smaller(Cap - write, Len(bytes)))
    IN  IF MemFree < Len(bytes)
        THEN Goto(Writer, next) /\ UNCHANGED <<ring, write, placed>>
        ELSE /\ Store(piece)
             /\ IF piece = bytes THEN placed' = 0 /\ Goto(Writer, next)
                                ELSE placed' = Len(piece) /\ Goto(Writer, more)

Rest(bytes, next) ==
    /\ Store(SubSeq(bytes, placed + 1, Len(bytes)))
    /\ placed' = 0
    /\ Goto(Writer, next)

HeaderPiece ==
    /\ pc[Writer] = "put_locked"
    /\ ~NoRoom
    /\ FirstPiece(Header(rec), "put_header_rest", "put_data")
    /\ UNCHANGED <<read, sems, result, back, rec, get>>

HeaderRest ==
    /\ pc[Writer] = "put_header_rest"
    /\ Rest(Header(rec), "put_data")
    /\ UNCHANGED <<read, sems, result, back, rec, get>>

DataPiece ==
    /\ pc[Writer] = "put_data"
    /\ FirstPiece(Data(rec), "put_data_rest", "notify")
    /\ UNCHANGED <<read, sems, result, back, rec, get>>

DataRest ==
    /\ pc[Writer] = "put_data_rest"
    /\ Rest(Data(rec), "notify")
    /\ UNCHANGED <<read, sems, result, back, rec, get>>

-----------------------------------------------------------------------------
(***************************************************************************)
(* shmfifo_get() of readnoaaport, which calls it again whatever it returns *)
(* or aborts.                                                              *)
(***************************************************************************)
GetBegins ==
    /\ pc[Reader] = "idle"
    /\ got' = <<>>
    /\ nbytes' = 0
    /\ result' = [result EXCEPT ![Reader] = "none"]
    /\ \/ Goto(Reader, "get") /\ UNCHANGED back
       \/ Debug /\ InPassing(Reader, "get")
    /\ stale' = FALSE
    /\ UNCHANGED <<queue, sems, put, header, copied, from, spoilt>>

GetFindsEmpty ==
    /\ pc[Reader] = "get_locked"
    /\ MemUsed = 0
    /\ GoUnlock(Reader, "get_asleep")
    /\ UNCHANGED <<queue, sems, result, put, get>>

\* (With an early return: the lock is kept.)
GetFindsTooLittle_Returns ==
    /\ pc[Reader] = "get_locked"
    /\ MemUsed \in 1..H - 1
    /\ Goto(Reader, "idle")
    /\ UNCHANGED <<queue, sems, result, back, put, get>>

GetFindsTooLittle ==
    /\ pc[Reader] = "get_locked"
    /\ MemUsed \in 1..H - 1
    /\ GoUnlock(Reader, "end")
    /\ UNCHANGED <<queue, sems, result, put, get>>

\* shmfifo_ll_get() of n bytes: the first memcpy().
CopyPiece(n) ==
    /\ copied' = [i \in 1..GetPiece(n) |-> ring[read + i - 1]]
    /\ from' = read

\* The rest of it: read is advanced (from what it was, when the compiler has kept
\* that in a register) and wrapped, the second piece copied, read advanced again.
\* bytes are the n bytes got.
CopyRest(n, bytes, newRead) ==
    \E start \in {from, read} :
        LET next == start + Len(copied)
            at == IF next = Cap THEN 0 ELSE next
            rest == n - Len(copied)
        IN  /\ bytes = copied \o [i \in 1..rest |-> ring[at + i - 1]]
            /\ newRead = at + rest
    /\ from' = 0

\* The ring is used: a call that line 816 overtook spoils it, and is misled by one
\* that is spoilt.
UsesRing ==
    /\ spoilt' = (spoilt \/ stale)
    /\ stale' = (spoilt \/ stale)

CopyHeader ==
    /\ pc[Reader] = "get_locked"
    /\ MemUsed >= H
    /\ CopyPiece(H)
    /\ UsesRing
    /\ Goto(Reader, "header_copied")
    /\ UNCHANGED <<queue, sems, result, back, put, header, got, nbytes>>

CopyHeaderRest ==
    /\ pc[Reader] = "header_copied"
    /\ CopyRest(H, copied', read')
    /\ UsesRing
    /\ Goto(Reader, "header")
    /\ UNCHANGED <<ring, write, sems, result, back, put, header, got, nbytes>>

\* The first byte of a header stands for its size, the last for its canary.  A size
\* that is not one may be anything: that of a record, one that is refused, or one
\* that exceeds the buffer, for which the header is put back.
CanaryIsThere == copied[H].pos = H
SizeIsThere == copied[1].pos = 1
HeaderSizes == IF SizeIsThere THEN {copied[1].rec} ELSE Record

DataFollow_NotAsked(r) == TRUE
DataFollow(r) == MemUsed >= r.sz

TestHeader ==
    /\ pc[Reader] = "header"
    /\ \/ /\ CanaryIsThere
          /\ header' \in HeaderSizes
          /\ DataFollow(header')
          /\ Goto(Reader, "get_data")
          /\ UNCHANGED <<back, read, stale, spoilt>>
       \/ /\ ~CanaryIsThere \/ ~SizeIsThere \/ ~DataFollow(copied[1].rec)
          /\ GoUnlock(Reader, "end")
          /\ UNCHANGED <<header, read, stale, spoilt>>
       \/ /\ CanaryIsThere /\ ~SizeIsThere
          /\ read' = Rewound(read)
          /\ UsesRing
          /\ GoUnlock(Reader, "end")
          /\ UNCHANGED header
    /\ copied' = <<>>
    /\ UNCHANGED <<ring, write, sems, result, put, got, nbytes, from>>

\* Behind the data: shmfifo_printmemstatus() with the lock held, when debug messages
\* are logged.
DataGot == \/ Goto(Reader, "notify") /\ UNCHANGED back
           \/ Debug /\ InPassing(Reader, "notify")

CopyData ==
    /\ pc[Reader] = "get_data"
    /\ MemUsed >= header.sz
    /\ CopyPiece(header.sz)
    /\ UsesRing
    /\ Goto(Reader, "data_copied")
    /\ UNCHANGED <<queue, sems, result, back, put, header, got, nbytes>>

\* The ring was emptied since: nothing is copied, and that goes unnoticed.
CopyNoData ==
    /\ pc[Reader] = "get_data"
    /\ MemUsed < header.sz
    /\ UsesRing
    /\ DataGot
    /\ UNCHANGED <<queue, sems, result, put, header, got, nbytes, copied, from>>

CopyDataRest ==
    /\ pc[Reader] = "data_copied"
    /\ CopyRest(header.sz, got', read')
    /\ copied' = <<>>
    /\ UsesRing
    /\ DataGot
    /\ UNCHANGED <<ring, write, sems, result, put, header, nbytes>>

-----------------------------------------------------------------------------
(***************************************************************************)
(* The ends of the processes, and their beginnings.                        *)
(***************************************************************************)
\* What a process knew is gone with it.
WriterForgets == rec' = Blank.rec /\ placed' = 0

ReaderForgets ==
    /\ header' = Blank.rec
    /\ got' = <<>>
    /\ nbytes' = 0
    /\ copied' = <<>>
    /\ from' = 0
    /\ stale' = FALSE

\* A process is killed, or readnoaaport exits or aborts: nothing is undone, for
\* SEM_UNDO is not used.
Killed(p) ==
    /\ MayDie
    /\ pc[p] \notin {"dead", "removed"}
    /\ Goto(p, "dead")
    /\ lockPid' = IF lockPid = p THEN Nobody ELSE lockPid
    /\ back' = [back EXCEPT ![p] = "end"]
    /\ result' = [result EXCEPT ![p] = "none"]
    /\ IF p = Reader THEN ReaderForgets /\ UNCHANGED <<put, spoilt>>
                     ELSE WriterForgets /\ UNCHANGED get
    /\ UNCHANGED <<queue, lock, notice>>

\* dvbs_multicast exits, on a signal or because a put has failed: cleanup() removes
\* the semaphores and the segment.  Every call of a reader fails from then on, and
\* it aborts.
Exits ==
    /\ pc[Writer] \notin {"dead", "removed", "empty_read", "empty_write", "creating"}
    /\ MayDie \/ result[Writer] = "EINVAL"
    /\ pc' = [p \in Procs |-> IF p = Writer THEN "removed" ELSE "dead"]
    /\ ring' = [o \in 0..Cap - 1 |-> Blank]
    /\ read' = 0
    /\ write' = 0
    /\ lock' = 0
    /\ lockPid' = Nobody
    /\ notice' = [p \in Procs |-> 0]
    /\ back' = [p \in Procs |-> "end"]
    /\ result' = [p \in Procs |-> "none"]
    /\ WriterForgets
    /\ ReaderForgets
    /\ spoilt' = FALSE

\* readnoaaport attaches to what there is.
ReaderAttaches ==
    /\ pc[Reader] = "dead"
    /\ pc[Writer] # "removed"
    /\ Goto(Reader, "idle")
    /\ UNCHANGED <<queue, sems, result, back, put, get>>

\* The places of shmfifo_get() from which it goes on to use the ring.
MidGet == {"get_locked", "header_copied", "header", "get_data", "data_copied"}

Overtakes ==
    /\ stale' = (stale \/ pc[Reader] \in MidGet)
    /\ spoilt' = (read' # write')

\* shmfifo_create() of a FIFO that is there: its two stores of line 816, in either
\* order.
EmptyOne ==
    /\ pc[Writer] = "dead"
    /\ \/ read' = 0 /\ UNCHANGED write /\ Goto(Writer, "empty_write")
       \/ write' = 0 /\ UNCHANGED read /\ Goto(Writer, "empty_read")
    /\ Overtakes
    /\ UNCHANGED <<ring, sems, result, back, put, header, got, nbytes, copied, from>>

EmptyOther ==
    /\ pc[Writer] \in {"empty_read", "empty_write"}
    /\ IF pc[Writer] = "empty_read" THEN read' = 0 /\ UNCHANGED write
                                    ELSE write' = 0 /\ UNCHANGED read
    /\ Overtakes
    /\ Goto(Writer, "creating")
    /\ UNCHANGED <<ring, sems, result, back, put, header, got, nbytes, copied, from>>

\* SETALL, of a FIFO that was there and of a new one; shmfifo_setpriv() is next.
SetSemaphores ==
    /\ pc[Writer] \in {"creating", "removed"}
    /\ lock' = 1
    /\ lockPid' = Writer
    /\ notice' = [p \in Procs |-> 0]
    /\ InPassing(Writer, "idle")
    /\ UNCHANGED <<queue, result, put, get>>

-----------------------------------------------------------------------------
RestartNext ==
    \/ \E p \in Procs :
          \/ Locks(p) \/ Wakes(p) \/ PassingLock(p) \/ CheckUnlock(p) \/ ReleaseLock(p)
          \/ UnlockRefused(p) \/ CheckNotify(p) \/ SetNotice(p) \/ Killed(p)
    \/ \E r \in Record : PutBegins(r)
    \/ PutFindsNoRoom \/ HeaderPiece \/ HeaderRest \/ DataPiece \/ DataRest
    \/ GetBegins \/ GetFindsEmpty \/ GetFindsTooLittle \/ CopyHeader \/ CopyHeaderRest
    \/ TestHeader \/ CopyData \/ CopyNoData \/ CopyDataRest
    \/ Exits \/ ReaderAttaches \/ EmptyOne \/ EmptyOther \/ SetSemaphores

RestartSpec == RestartInit /\ [][RestartNext]_allVars

-----------------------------------------------------------------------------
(***************************************************************************)
(* Properties.                                                             *)
(***************************************************************************)
UnderLock ==
    {"put_locked", "put_header_rest", "put_data", "put_data_rest", "get_locked",
     "header_copied", "header", "get_data", "data_copied", "notify", "notify_set",
     "passing", "unlock", "release"}

Places == UnderLock \union {"idle", "put", "get", "put_asleep", "get_asleep", "dead",
                            "removed", "empty_read", "empty_write", "creating"}

\* The semaphore of the lock is 2 at most: SETALL can come between the checkLocked()
\* and the semop() of a reader's shmfifo_unlock(), once.
RestartTypeOK ==
    /\ ring \in [0..Cap - 1 -> [rec : Record, pos : Nat]]
    /\ read \in 0..Cap - 1
    /\ write \in 0..Cap - 1
    /\ lock \in 0..2
    /\ lockPid \in Procs \union {Nobody}
    /\ notice \in [Procs -> {0, 1}]
    /\ pc \in [Procs -> Places]
    /\ back \in [Procs -> {"end", "idle", "put", "get", "put_asleep", "get_asleep", "notify"}]
    /\ rec \in Record
    /\ header \in Record
    /\ nbytes \in Nat
    /\ placed \in 0..Cap
    /\ Len(copied) <= Cap
    /\ from \in 0..Cap - 1
    /\ stale \in BOOLEAN
    /\ spoilt \in BOOLEAN
    /\ result \in [Procs -> {"none", "ok", "EINVAL"}]

\* A process that lives never leaves the lock taken behind: when the lock is taken
\* and it was the last to operate on it, it is still on its way to shmfifo_unlock(),
\* so that its next shmfifo_lock() is not refused and waits only for the other one,
\* or for one that died.
LockIsNotLeft ==
    \A p \in Procs : HasLock(p) => pc[p] \in UnderLock

\* Whatever dies and is started again: the data that shmfifo_get() hands over with
\* success are those of one record, never parts of two or of none, even while two
\* processes are under the lock.  But a call that a store of line 816 overtakes may
\* hand over anything, and so may those that follow it in the ring it has spoilt,
\* until the FIFO is created again (stale).
NeverTorn ==
    pc[Reader] = "idle" /\ result[Reader] = "ok" /\ nbytes # 0 /\ ~stale =>
        nbytes = header.sz /\ got = Data(header)

\* shmfifo.c:949-952: a get that returns EINVAL was given bad arguments or a
\* small buffer: "No data is read."
EinvalReadsNothing == pc[Reader] = "idle" /\ result[Reader] = "EINVAL" => got = <<>>
=============================================================================
