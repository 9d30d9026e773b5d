----------------------------- MODULE Statistics -----------------------------
(***************************************************************************)
(* The statistics of noaaportIngester: what the reader thread and the      *)
(* product-maker thread count, the thread that reports the counts when     *)
(* SIGUSR1 has come (reportStatsWhenSignaled()), the signal handler, which *)
(* runs in whichever thread the system chooses, in the middle of that      *)
(* thread's own code, and the main thread, which cancels the statistics    *)
(* thread and makes the last report itself.                                *)
(*                                                                         *)
(* One count stands for the reader's byteCount and one for the             *)
(* product-maker's three counts, which are kept under one mutex.           *)
(***************************************************************************)
EXTENDS Naturals

CONSTANTS Reader, Maker, Stat, Main, \* the threads
          NoThread,
          SignalThreads,  \* the threads that a SIGUSR1 may be delivered to
          MaxSignals,     \* bound: signals
          MaxCount        \* bound: additions to each count

Threads == {Reader, Maker, Stat, Main}
Counters == {Reader, Maker}

ASSUME ThreadAssumption ==
    /\ Reader # Maker /\ Stat # Main /\ Counters \cap {Stat, Main} = {}
    /\ NoThread \notin Threads /\ SignalThreads \subseteq Threads
ASSUME BoundAssumption == {MaxSignals, MaxCount} \subseteq Nat

VARIABLES
    mutex,        \* the owner of "mutex" (recursive) and how often it has it
    depth,
    countMutex,   \* per counter: the owner of reader->mutex, productMaker->mutex
    reportStatistics,
    count,        \* per counter: reader->byteCount; npackets, nmissed, nprods
    taken,        \* per reporting thread and counter: what it got for its report
    total,        \* per counter: total...Count of reportStats()
    pc,           \* per thread: where it is
    handler,      \* per thread: where signal_handler() is in it
    statCancelled,
    occurred,     \* per counter: what the thread set out to count
    unreported,   \* a SIGUSR1 came, the statistics thread having made the
                  \* mutex, and no report has begun since
    signals       \* how many came

locks == <<mutex, depth, countMutex>>
vars == <<locks, reportStatistics, count, taken, total, pc, handler,
          statCancelled, occurred, unreported, signals>>

Init ==
    /\ mutex = NoThread
    /\ depth = 0
    /\ countMutex = [c \in Counters |-> NoThread]
    /\ reportStatistics = FALSE
    /\ count = [c \in Counters |-> 0]
    /\ taken = [t \in {Stat, Main} |-> [c \in Counters |-> 0]]
    /\ total = [c \in Counters |-> 0]
    /\ pc = [t \in Threads |-> CASE t \in Counters -> "working"
                                 [] t = Stat -> "start"
                                 [] t = Main -> "join_reader"]
    /\ handler = [t \in Threads |-> "none"]
    /\ statCancelled = FALSE
    /\ occurred = [c \in Counters |-> 0]
    /\ unreported = FALSE
    /\ signals = 0

Goto(t, place) == pc' = [pc EXCEPT ![t] = place]

\* A thread runs its own code when it is not in the signal handler.
Runs(t, place) == pc[t] = place /\ handler[t] = "none"

\* pthread_mutex_lock(&mutex) and pthread_mutex_unlock(&mutex).
Acquire(t) ==
    /\ mutex \in {NoThread, t}
    /\ mutex' = t
    /\ depth' = depth + 1
Release(t) ==
    IF mutex = t /\ depth > 1 THEN depth' = depth - 1 /\ UNCHANGED mutex
    ELSE IF mutex = t THEN depth' = 0 /\ mutex' = NoThread
    ELSE UNCHANGED <<mutex, depth>>

\* The mutex of a counter not honoured.
AcquireCount_NotExclusive(t, c) == countMutex' = [countMutex EXCEPT ![c] = t]
AcquireCount(t, c) ==
    /\ countMutex[c] = NoThread
    /\ countMutex' = [countMutex EXCEPT ![c] = t]
ReleaseCount(c) == countMutex' = [countMutex EXCEPT ![c] = NoThread]

-----------------------------------------------------------------------------
(***************************************************************************)
(* The two threads that count.  (The reader thread counts what             *)
(* fifoWriteUpdate() added to the FIFO; what fifoCopy() added it does not, *)
(* and "occurred" leaves it out too.)                                      *)
(***************************************************************************)
Work(c) ==
    /\ Runs(c, "working")
    /\ occurred[c] < MaxCount
    /\ pc[Main] # "done"
    /\ occurred' = [occurred EXCEPT ![c] = @ + 1]
    /\ Goto(c, "count")
    /\ UNCHANGED <<locks, reportStatistics, count, taken, total, handler,
                   statCancelled, unreported, signals>>

LockCount(c) ==
    /\ Runs(c, "count")
    /\ AcquireCount(c, c)
    /\ Goto(c, "counting")
    /\ UNCHANGED <<mutex, depth, reportStatistics, count, taken, total, handler,
                   statCancelled, occurred, unreported, signals>>

Count(c) ==
    /\ Runs(c, "counting")
    /\ count' = [count EXCEPT ![c] = @ + 1]
    /\ Goto(c, "counted")
    /\ UNCHANGED <<locks, reportStatistics, taken, total, handler,
                   statCancelled, occurred, unreported, signals>>

UnlockCount(c) ==
    /\ Runs(c, "counted")
    /\ ReleaseCount(c)
    /\ Goto(c, "working")
    /\ UNCHANGED <<mutex, depth, reportStatistics, count, taken, total, handler,
                   statCancelled, occurred, unreported, signals>>

\* The reader ends with its input, the product-maker after the FIFO was closed.
End(c) ==
    /\ Runs(c, "working")
    /\ c = Reader \/ pc[Main] = "join_maker"
    /\ Goto(c, "ended")
    /\ UNCHANGED <<locks, reportStatistics, count, taken, total, handler,
                   statCancelled, occurred, unreported, signals>>

-----------------------------------------------------------------------------
(***************************************************************************)
(* reportStats(), in the statistics thread or the main thread.  First the  *)
(* reader's statistics, then the product-maker's: each is got and reset    *)
(* under its mutex; then the totals grow and the report is logged.         *)
(***************************************************************************)
\* The places of one ...GetStatistics() call, and the place after it.
Places(c) == IF c = Reader THEN <<"report", "get", "reset", "unlock", "report_maker">>
                           ELSE <<"report_maker", "get_maker", "reset_maker",
                                  "unlock_maker", "add_totals">>

LockStatistics(t, c) ==
    /\ Runs(t, Places(c)[1])
    /\ AcquireCount(t, c)
    /\ Goto(t, Places(c)[2])
    /\ unreported' = IF c = Reader THEN FALSE ELSE unreported
    /\ UNCHANGED <<mutex, depth, reportStatistics, count, taken, total, handler,
                   statCancelled, occurred, signals>>

GetCount(t, c) ==
    /\ Runs(t, Places(c)[2])
    /\ taken' = [taken EXCEPT ![t][c] = count[c]]
    /\ Goto(t, Places(c)[3])
    /\ UNCHANGED <<locks, reportStatistics, count, total, handler,
                   statCancelled, occurred, unreported, signals>>

\* The reset forgotten.
ResetCount_Forgotten(t, c) ==
    /\ Runs(t, Places(c)[3])
    /\ Goto(t, Places(c)[4])
    /\ UNCHANGED <<locks, reportStatistics, count, taken, total, handler,
                   statCancelled, occurred, unreported, signals>>

ResetCount(t, c) ==
    /\ Runs(t, Places(c)[3])
    /\ count' = [count EXCEPT ![c] = 0]
    /\ Goto(t, Places(c)[4])
    /\ UNCHANGED <<locks, reportStatistics, taken, total, handler,
                   statCancelled, occurred, unreported, signals>>

\* readerGetStatistics() without its pthread_mutex_unlock().
UnlockStatistics_Forgotten(t, c) ==
    /\ Runs(t, Places(c)[4])
    /\ Goto(t, Places(c)[5])
    /\ UNCHANGED <<locks, reportStatistics, count, taken, total, handler,
                   statCancelled, occurred, unreported, signals>>

UnlockStatistics(t, c) ==
    /\ Runs(t, Places(c)[4])
    /\ ReleaseCount(c)
    /\ Goto(t, Places(c)[5])
    /\ UNCHANGED <<mutex, depth, reportStatistics, count, taken, total, handler,
                   statCancelled, occurred, unreported, signals>>

AddTotals(t) ==
    /\ Runs(t, "add_totals")
    /\ total' = [c \in Counters |-> total[c] + taken[t][c]]
    /\ taken' = [taken EXCEPT ![t] = [c \in Counters |-> 0]]
    /\ Goto(t, IF t = Stat THEN "reported" ELSE "done")
    /\ UNCHANGED <<locks, reportStatistics, count, handler, statCancelled,
                   occurred, unreported, signals>>

-----------------------------------------------------------------------------
(***************************************************************************)
(* reportStatsWhenSignaled().  It makes the mutex a recursive one, which   *)
(* frees it even when a handler has it (the handlers are installed while   *)
(* this thread starts), and has it for good but for its waits.             *)
(***************************************************************************)
StatStart ==
    /\ Runs(Stat, "start")
    /\ mutex' = NoThread
    /\ depth' = 0
    /\ Goto(Stat, "lock")
    /\ UNCHANGED <<countMutex, reportStatistics, count, taken, total, handler,
                   statCancelled, occurred, unreported, signals>>

\* Also the lock inside pthread_cond_wait().
StatLock ==
    /\ Runs(Stat, "lock")
    /\ Acquire(Stat)
    /\ Goto(Stat, "check")
    /\ UNCHANGED <<countMutex, reportStatistics, count, taken, total, handler,
                   statCancelled, occurred, unreported, signals>>

StatReports ==
    /\ Runs(Stat, "check")
    /\ reportStatistics
    /\ Goto(Stat, "report")
    /\ UNCHANGED <<locks, reportStatistics, count, taken, total, handler,
                   statCancelled, occurred, unreported, signals>>

StatFindsNone ==
    /\ Runs(Stat, "check")
    /\ ~reportStatistics
    /\ Goto(Stat, "going_to_wait")
    /\ UNCHANGED <<locks, reportStatistics, count, taken, total, handler,
                   statCancelled, occurred, unreported, signals>>

\* pthread_cond_wait(): only what signals "cond" from here on wakes it.
StatWaits ==
    /\ Runs(Stat, "going_to_wait")
    /\ Release(Stat)
    /\ Goto(Stat, "wait")
    /\ UNCHANGED <<countMutex, reportStatistics, count, taken, total, handler,
                   statCancelled, occurred, unreported, signals>>

\* pthread_cond_wait() may return although nobody signalled.
StatWakes ==
    /\ Runs(Stat, "wait")
    /\ Goto(Stat, "lock")
    /\ UNCHANGED <<locks, reportStatistics, count, taken, total, handler,
                   statCancelled, occurred, unreported, signals>>

\* The request is cleared after the report: one that this very thread's handler
\* made in between (the mutex keeps the others out) goes with it.
StatReported ==
    /\ Runs(Stat, "reported")
    /\ reportStatistics' = FALSE
    /\ Goto(Stat, "check")
    /\ UNCHANGED <<locks, count, taken, total, handler, statCancelled,
                   occurred, unreported, signals>>

\* Cancelled asynchronously: wherever it is.  Only a pthread_cond_wait() gets
\* the mutex back first.  Nothing is unlocked.
StatDies ==
    /\ statCancelled
    /\ pc[Stat] # "ended"
    /\ IF Runs(Stat, "wait") THEN Acquire(Stat) ELSE UNCHANGED <<mutex, depth>>
    /\ Goto(Stat, "ended")
    /\ UNCHANGED <<countMutex, reportStatistics, count, taken, total, handler,
                   statCancelled, occurred, unreported, signals>>

-----------------------------------------------------------------------------
(***************************************************************************)
(* main(), from pthread_join(readerThread) on.                             *)
(***************************************************************************)
MainCancels ==
    /\ Runs(Main, "join_reader")
    /\ pc[Reader] = "ended"
    /\ statCancelled' = TRUE
    /\ Goto(Main, "join_stat")
    /\ UNCHANGED <<locks, reportStatistics, count, taken, total, handler,
                   occurred, unreported, signals>>

MainJoins ==
    /\ \/ Runs(Main, "join_stat") /\ pc[Stat] = "ended" /\ Goto(Main, "join_maker")
       \/ Runs(Main, "join_maker") /\ pc[Maker] = "ended" /\ Goto(Main, "report")
    /\ UNCHANGED <<locks, reportStatistics, count, taken, total, handler,
                   statCancelled, occurred, unreported, signals>>

-----------------------------------------------------------------------------
(***************************************************************************)
(* SIGUSR1.  Its handler interrupts a thread that has not ended, between   *)
(* any two steps of it.                                                    *)
(***************************************************************************)
Sigusr1(t) ==
    /\ signals < MaxSignals
    /\ t \in SignalThreads
    /\ pc[t] # "ended" /\ pc[Main] # "done"
    /\ handler[t] = "none"
    /\ signals' = signals + 1
    /\ unreported' = (unreported \/ pc[Stat] # "start")
    /\ handler' = [handler EXCEPT ![t] = "lock"]
    /\ UNCHANGED <<locks, reportStatistics, count, taken, total, pc,
                   statCancelled, occurred>>

HandlerLocks(t) ==
    /\ handler[t] = "lock" /\ pc[t] # "ended"
    /\ Acquire(t)
    /\ handler' = [handler EXCEPT ![t] = "set"]
    /\ UNCHANGED <<countMutex, reportStatistics, count, taken, total, pc,
                   statCancelled, occurred, unreported, signals>>

\* The request made, and nobody told.
HandlerSets_NoSignal(t) ==
    /\ handler[t] = "set" /\ pc[t] # "ended"
    /\ reportStatistics' = TRUE
    /\ handler' = [handler EXCEPT ![t] = "unlock"]
    /\ UNCHANGED <<locks, count, taken, total, pc, statCancelled, occurred,
                   unreported, signals>>

HandlerSets(t) ==
    /\ handler[t] = "set" /\ pc[t] # "ended"
    /\ reportStatistics' = TRUE
    /\ IF pc[Stat] = "wait" THEN Goto(Stat, "lock") ELSE UNCHANGED pc
    /\ handler' = [handler EXCEPT ![t] = "unlock"]
    /\ UNCHANGED <<locks, count, taken, total, statCancelled, occurred,
                   unreported, signals>>

HandlerUnlocks(t) ==
    /\ handler[t] = "unlock" /\ pc[t] # "ended"
    /\ Release(t)
    /\ handler' = [handler EXCEPT ![t] = "none"]
    /\ UNCHANGED <<countMutex, reportStatistics, count, taken, total, pc,
                   statCancelled, occurred, unreported, signals>>

-----------------------------------------------------------------------------
Counting(c) == LockCount(c) \/ Count(c) \/ UnlockCount(c)

Reporting(t) ==
    \/ \E c \in Counters :
          LockStatistics(t, c) \/ GetCount(t, c) \/ ResetCount(t, c) \/ UnlockStatistics(t, c)
    \/ AddTotals(t)

Handling(t) == HandlerLocks(t) \/ HandlerSets(t) \/ HandlerUnlocks(t)

StatStep ==
    StatStart \/ StatLock \/ StatReports \/ StatFindsNone \/ StatWaits \/ StatReported

Next ==
    \/ \E c \in Counters : Work(c) \/ Counting(c) \/ End(c)
    \/ \E t \in {Stat, Main} : Reporting(t)
    \/ StatStep \/ StatWakes \/ StatDies \/ MainCancels \/ MainJoins
    \/ \E t \in Threads : Sigusr1(t) \/ Handling(t)

Spec == Init /\ [][Next]_vars

\* Threads run and get a mutex that is free again and again.  Nothing obliges
\* the input to come or to end, or a signal to come.
Fairness ==
    /\ \A c \in Counters : SF_vars(Counting(c))
    /\ WF_vars(End(Maker))
    /\ \A t \in {Stat, Main} : SF_vars(Reporting(t))
    /\ SF_vars(StatStep) /\ SF_vars(StatDies)
    /\ WF_vars(MainCancels) /\ WF_vars(MainJoins)
    /\ \A t \in Threads : SF_vars(Handling(t))

FairSpec == Spec /\ Fairness

-----------------------------------------------------------------------------
(***************************************************************************)
(* Properties.                                                             *)
(***************************************************************************)
TypeOK ==
    /\ mutex \in Threads \union {NoThread}
    /\ depth \in 0..2
    /\ countMutex \in [Counters -> Threads \union {NoThread}]
    /\ reportStatistics \in BOOLEAN
    /\ count \in [Counters -> 0..MaxCount]
    /\ taken \in [{Stat, Main} -> [Counters -> 0..MaxCount]]
    /\ total \in [Counters -> 0..MaxCount]
    /\ \A t \in Threads : handler[t] \in {"none", "lock", "set", "unlock"}
    /\ statCancelled \in BOOLEAN
    /\ occurred \in [Counters -> 0..MaxCount]
    /\ unreported \in BOOLEAN
    /\ signals \in 0..MaxSignals

\* The parts of a count that are on their way: the addition that has not been
\* made, and what was got for a report (and, before its reset, not twice).
Pending(c) == IF pc[c] \in {"count", "counting"} THEN 1 ELSE 0
Held(t, c) == IF pc[t] = Places(c)[3] THEN 0 ELSE taken[t][c]

\* Whatever the order of additions, reports and resets, everything that was
\* counted is in exactly one of: the count, a report being made, the totals.
\* Only what a statistics thread had got when it was cancelled can be lost.
EachCountedOnce ==
    \A c \in Counters :
        LET sure == Pending(c) + count[c] + Held(Main, c) + total[c]
        IN  IF pc[Stat] = "ended" THEN occurred[c] \in sure..sure + taken[Stat][c]
                                  ELSE occurred[c] = sure + Held(Stat, c)

\* noaaportIngester.c:96: "SIGUSR1 causes statistics to be unconditionally
\* logged": after a signal a report begins, as long as the statistics thread is
\* not cancelled (and the signal does not interrupt a thread that is counting).
\* A signal that comes before the statistics thread has made the mutex may be
\* lost: its handler, with the mutex as it was, can set the flag and signal
\* "cond" between the test of the flag and the wait.
Sigusr1Reported == unreported ~> ~unreported \/ statCancelled

\* Making a report never stops the reader thread: it goes on to its next read.
ReaderGoesOn == pc[Reader] = "count" ~> pc[Reader] = "working"
=============================================================================
