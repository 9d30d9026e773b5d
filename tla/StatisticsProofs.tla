-------------------------- MODULE StatisticsProofs --------------------------
(***************************************************************************)
(* Proofs about the statistics of noaaportIngester, for every number of    *)
(* additions and signals, whichever threads the signals are delivered to,  *)
(* and wherever the statistics thread is cancelled.                        *)
(***************************************************************************)
EXTENDS Statistics, TLAPS

Reporters == {Stat, Main}

\* Where a thread can be.
ReaderReport == {"get", "reset", "unlock"}
MakerReport == {"get_maker", "reset_maker", "unlock_maker"}
ReportPlaces == {"report", "report_maker", "add_totals"} \union ReaderReport \union MakerReport
CountPlaces == {"working", "count", "counting", "counted", "ended"}
StatPlaces == {"start", "lock", "check", "going_to_wait", "wait", "reported", "ended"}
                  \union ReportPlaces
MainPlaces == {"join_reader", "join_stat", "join_maker", "done"} \union ReportPlaces
HandlerPlaces == {"none", "lock", "set", "unlock"}

Kinds ==
    /\ mutex \in Threads \union {NoThread} /\ depth \in Nat
    /\ countMutex \in [Counters -> Threads \union {NoThread}]
    /\ count \in [Counters -> Nat] /\ total \in [Counters -> Nat]
    /\ taken \in [Reporters -> [Counters -> 0..MaxCount]]
    /\ occurred \in [Counters -> 0..MaxCount]
    /\ pc \in [Threads -> CountPlaces \union StatPlaces \union MainPlaces]
    /\ \A c \in Counters : pc[c] \in CountPlaces
    /\ pc[Stat] \in StatPlaces /\ pc[Main] \in MainPlaces
    /\ handler \in [Threads -> HandlerPlaces]
    /\ signals \in 0..MaxSignals
    /\ reportStatistics \in BOOLEAN /\ statCancelled \in BOOLEAN /\ unreported \in BOOLEAN

\* How often a thread may have "mutex": once in its own code (the statistics thread
\* only) and once in the handler.
Own(t) == IF t = Stat /\ pc[Stat] \in {"check", "going_to_wait", "reported", "ended"}
                                      \union ReportPlaces
          THEN 1 ELSE 0
InHandler(t) == IF handler[t] \in {"set", "unlock"} THEN 1 ELSE 0
DepthOK ==
    /\ mutex = NoThread => depth = 0
    /\ \A t \in Threads : mutex = t => depth \in 1..Own(t) + InHandler(t)

\* Who counts, or gets and resets a count, has its mutex.
CountMutexOK ==
    /\ \A c \in Counters : pc[c] \in {"counting", "counted"} => countMutex[c] = c
    /\ \A t \in Reporters : /\ pc[t] \in ReaderReport => countMutex[Reader] = t
                            /\ pc[t] \in MakerReport => countMutex[Maker] = t

\* What has been got: nothing before the count is read, and the count itself
\* until that is reset.
TakenOK ==
    \A t \in Reporters :
        /\ pc[t] = "reset" => taken[t][Reader] = count[Reader]
        /\ pc[t] = "reset_maker" => taken[t][Maker] = count[Maker]
        /\ pc[t] \notin {"ended", "reset", "unlock", "report_maker", "add_totals"}
                        \union MakerReport => taken[t][Reader] = 0
        /\ pc[t] \notin {"ended", "reset_maker", "unlock_maker", "add_totals"}
              => taken[t][Maker] = 0

IInv == Kinds /\ DepthOK /\ CountMutexOK /\ TakenOK /\ EachCountedOnce

-----------------------------------------------------------------------------
LEMMA ThreadFacts ==
    /\ Reader # Maker /\ Reader # Stat /\ Reader # Main /\ Maker # Stat /\ Maker # Main
    /\ Stat # Main
    /\ \A t \in Threads : t # NoThread
    /\ Counters = {Reader, Maker} /\ Counters \subseteq Threads /\ Reporters \subseteq Threads
BY ThreadAssumption DEF Threads, Counters, Reporters

LEMMA PlaceFacts ==
    /\ Places(Reader)[1] = "report" /\ Places(Reader)[2] = "get"
    /\ Places(Reader)[3] = "reset" /\ Places(Reader)[4] = "unlock"
    /\ Places(Reader)[5] = "report_maker"
    /\ Places(Maker)[1] = "report_maker" /\ Places(Maker)[2] = "get_maker"
    /\ Places(Maker)[3] = "reset_maker" /\ Places(Maker)[4] = "unlock_maker"
    /\ Places(Maker)[5] = "add_totals"
BY ThreadFacts DEF Places

\* The sum of the parts of a count.
OnceFor(c) ==
    LET sure == Pending(c) + count[c] + Held(Main, c) + total[c]
    IN  IF pc[Stat] = "ended" THEN occurred[c] \in sure..sure + taken[Stat][c]
                              ELSE occurred[c] = sure + Held(Stat, c)

LEMMA OnceFacts == EachCountedOnce <=> OnceFor(Reader) /\ OnceFor(Maker)
BY ThreadFacts DEF EachCountedOnce, OnceFor

\* The bounds follow from the sums.
LEMMA TypeFromInv == IInv => TypeOK
<1> SUFFICES ASSUME IInv PROVE TypeOK
    OBVIOUS
<1>1. MaxCount \in Nat /\ MaxSignals \in Nat
    BY BoundAssumption
<1>2. depth \in 0..2
    BY DEF IInv, Kinds, DepthOK, Own, InHandler
<1>3. ASSUME NEW c \in Counters PROVE count[c] \in 0..MaxCount /\ total[c] \in 0..MaxCount
    <2>1. /\ Pending(c) \in Nat /\ Held(Main, c) \in Nat /\ Held(Stat, c) \in Nat
          /\ count[c] \in Nat /\ total[c] \in Nat /\ occurred[c] \in 0..MaxCount
          /\ taken[Stat][c] \in Nat
        BY <1>1 DEF IInv, Kinds, Pending, Held, Reporters
    <2>2. OnceFor(c)
        BY DEF IInv, EachCountedOnce, OnceFor
    <2>3. Pending(c) + count[c] + Held(Main, c) + total[c] <= occurred[c]
        BY <2>1, <2>2 DEF OnceFor
    <2> QED
        BY <1>1, <2>1, <2>3
<1>4. /\ count \in [Counters -> 0..MaxCount] /\ total \in [Counters -> 0..MaxCount]
    BY <1>3 DEF IInv, Kinds
<1>5. \A t \in Threads : handler[t] \in {"none", "lock", "set", "unlock"}
    BY DEF IInv, Kinds, HandlerPlaces
<1>6. taken \in [{Stat, Main} -> [Counters -> 0..MaxCount]]
    BY Zenon DEF IInv, Kinds, Reporters
<1>7. /\ mutex \in Threads \union {NoThread}
      /\ countMutex \in [Counters -> Threads \union {NoThread}]
      /\ reportStatistics \in BOOLEAN /\ statCancelled \in BOOLEAN /\ unreported \in BOOLEAN
      /\ occurred \in [Counters -> 0..MaxCount] /\ signals \in 0..MaxSignals
    BY Zenon DEF IInv, Kinds
<1> QED
    BY <1>2, <1>4, <1>5, <1>6, <1>7, Zenon DEF TypeOK

LEMMA InitInv == Init => IInv
<1> SUFFICES ASSUME Init PROVE IInv
    OBVIOUS
<1>1. /\ pc[Reader] = "working" /\ pc[Maker] = "working" /\ pc[Stat] = "start"
      /\ pc[Main] = "join_reader"
    BY ThreadFacts DEF Init, Threads
<1>2. Kinds
    <2>1. pc \in [Threads -> CountPlaces \union StatPlaces \union MainPlaces]
        BY <1>1, ThreadFacts DEF Init, Threads, CountPlaces, StatPlaces, MainPlaces
    <2>2. /\ taken \in [Reporters -> [Counters -> 0..MaxCount]]
          /\ occurred \in [Counters -> 0..MaxCount] /\ signals \in 0..MaxSignals
        BY BoundAssumption DEF Init, Reporters
    <2>3. /\ countMutex \in [Counters -> Threads \union {NoThread}]
          /\ count \in [Counters -> Nat] /\ total \in [Counters -> Nat]
          /\ handler \in [Threads -> HandlerPlaces]
          /\ mutex \in Threads \union {NoThread} /\ depth \in Nat
        BY DEF Init, HandlerPlaces
    <2>4. /\ reportStatistics \in BOOLEAN /\ statCancelled \in BOOLEAN
          /\ unreported \in BOOLEAN
        BY DEF Init
    <2>5. /\ \A c \in Counters : pc[c] \in CountPlaces
          /\ pc[Stat] \in StatPlaces /\ pc[Main] \in MainPlaces
        BY <1>1, ThreadFacts DEF CountPlaces, StatPlaces, MainPlaces
    <2> QED
        BY <2>1, <2>2, <2>3, <2>4, <2>5, Zenon DEF Kinds
<1>3. DepthOK /\ CountMutexOK /\ TakenOK
    BY <1>1, ThreadFacts DEF Init, DepthOK, CountMutexOK, TakenOK, ReaderReport, MakerReport,
       Reporters
<1>4. EachCountedOnce
    BY <1>1, ThreadFacts, PlaceFacts DEF Init, EachCountedOnce, Pending, Held, Reporters
<1> QED
    BY <1>2, <1>3, <1>4 DEF IInv

-----------------------------------------------------------------------------
(***************************************************************************)
(* Steps.  What a step changes of one thread leaves the others as they     *)
(* were.                                                                   *)
(***************************************************************************)
LEMMA GotoFacts ==
    ASSUME Kinds, NEW t \in Threads, NEW place, Goto(t, place)
    PROVE  pc'[t] = place /\ \A u \in Threads : u # t => pc'[u] = pc[u]
BY DEF Goto, Kinds

LEMMA CountingInv ==
    ASSUME IInv, NEW c \in Counters, Work(c) \/ Counting(c) \/ End(c)
    PROVE  IInv'
<1> USE ThreadFacts, BoundAssumption
<1>1. \E place : Goto(c, place) /\ place \in CountPlaces
    BY DEF Work, Counting, LockCount, Count, UnlockCount, End, CountPlaces
<1>2. /\ \A u \in Threads : u # c => pc'[u] = pc[u]
      /\ pc'[c] \in CountPlaces /\ pc' = [pc EXCEPT ![c] = pc'[c]]
      /\ pc'[Stat] = pc[Stat] /\ pc'[Main] = pc[Main]
    <2>1. PICK place \in CountPlaces : Goto(c, place)
        BY <1>1
    <2>2. pc'[c] = place /\ \A u \in Threads : u # c => pc'[u] = pc[u]
        BY <2>1, GotoFacts DEF IInv
    <2>3. pc' = [pc EXCEPT ![c] = pc'[c]]
        BY <2>1, <2>2 DEF Goto
    <2>4. Stat \in Threads /\ Main \in Threads /\ c # Stat /\ c # Main
        BY DEF Threads
    <2> QED
        BY <2>1, <2>2, <2>3, <2>4
<1>3. Kinds'
    <2>1. pc' \in [Threads -> CountPlaces \union StatPlaces \union MainPlaces]
        BY <1>2 DEF IInv, Kinds
    <2>2. /\ \A d \in Counters : pc'[d] \in CountPlaces
          /\ pc'[Stat] \in StatPlaces /\ pc'[Main] \in MainPlaces
        BY <1>2 DEF IInv, Kinds
    <2>3. /\ countMutex' \in [Counters -> Threads \union {NoThread}]
          /\ count' \in [Counters -> Nat] /\ occurred' \in [Counters -> 0..MaxCount]
        BY DEF IInv, Kinds, Work, Counting, LockCount, Count, UnlockCount, End, AcquireCount,
           ReleaseCount, locks
    <2>4. /\ UNCHANGED <<mutex, depth, total, taken, handler, signals>>
          /\ UNCHANGED <<reportStatistics, statCancelled, unreported>>
        BY DEF Work, Counting, LockCount, Count, UnlockCount, End, locks
    <2> QED
        BY <2>1, <2>2, <2>3, <2>4 DEF IInv, Kinds
<1>4. DepthOK'
    <2>1. UNCHANGED <<mutex, depth, handler>>
        BY DEF Work, Counting, LockCount, Count, UnlockCount, End, locks
    <2> QED
        BY <1>2, <2>1 DEF IInv, DepthOK, Own, InHandler
<1>5. CountMutexOK'
    BY <1>2 DEF IInv, Kinds, CountMutexOK, Work, Counting, LockCount, Count, UnlockCount, End,
       Runs, AcquireCount, ReleaseCount, locks, ReaderReport, MakerReport, Reporters, Goto
<1>6. TakenOK'
    <2>1. /\ UNCHANGED taken
          /\ \A d \in Counters : count'[d] = count[d] \/ pc[d] = "counting"
        BY DEF IInv, Kinds, Work, Counting, LockCount, Count, UnlockCount, End, Runs
    <2>2. \A t \in Reporters : /\ pc[t] = "reset" => pc[Reader] # "counting"
                               /\ pc[t] = "reset_maker" => pc[Maker] # "counting"
        BY DEF IInv, CountMutexOK, ReaderReport, MakerReport, Reporters
    <2> QED
        BY <1>2, <2>1, <2>2 DEF IInv, TakenOK, Reporters
<1>7. EachCountedOnce'
    BY <1>2, PlaceFacts DEF IInv, Kinds, EachCountedOnce, Pending, Held, Work, Counting,
       LockCount, Count, UnlockCount, End, Runs, Reporters, Goto
<1> QED
    BY <1>3, <1>4, <1>5, <1>6, <1>7 DEF IInv

\* Steps that leave the counts and their mutexes alone, and move nobody into or out
\* of the places that say something of them.
LEMMA QuietInv ==
    ASSUME IInv, Kinds', DepthOK', UNCHANGED <<countMutex, count, taken, total, occurred>>,
           \A c \in Counters : pc'[c] = pc[c],
           \A t \in Reporters :
              pc'[t] = pc[t] \/ (pc[t] \notin {"ended"} \union ReportPlaces
                                    /\ pc'[t] \notin {"ended", "add_totals"} \union ReaderReport \union MakerReport \union {"report_maker"})
    PROVE  IInv'
<1> USE ThreadFacts
<1>1. CountMutexOK'
    BY DEF IInv, CountMutexOK, ReaderReport, MakerReport, Reporters
<1>2. TakenOK'
    BY DEF IInv, TakenOK, ReportPlaces, ReaderReport, MakerReport, Reporters
<1>3. EachCountedOnce'
    BY PlaceFacts DEF IInv, EachCountedOnce, Pending, Held, ReportPlaces, ReaderReport,
       MakerReport, Reporters
<1> QED
    BY <1>1, <1>2, <1>3 DEF IInv

LEMMA StatInv ==
    ASSUME IInv, StatStep \/ StatWakes
    PROVE  IInv'
<1> USE ThreadFacts
<1>1. \E place : Goto(Stat, place) /\ place \in {"lock", "check", "report", "going_to_wait", "wait"}
    BY DEF StatStep, StatWakes, StatStart, StatLock, StatReports, StatFindsNone, StatWaits, StatReported
<1>2. /\ pc' \in [Threads -> CountPlaces \union StatPlaces \union MainPlaces]
      /\ pc'[Stat] \in {"lock", "check", "report", "going_to_wait", "wait"}
      /\ \A u \in Threads : u # Stat => pc'[u] = pc[u]
    <2>1. PICK place \in {"lock", "check", "report", "going_to_wait", "wait"} : Goto(Stat, place)
        BY <1>1
    <2>2. pc'[Stat] = place /\ \A u \in Threads : u # Stat => pc'[u] = pc[u]
        BY <2>1, GotoFacts DEF IInv, Threads
    <2>3. pc' \in [Threads -> CountPlaces \union StatPlaces \union MainPlaces]
        BY <2>1 DEF IInv, Kinds, Goto, StatPlaces, ReportPlaces
    <2> QED
        BY <2>2, <2>3
<1>3. pc[Stat] \in {"start", "lock", "check", "going_to_wait", "wait", "reported"} /\ handler[Stat] = "none"
    BY DEF StatStep, StatWakes, StatStart, StatLock, StatReports, StatFindsNone, StatWaits, StatReported, Runs
<1>4. UNCHANGED <<countMutex, count, taken, total, occurred, handler, signals, statCancelled,
                  unreported>>
    BY DEF StatStep, StatWakes, StatStart, StatLock, StatReports, StatFindsNone, StatWaits, StatReported, locks
<1>5. /\ mutex' \in Threads \union {NoThread} /\ depth' \in Nat /\ DepthOK'
    <2>1. \A t \in Threads : t # Stat => Own(t)' = Own(t) /\ Own(t) = 0
        BY DEF Own
    <2>2. \A t \in Threads : InHandler(t)' = InHandler(t) /\ InHandler(t) \in {0, 1}
        BY <1>4 DEF InHandler
    <2>3. InHandler(Stat) = 0 /\ Stat \in Threads
        BY <1>3 DEF InHandler, Threads
    <2>4. /\ mutex \in Threads \union {NoThread} /\ depth \in Nat
          /\ mutex = NoThread => depth = 0
          /\ \A t \in Threads : mutex = t => depth \in 1..Own(t) + InHandler(t)
        BY DEF IInv, Kinds, DepthOK
    <2>5. CASE StatStart
        BY <2>5 DEF StatStart, DepthOK
    <2>6. CASE StatLock
        <3>1. Own(Stat) = 0 /\ Own(Stat)' = 1
            BY <2>3, <2>6, GotoFacts DEF IInv, StatLock, Runs, Own, ReportPlaces, ReaderReport,
               MakerReport
        <3>2. mutex = NoThread
            BY <2>3, <2>4, <2>6, <3>1 DEF StatLock, Acquire
        <3> QED
            BY <2>2, <2>3, <2>4, <2>6, <3>1, <3>2 DEF StatLock, Acquire, DepthOK
    <2>7. CASE StatWaits
        <3>1. Own(Stat) \in {0, 1}
            BY DEF Own
        <3>2. mutex = Stat => depth = 1
            BY <2>3, <2>4, <3>1
        <3>3. \/ mutex = Stat /\ mutex' = NoThread /\ depth' = 0
              \/ mutex # Stat /\ UNCHANGED <<mutex, depth>>
            BY <2>7, <3>2 DEF StatWaits, Release
        <3> QED
            BY <2>1, <2>2, <2>4, <3>3 DEF DepthOK
    <2>8. CASE StatReports \/ StatFindsNone \/ StatReported \/ StatWakes
        <3>1. UNCHANGED <<mutex, depth>>
            BY <2>8 DEF StatReports, StatFindsNone, StatReported, StatWakes, locks
        <3>2. Own(Stat)' = Own(Stat)
            BY <2>3, <2>8, GotoFacts DEF IInv, StatReports, StatFindsNone, StatReported, StatWakes, Runs, Own,
               ReportPlaces, ReaderReport, MakerReport
        <3> QED
            BY <2>1, <2>2, <2>3, <2>4, <3>1, <3>2 DEF DepthOK
    <2> QED
        BY <2>5, <2>6, <2>7, <2>8 DEF StatStep
<1>6. Kinds'
    <2>1. reportStatistics' \in BOOLEAN
        BY DEF IInv, Kinds, StatStep, StatWakes, StatStart, StatLock, StatReports, StatFindsNone, StatWaits,
           StatReported
    <2>2. /\ \A c \in Counters : pc'[c] \in CountPlaces
          /\ pc'[Stat] \in StatPlaces /\ pc'[Main] \in MainPlaces
        BY <1>2 DEF IInv, Kinds, StatPlaces, ReportPlaces, Threads
    <2> QED
        BY <1>2, <1>4, <1>5, <2>1, <2>2 DEF IInv, Kinds
<1>7. \A c \in Counters : pc'[c] = pc[c]
    BY <1>2
<1>8. \A t \in Reporters :
         pc'[t] = pc[t] \/ (pc[t] \notin {"ended"} \union ReportPlaces
                               /\ pc'[t] \notin {"ended", "add_totals"} \union ReaderReport \union MakerReport \union {"report_maker"})
    BY <1>2, <1>3 DEF Reporters, ReportPlaces, ReaderReport, MakerReport
<1> QED
    BY <1>4, <1>5, <1>6, <1>7, <1>8, QuietInv

LEMMA MainInv ==
    ASSUME IInv, MainCancels \/ MainJoins
    PROVE  IInv'
<1> USE ThreadFacts
<1>1. \E place \in {"join_stat", "join_maker", "report"} : Goto(Main, place)
    BY DEF MainCancels, MainJoins
<1>2. /\ pc' \in [Threads -> CountPlaces \union StatPlaces \union MainPlaces]
      /\ pc'[Main] \in {"join_stat", "join_maker", "report"}
      /\ \A u \in Threads : u # Main => pc'[u] = pc[u]
    <2>1. PICK place \in {"join_stat", "join_maker", "report"} : Goto(Main, place)
        BY <1>1
    <2>2. pc'[Main] = place /\ \A u \in Threads : u # Main => pc'[u] = pc[u]
        BY <2>1, GotoFacts DEF IInv, Threads
    <2>3. pc' \in [Threads -> CountPlaces \union StatPlaces \union MainPlaces]
        BY <2>1 DEF IInv, Kinds, Goto, MainPlaces, ReportPlaces
    <2> QED
        BY <2>2, <2>3
<1>3. pc[Main] \in {"join_reader", "join_stat", "join_maker"}
    BY DEF MainCancels, MainJoins, Runs
<1>4. UNCHANGED <<locks, countMutex, count, taken, total, occurred, handler, signals, unreported,
                  reportStatistics>>
    BY DEF MainCancels, MainJoins, locks
<1>5. Kinds'
    <2>1. statCancelled' \in BOOLEAN
        BY DEF IInv, Kinds, MainCancels, MainJoins
    <2>2. /\ \A c \in Counters : pc'[c] \in CountPlaces
          /\ pc'[Stat] \in StatPlaces /\ pc'[Main] \in MainPlaces
        BY <1>2 DEF IInv, Kinds, MainPlaces, ReportPlaces, Threads
    <2> QED
        BY <1>2, <1>4, <2>1, <2>2 DEF IInv, Kinds, locks
<1>6. DepthOK'
    BY <1>2, <1>4 DEF IInv, DepthOK, Own, InHandler, locks, Threads
<1>7. \A c \in Counters : pc'[c] = pc[c]
    BY <1>2
<1>8. \A t \in Reporters :
         pc'[t] = pc[t] \/ (pc[t] \notin {"ended"} \union ReportPlaces
                               /\ pc'[t] \notin {"ended", "add_totals"} \union ReaderReport \union MakerReport \union {"report_maker"})
    BY <1>2, <1>3 DEF Reporters, ReportPlaces, ReaderReport, MakerReport
<1> QED
    BY <1>4, <1>5, <1>6, <1>7, <1>8, QuietInv DEF locks

LEMMA SignalInv ==
    ASSUME IInv, NEW t \in Threads, Sigusr1(t) \/ Handling(t)
    PROVE  IInv'
<1> USE ThreadFacts
<1>1. \E h \in HandlerPlaces : handler' = [handler EXCEPT ![t] = h]
    BY DEF Sigusr1, Handling, HandlerLocks, HandlerSets, HandlerUnlocks, HandlerPlaces
<1>2. /\ handler' \in [Threads -> HandlerPlaces]
      /\ \A u \in Threads : u # t => handler'[u] = handler[u]
    BY <1>1 DEF IInv, Kinds
<1>3. UNCHANGED <<countMutex, count, taken, total, occurred, statCancelled>>
    BY DEF Sigusr1, Handling, HandlerLocks, HandlerSets, HandlerUnlocks, locks
<1>4. /\ pc' \in [Threads -> CountPlaces \union StatPlaces \union MainPlaces]
      /\ \A u \in Threads : pc'[u] = pc[u] \/ (u = Stat /\ pc[Stat] = "wait" /\ pc'[u] = "lock")
    <2>1. CASE UNCHANGED pc
        BY <2>1 DEF IInv, Kinds
    <2>2. CASE pc[Stat] = "wait" /\ Goto(Stat, "lock")
        <3>1. "lock" \in StatPlaces /\ Stat \in Threads
            BY DEF StatPlaces, Threads
        <3> QED
            BY <2>2, <3>1, GotoFacts DEF IInv, Kinds, Goto
    <2> QED
        BY <2>1, <2>2 DEF Sigusr1, Handling, HandlerLocks, HandlerSets, HandlerUnlocks
<1>5. mutex' \in Threads \union {NoThread} /\ depth' \in Nat /\ DepthOK'
    <2>1. \A u \in Threads : Own(u)' = Own(u) /\ Own(u) \in {0, 1}
        BY <1>4 DEF Own, ReportPlaces, ReaderReport, MakerReport, Threads
    <2>2. \A u \in Threads : u # t => InHandler(u)' = InHandler(u)
        BY <1>2 DEF InHandler
    <2>3. \A u \in Threads : InHandler(u) \in {0, 1} /\ InHandler(u)' \in {0, 1}
        BY DEF InHandler
    <2>4. /\ mutex \in Threads \union {NoThread} /\ depth \in Nat
          /\ mutex = NoThread => depth = 0
          /\ \A u \in Threads : mutex = u => depth \in 1..Own(u) + InHandler(u)
          /\ handler \in [Threads -> HandlerPlaces]
        BY DEF IInv, Kinds, DepthOK
    <2>5. CASE Sigusr1(t)
        <3>1. UNCHANGED <<mutex, depth>> /\ InHandler(t)' = InHandler(t)
            BY <2>4, <2>5 DEF Sigusr1, InHandler, locks
        <3> QED
            BY <2>1, <2>2, <2>4, <3>1 DEF DepthOK
    <2>6. CASE HandlerLocks(t)
        <3>1. InHandler(t) = 0 /\ InHandler(t)' = 1
            BY <2>4, <2>6 DEF HandlerLocks, InHandler
        <3>2. mutex \in {NoThread, t} /\ mutex' = t /\ depth' = depth + 1
            BY <2>6 DEF HandlerLocks, Acquire
        <3>3. depth <= Own(t)
            BY <2>1, <2>4, <3>1, <3>2
        <3> QED
            BY <2>1, <2>4, <3>1, <3>2, <3>3 DEF DepthOK
    <2>7. CASE HandlerSets(t)
        <3>1. UNCHANGED <<mutex, depth>> /\ InHandler(t)' = InHandler(t)
            BY <2>4, <2>7 DEF HandlerSets, InHandler, locks
        <3> QED
            BY <2>1, <2>2, <2>4, <3>1 DEF DepthOK
    <2>8. CASE HandlerUnlocks(t)
        <3>1. InHandler(t) = 1 /\ InHandler(t)' = 0
            BY <2>4, <2>8 DEF HandlerUnlocks, InHandler
        <3>2. \/ mutex = t /\ depth > 1 /\ depth' = depth - 1 /\ mutex' = mutex
              \/ mutex = t /\ depth' = 0 /\ mutex' = NoThread
              \/ mutex # t /\ UNCHANGED <<mutex, depth>>
            BY <2>8 DEF HandlerUnlocks, Release
        <3>3. mutex = t => depth <= Own(t) + 1
            BY <2>1, <2>4, <3>1
        <3> QED
            BY <2>1, <2>2, <2>4, <3>1, <3>2, <3>3 DEF DepthOK
    <2> QED
        BY <2>5, <2>6, <2>7, <2>8 DEF Handling
<1>6. Kinds'
    <2>1. signals' \in 0..MaxSignals
        BY BoundAssumption
        DEF IInv, Kinds, Sigusr1, Handling, HandlerLocks, HandlerSets, HandlerUnlocks
    <2>0. reportStatistics' \in BOOLEAN /\ unreported' \in BOOLEAN
        BY Zenon
        DEF IInv, Kinds, Sigusr1, Handling, HandlerLocks, HandlerSets, HandlerUnlocks
    <2>2. /\ \A c \in Counters : pc'[c] \in CountPlaces
          /\ pc'[Stat] \in StatPlaces /\ pc'[Main] \in MainPlaces
        BY <1>4 DEF IInv, Kinds, StatPlaces, Threads
    <2> QED
        BY <1>2, <1>3, <1>4, <1>5, <2>0, <2>1, <2>2 DEF IInv, Kinds
<1>7. \A c \in Counters : pc'[c] = pc[c]
    BY <1>4
<1>8. \A u \in Reporters :
         pc'[u] = pc[u] \/ (pc[u] \notin {"ended"} \union ReportPlaces
                               /\ pc'[u] \notin {"ended", "add_totals"} \union ReaderReport \union MakerReport \union {"report_maker"})
    BY <1>4 DEF Reporters, ReportPlaces, ReaderReport, MakerReport
<1> QED
    BY <1>3, <1>5, <1>6, <1>7, <1>8, QuietInv

-----------------------------------------------------------------------------
(***************************************************************************)
(* A report.                                                               *)
(***************************************************************************)
LEMMA ReportPc ==
    ASSUME IInv, NEW t \in Reporters, Reporting(t)
    PROVE  /\ \E place \in {"reported", "done"} \union ReportPlaces : Goto(t, place)
           /\ pc' \in [Threads -> CountPlaces \union StatPlaces \union MainPlaces]
           /\ \A u \in Threads : u # t => pc'[u] = pc[u]
           /\ \A c \in Counters : pc'[c] = pc[c]
           /\ pc[t] \in ReportPlaces
           /\ t = Stat => pc'[t] \in {"reported"} \union ReportPlaces
           /\ t = Main => pc'[t] \in {"done"} \union ReportPlaces
           /\ UNCHANGED <<mutex, depth, handler, reportStatistics, occurred, statCancelled, signals>>
<1> USE ThreadFacts
<1>p. \A c \in Counters : /\ Places(c)[1] \in ReportPlaces /\ Places(c)[2] \in ReportPlaces
                           /\ Places(c)[3] \in ReportPlaces /\ Places(c)[4] \in ReportPlaces
                           /\ Places(c)[5] \in ReportPlaces
    BY PlaceFacts DEF ReportPlaces, ReaderReport, MakerReport
<1>r. "add_totals" \in ReportPlaces /\ "reported" \notin ReportPlaces /\ "done" \notin ReportPlaces
    BY DEF ReportPlaces, ReaderReport, MakerReport
<1>1. \E place : /\ Goto(t, place) /\ place \in {"reported", "done"} \union ReportPlaces
                 /\ place = "reported" => t = Stat
                 /\ place = "done" => t # Stat
    <2>1. CASE \E c \in Counters : LockStatistics(t, c) \/ GetCount(t, c) \/ ResetCount(t, c)
                                        \/ UnlockStatistics(t, c)
        <3>1. \E place \in ReportPlaces : Goto(t, place)
            BY <1>p, <2>1 DEF LockStatistics, GetCount, ResetCount, UnlockStatistics
        <3> QED
            BY <1>r, <3>1
    <2>2. CASE AddTotals(t)
        <3>1. Goto(t, IF t = Stat THEN "reported" ELSE "done")
            BY <2>2 DEF AddTotals
        <3> QED
            BY <3>1
    <2> QED
        BY <2>1, <2>2 DEF Reporting
<1>2. PICK place \in {"reported", "done"} \union ReportPlaces :
            Goto(t, place) /\ (place = "reported" => t = Stat) /\ (place = "done" => t # Stat)
    BY <1>1
<1>3. pc'[t] = place /\ \A u \in Threads : u # t => pc'[u] = pc[u]
    BY <1>2, GotoFacts DEF IInv
<1>4. pc' \in [Threads -> CountPlaces \union StatPlaces \union MainPlaces]
    BY <1>2 DEF IInv, Kinds, Goto, StatPlaces, MainPlaces
<1>5. pc[t] \in ReportPlaces
    <2>1. CASE \E c \in Counters : LockStatistics(t, c) \/ GetCount(t, c) \/ ResetCount(t, c)
                                        \/ UnlockStatistics(t, c)
        BY <1>p, <2>1 DEF LockStatistics, GetCount, ResetCount, UnlockStatistics, Runs
    <2>2. CASE AddTotals(t)
        BY <1>r, <2>2 DEF AddTotals, Runs
    <2> QED
        BY <2>1, <2>2 DEF Reporting
<1>6. UNCHANGED <<mutex, depth, handler, reportStatistics, occurred, statCancelled, signals>>
    BY DEF Reporting, LockStatistics, GetCount, ResetCount, UnlockStatistics, AddTotals, locks
<1>7. \A c \in Counters : c \in Threads /\ c # t
    BY DEF Reporters
<1>8. /\ t = Stat => place \in {"reported"} \union ReportPlaces
      /\ t = Main => place \in {"done"} \union ReportPlaces
    BY <1>2
<1> QED
    BY <1>2, <1>3, <1>4, <1>5, <1>6, <1>7, <1>8

LEMMA ReportDepth ==
    ASSUME IInv, NEW t \in Reporters, Reporting(t)
    PROVE  DepthOK'
<1>1. \A u \in Threads : Own(u)' = Own(u) /\ InHandler(u)' = InHandler(u)
    <2>1. Stat \in Threads
        BY DEF Threads
    <2> QED
        BY <2>1, ReportPc DEF Own, InHandler, Reporters
<1> QED
    BY <1>1, ReportPc DEF IInv, DepthOK

LEMMA ReportKinds ==
    ASSUME IInv, NEW t \in Reporters, Reporting(t),
           countMutex' \in [Counters -> Threads \union {NoThread}],
           count' \in [Counters -> Nat], total' \in [Counters -> Nat],
           taken' \in [Reporters -> [Counters -> 0..MaxCount]], unreported' \in BOOLEAN
    PROVE  Kinds'
<1>1. pc'[Stat] \in StatPlaces /\ pc'[Main] \in MainPlaces
    <2>1. \A u \in Threads : u # t => pc'[u] = pc[u]
        BY ReportPc
    <2>2. t = Stat => pc'[t] \in StatPlaces
        BY ReportPc DEF StatPlaces
    <2>3. t = Main => pc'[t] \in MainPlaces
        BY ReportPc DEF MainPlaces
    <2> QED
        BY <2>1, <2>2, <2>3 DEF IInv, Kinds, Threads, Reporters
<1>2. \A c \in Counters : pc'[c] \in CountPlaces
    BY ReportPc DEF IInv, Kinds
<1> QED
    BY <1>1, <1>2, ReportPc DEF IInv, Kinds

LEMMA CountBound ==
    ASSUME IInv, NEW c \in Counters
    PROVE  count[c] \in 0..MaxCount
BY TypeFromInv DEF TypeOK

LEMMA LockStatisticsInv ==
    ASSUME IInv, NEW t \in Reporters, NEW c \in Counters, LockStatistics(t, c)
    PROVE  IInv'
<1> USE ThreadFacts
<1>0. Reporting(t)
    BY DEF Reporting
<1>1. /\ pc[t] = Places(c)[1] /\ pc'[t] = Places(c)[2] /\ countMutex[c] = NoThread
      /\ countMutex' = [countMutex EXCEPT ![c] = t]
      /\ UNCHANGED <<count, taken, total>> /\ unreported' \in BOOLEAN
    BY GotoFacts DEF IInv, Kinds, LockStatistics, Runs, AcquireCount
<1>2. /\ \A u \in Threads : u # t => pc'[u] = pc[u]
      /\ \A d \in Counters : pc'[d] = pc[d]
      /\ UNCHANGED occurred
    BY <1>0, ReportPc
<1>3. Kinds'
    <2>1. countMutex' \in [Counters -> Threads \union {NoThread}]
        BY <1>1 DEF IInv, Kinds
    <2> QED
        BY <1>0, <1>1, <2>1, ReportKinds DEF IInv, Kinds
<1>4. DepthOK'
    BY <1>0, ReportDepth
<1>5. CountMutexOK'
    BY <1>1, <1>2, PlaceFacts DEF IInv, Kinds, CountMutexOK, ReaderReport, MakerReport, Reporters
<1>6. TakenOK'
    BY <1>1, <1>2, PlaceFacts DEF IInv, TakenOK, MakerReport, Reporters
<1>7. EachCountedOnce'
    BY <1>1, <1>2, PlaceFacts DEF IInv, EachCountedOnce, Pending, Held, Reporters
<1> QED
    BY <1>3, <1>4, <1>5, <1>6, <1>7 DEF IInv

LEMMA GetCountInv ==
    ASSUME IInv, NEW t \in Reporters, NEW c \in Counters, GetCount(t, c)
    PROVE  IInv'
<1> USE ThreadFacts
<1>0. Reporting(t)
    BY DEF Reporting
<1>1. /\ pc[t] = Places(c)[2] /\ pc'[t] = Places(c)[3]
      /\ taken' = [taken EXCEPT ![t][c] = count[c]]
      /\ UNCHANGED <<countMutex, count, total, unreported>>
    BY GotoFacts DEF IInv, Kinds, GetCount, Runs, locks
<1>2. /\ \A u \in Threads : u # t => pc'[u] = pc[u]
      /\ \A d \in Counters : pc'[d] = pc[d]
      /\ UNCHANGED occurred
    BY <1>0, ReportPc
<1>t. /\ taken' \in [Reporters -> [Counters -> 0..MaxCount]]
      /\ taken'[t][c] = count[c]
      /\ \A u \in Reporters, d \in Counters : u # t \/ d # c => taken'[u][d] = taken[u][d]
    <2>1. taken \in [Reporters -> [Counters -> 0..MaxCount]] /\ count[c] \in 0..MaxCount
        BY CountBound DEF IInv, Kinds
    <2>2. taken[t] \in [Counters -> 0..MaxCount]
        BY <2>1
    <2>3. taken' = [taken EXCEPT ![t] = [taken[t] EXCEPT ![c] = count[c]]]
        BY <1>1
    <2>4. [taken[t] EXCEPT ![c] = count[c]] \in [Counters -> 0..MaxCount]
        BY <2>1, <2>2
    <2> QED
        BY <2>1, <2>2, <2>3, <2>4
<1>3. Kinds'
    BY <1>0, <1>1, <1>t, ReportKinds DEF IInv, Kinds
<1>4. DepthOK'
    BY <1>0, ReportDepth
<1>5. CountMutexOK'
    BY <1>1, <1>2, PlaceFacts DEF IInv, CountMutexOK, ReaderReport, MakerReport, Reporters
<1>6. TakenOK'
    BY <1>1, <1>2, <1>t, PlaceFacts DEF IInv, TakenOK, MakerReport, Reporters
<1>7. EachCountedOnce'
    <2>1. taken[t][c] = 0
        BY <1>1, PlaceFacts DEF IInv, TakenOK, MakerReport
    <2> QED
        BY <1>1, <1>2, <1>t, <2>1, PlaceFacts
        DEF IInv, Kinds, EachCountedOnce, Pending, Held, Reporters
<1> QED
    BY <1>3, <1>4, <1>5, <1>6, <1>7 DEF IInv

LEMMA ResetCountInv ==
    ASSUME IInv, NEW t \in Reporters, NEW c \in Counters, ResetCount(t, c)
    PROVE  IInv'
<1> USE ThreadFacts
<1>0. Reporting(t)
    BY DEF Reporting
<1>1. /\ pc[t] = Places(c)[3] /\ pc'[t] = Places(c)[4]
      /\ count' = [count EXCEPT ![c] = 0] /\ count' \in [Counters -> Nat]
      /\ UNCHANGED <<countMutex, taken, total, unreported>>
    BY GotoFacts DEF IInv, Kinds, ResetCount, Runs, locks
<1>2. /\ \A u \in Threads : u # t => pc'[u] = pc[u]
      /\ \A d \in Counters : pc'[d] = pc[d]
      /\ UNCHANGED occurred
    BY <1>0, ReportPc
<1>3. Kinds'
    BY <1>0, <1>1, ReportKinds DEF IInv, Kinds
<1>4. DepthOK'
    BY <1>0, ReportDepth
<1>5. CountMutexOK'
    BY <1>1, <1>2, PlaceFacts DEF IInv, CountMutexOK, ReaderReport, MakerReport, Reporters
<1>6. TakenOK'
    <2>1. \A u \in Reporters : u # t => pc[u] # Places(c)[3]
        BY <1>1, PlaceFacts DEF IInv, CountMutexOK, ReaderReport, MakerReport
    <2> QED
        BY <1>1, <1>2, <2>1, PlaceFacts DEF IInv, Kinds, TakenOK, MakerReport, Reporters
<1>7. EachCountedOnce'
    <2>1. taken[t][c] = count[c]
        BY <1>1, PlaceFacts DEF IInv, TakenOK
    <2> QED
        BY <1>1, <1>2, <2>1, PlaceFacts
        DEF IInv, Kinds, EachCountedOnce, Pending, Held, Reporters
<1> QED
    BY <1>3, <1>4, <1>5, <1>6, <1>7 DEF IInv

LEMMA UnlockStatisticsInv ==
    ASSUME IInv, NEW t \in Reporters, NEW c \in Counters, UnlockStatistics(t, c)
    PROVE  IInv'
<1> USE ThreadFacts
<1>0. Reporting(t)
    BY DEF Reporting
<1>1. /\ pc[t] = Places(c)[4] /\ pc'[t] = Places(c)[5]
      /\ countMutex' = [countMutex EXCEPT ![c] = NoThread]
      /\ UNCHANGED <<count, taken, total, unreported>>
    BY GotoFacts DEF IInv, Kinds, UnlockStatistics, Runs, ReleaseCount
<1>2. /\ \A u \in Threads : u # t => pc'[u] = pc[u]
      /\ \A d \in Counters : pc'[d] = pc[d]
      /\ UNCHANGED occurred
    BY <1>0, ReportPc
<1>3. Kinds'
    <2>1. countMutex' \in [Counters -> Threads \union {NoThread}]
        BY <1>1 DEF IInv, Kinds
    <2> QED
        BY <1>0, <1>1, <2>1, ReportKinds DEF IInv, Kinds
<1>4. DepthOK'
    BY <1>0, ReportDepth
<1>5. CountMutexOK'
    BY <1>1, <1>2, PlaceFacts DEF IInv, Kinds, CountMutexOK, ReaderReport, MakerReport, Reporters
<1>6. TakenOK'
    BY <1>1, <1>2, PlaceFacts DEF IInv, TakenOK, MakerReport, Reporters
<1>7. EachCountedOnce'
    BY <1>1, <1>2, PlaceFacts DEF IInv, EachCountedOnce, Pending, Held, Reporters
<1> QED
    BY <1>3, <1>4, <1>5, <1>6, <1>7 DEF IInv

LEMMA AddTotalsInv ==
    ASSUME IInv, NEW t \in Reporters, AddTotals(t)
    PROVE  IInv'
<1> USE ThreadFacts
<1>0. Reporting(t)
    BY DEF Reporting
<1>1. /\ pc[t] = "add_totals" /\ pc'[t] \in {"reported", "done"}
      /\ total' = [c \in Counters |-> total[c] + taken[t][c]]
      /\ taken' = [taken EXCEPT ![t] = [c \in Counters |-> 0]]
      /\ UNCHANGED <<countMutex, count, unreported>>
    BY GotoFacts DEF IInv, Kinds, AddTotals, Runs, locks
<1>2. /\ \A u \in Threads : u # t => pc'[u] = pc[u]
      /\ \A d \in Counters : pc'[d] = pc[d]
      /\ UNCHANGED occurred
    BY <1>0, ReportPc
<1>t. /\ taken \in [Reporters -> [Counters -> 0..MaxCount]]
      /\ taken' \in [Reporters -> [Counters -> 0..MaxCount]]
      /\ \A d \in Counters : taken'[t][d] = 0
      /\ \A u \in Reporters : u # t => taken'[u] = taken[u]
    <2>1. taken \in [Reporters -> [Counters -> 0..MaxCount]]
        BY DEF IInv, Kinds
    <2>2. [c \in Counters |-> 0] \in [Counters -> 0..MaxCount]
        BY BoundAssumption
    <2> QED
        BY <1>1, <2>1, <2>2
<1>3. Kinds'
    <2>1. total' \in [Counters -> Nat]
        BY <1>1, <1>t, BoundAssumption DEF IInv, Kinds
    <2> QED
        BY <1>0, <1>1, <1>t, <2>1, ReportKinds DEF IInv, Kinds
<1>4. DepthOK'
    BY <1>0, ReportDepth
<1>5. CountMutexOK'
    BY <1>1, <1>2 DEF IInv, CountMutexOK, ReaderReport, MakerReport, Reporters
<1>6. TakenOK'
    BY <1>1, <1>2, <1>t DEF IInv, TakenOK, MakerReport, Reporters
<1>7. EachCountedOnce'
    BY <1>1, <1>2, <1>t, PlaceFacts, BoundAssumption
    DEF IInv, Kinds, EachCountedOnce, Pending, Held, Reporters
<1> QED
    BY <1>3, <1>4, <1>5, <1>6, <1>7 DEF IInv

-----------------------------------------------------------------------------
\* The cancellation loses at most what the statistics thread had got.
LEMMA StatDiesInv ==
    ASSUME IInv, StatDies
    PROVE  IInv'
<1> USE ThreadFacts
<1>1. /\ pc[Stat] # "ended" /\ pc'[Stat] = "ended" /\ Stat \in Threads
      /\ \A u \in Threads : u # Stat => pc'[u] = pc[u]
      /\ pc' \in [Threads -> CountPlaces \union StatPlaces \union MainPlaces]
      /\ UNCHANGED <<countMutex, count, taken, total, occurred, handler, reportStatistics>>
      /\ UNCHANGED <<statCancelled, unreported, signals>>
    <2>1. Goto(Stat, "ended") /\ Stat \in Threads
        BY DEF StatDies, Threads
    <2>2. "ended" \in StatPlaces
        BY DEF StatPlaces
    <2>3. pc' \in [Threads -> CountPlaces \union StatPlaces \union MainPlaces]
        BY <2>1, <2>2 DEF IInv, Kinds, Goto
    <2> QED
        BY <2>1, <2>3, GotoFacts DEF IInv, StatDies
<1>2. mutex' \in Threads \union {NoThread} /\ depth' \in Nat /\ DepthOK'
    <2>1. Own(Stat)' = 1 /\ Own(Stat) \in {0, 1} /\ \A u \in Threads : u # Stat => Own(u)' = Own(u)
        BY <1>1 DEF Own
    <2>2. \A u \in Threads : InHandler(u)' = InHandler(u) /\ InHandler(u) \in {0, 1}
        BY <1>1 DEF InHandler
    <2>3. /\ mutex \in Threads \union {NoThread} /\ depth \in Nat
          /\ mutex = NoThread => depth = 0
          /\ \A u \in Threads : mutex = u => depth \in 1..Own(u) + InHandler(u)
        BY DEF IInv, Kinds, DepthOK
    <2>4. CASE Runs(Stat, "wait")
        <3>1. Own(Stat) = 0 /\ InHandler(Stat) = 0
            BY <2>4 DEF Runs, Own, InHandler, ReportPlaces, ReaderReport, MakerReport
        <3>2. mutex = NoThread /\ mutex' = Stat /\ depth' = depth + 1
            BY <1>1, <2>3, <2>4, <3>1 DEF StatDies, Acquire
        <3> QED
            BY <1>1, <2>1, <2>2, <2>3, <3>1, <3>2 DEF DepthOK
    <2>5. CASE ~Runs(Stat, "wait")
        <3>1. UNCHANGED <<mutex, depth>>
            BY <2>5 DEF StatDies
        <3> QED
            BY <1>1, <2>1, <2>2, <2>3, <3>1 DEF DepthOK
    <2> QED
        BY <2>4, <2>5
<1>c. \A c \in Counters : pc'[c] = pc[c]
    BY <1>1
<1>3. Kinds'
    <2>1. pc'[Stat] \in StatPlaces /\ pc'[Main] \in MainPlaces
        BY <1>1 DEF IInv, Kinds, StatPlaces, Threads
    <2>2. \A c \in Counters : pc'[c] \in CountPlaces
        BY <1>c DEF IInv, Kinds
    <2> QED
        BY <1>1, <1>2, <2>1, <2>2 DEF IInv, Kinds
<1>4. CountMutexOK'
    BY <1>1, <1>c DEF IInv, CountMutexOK, ReaderReport, MakerReport, Reporters
<1>5. TakenOK'
    BY <1>1 DEF IInv, TakenOK, MakerReport, Reporters
<1>6. EachCountedOnce'
    <2>1. ASSUME NEW c \in Counters PROVE OnceFor(c)'
        <3>1. /\ Pending(c)' = Pending(c) /\ Held(Main, c)' = Held(Main, c)
              /\ Held(Stat, c) \in 0..taken[Stat][c]
              /\ taken[Stat][c] \in Nat
              /\ Pending(c) + count[c] + Held(Main, c) + total[c] \in Nat
            BY <1>1, <1>c, BoundAssumption DEF IInv, Kinds, Pending, Held, Reporters, Threads
        <3>2. OnceFor(c)
            BY DEF IInv, EachCountedOnce, OnceFor
        <3> QED
            BY <1>1, <3>1, <3>2 DEF OnceFor
    <2> QED
        BY <2>1, OnceFacts DEF EachCountedOnce, OnceFor
<1> QED
    BY <1>2, <1>3, <1>4, <1>5, <1>6 DEF IInv

LEMMA StepInv ==
    ASSUME IInv, [Next]_vars
    PROVE  IInv'
<1>1. ASSUME NEW c \in Counters, Work(c) \/ Counting(c) \/ End(c) PROVE IInv'
    BY <1>1, CountingInv
<1>2. ASSUME NEW t \in Reporters, Reporting(t) PROVE IInv'
    BY <1>2, LockStatisticsInv, GetCountInv, ResetCountInv, UnlockStatisticsInv, AddTotalsInv
    DEF Reporting
<1>3. CASE StatStep \/ StatWakes
    BY <1>3, StatInv
<1>4. CASE StatDies
    BY <1>4, StatDiesInv
<1>5. CASE MainCancels \/ MainJoins
    BY <1>5, MainInv
<1>6. ASSUME NEW t \in Threads, Sigusr1(t) \/ Handling(t) PROVE IInv'
    BY <1>6, SignalInv
<1>7. CASE UNCHANGED vars
    BY <1>7 DEF vars, locks, IInv, Kinds, DepthOK, CountMutexOK, TakenOK, EachCountedOnce,
       Own, InHandler, Pending, Held
<1> QED
    BY <1>1, <1>2, <1>3, <1>4, <1>5, <1>6, <1>7 DEF Next, Reporters

\* What the code keeps at all times: who has which mutex, how often, and where each
\* addition to a count has got to (noaaportIngester.c:456-542, reader.c:155-182).
THEOREM Invariance == Spec => []IInv
<1>1. IInv /\ [Next]_vars => IInv'
    BY StepInv
<1> QED
    BY <1>1, InitInv, PTL DEF Spec

\* noaaportIngester.c:135-160, 522-542: "mutex" is locked at most twice, though it
\* is initialised again while handlers may have it and its owner may be cancelled;
\* and no count or total exceeds what was added.
THEOREM TypeCorrect == Spec => []TypeOK
BY Invariance, TypeFromInv, PTL

\* noaaportIngester.c:456-516, reader.c:155-182, productMaker.c:226-242, 782-803:
\* whatever the order of additions, reports, resets and signals, each addition is in
\* exactly one of the count, a report being made and the totals; what a cancelled
\* statistics thread had got is all that can be lost.
THEOREM CountedOnce == Spec => []EachCountedOnce
<1>1. IInv => EachCountedOnce
    BY DEF IInv
<1> QED
    BY <1>1, Invariance, PTL
=============================================================================
