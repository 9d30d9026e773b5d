---------------------------- MODULE NoaaportLog ----------------------------
(***************************************************************************)
(* noaaportLog.c: every thread accumulates messages in a list of its own   *)
(* and hands the list to ulog() in one piece; other messages are handed    *)
(* over at once.  One lock, which is not recursive, protects ulog() and    *)
(* the creation of the key under which each thread has its list.           *)
(*                                                                         *)
(* What is said is never cleared away: the message structures of a list    *)
(* stay, and so do their strings, which grow when a message does not fit.  *)
(*                                                                         *)
(* Two things break a call off: pthread_cancel() of a thread, at any       *)
(* instruction (the statistics thread) or inside ulog() (the reader        *)
(* thread), and, in readnoaaport and dvbs_multicast, a signal whose        *)
(* handler calls exit(), whose cleanup() logs, in the same thread.         *)
(***************************************************************************)
EXTENDS Naturals, Sequences

CONSTANTS Programs,     \* the sets of threads that make up a program
          AnyInstant,   \* the threads that may be cancelled anywhere
          InUlog,       \* the threads that may be cancelled inside ulog()
          Exiting,      \* the threads whose signal handler calls exit()
          NoThread,
          Short, Long,  \* messages that fit DEFAULT_STRING_SIZE, and others
          Junk,         \* what malloc() returns
          Vocabulary,   \* per thread: the messages that it logs
          MaxSaid,      \* bound: messages accumulated
          MaxCalls      \* bound, per thread: calls

Threads == UNION Programs
Message == Short \union Long

ASSUME ThreadAssumption ==
    NoThread \notin Threads /\ AnyInstant \union InUlog \union Exiting \subseteq Threads
ASSUME MessageAssumption ==
    /\ Short \intersect Long = {}
    /\ Junk \notin Message
    /\ Vocabulary \in [Threads -> SUBSET Message]
ASSUME BoundAssumption == MaxSaid \in Nat /\ MaxCalls \in [Threads -> Nat]

VARIABLES
    running,     \* the threads of this process
    mutex,       \* the owner of "mutex"
    keyCreated,
    list,        \* per thread: its message structures and how many hold messages
    pc,          \* per thread: where it is
    todo,        \* per thread: the messages that the call at hand is still to add
    printed,     \* per thread: the messages that the nplLog() at hand has printed
    exiting,     \* per thread: it is in exit()
    calls,       \* per thread: how many
    said,        \* per thread: the messages it has added since it began anew
    page         \* what was handed to ulog() since the lock was last obtained

vars == <<running, mutex, keyCreated, list, pc, todo, printed, exiting, calls, said, page>>

NoList == [msgs |-> <<>>, last |-> 0]

Init ==
    /\ running \in Programs
    /\ mutex = NoThread
    /\ keyCreated = FALSE
    /\ list = [t \in Threads |-> NoList]
    /\ pc = [t \in Threads |-> IF t \in running THEN "idle" ELSE "ended"]
    /\ todo = [t \in Threads |-> <<>>]
    /\ printed = [t \in Threads |-> 0]
    /\ exiting = [t \in Threads |-> FALSE]
    /\ calls = [t \in Threads |-> 0]
    /\ said = [t \in Threads |-> <<>>]
    /\ page = <<>>

Goto(t, place) == pc' = [pc EXCEPT ![t] = place]

-----------------------------------------------------------------------------
(***************************************************************************)
(* The lock.                                                               *)
(***************************************************************************)
\* The places where a thread wants the lock, and where it is when it has it.
Locked(place) == CASE place = "clear"  -> "clear_list"
                   [] place = "add"    -> "add_list"
                   [] place = "again"  -> "again_list"
                   [] place = "log"    -> "log_list"
                   [] place = "print"  -> "printing"
                   [] place = "direct" -> "saying"
Unlocked == {"clear", "add", "again", "log", "print", "direct"}
Ulogging == {"printing", "saying"}
LockedPlaces == {"clear_list", "add_list", "again_list", "log_list"} \union Ulogging

\* The lock is not honoured.
Lock_NotExclusive(t) ==
    /\ pc[t] \in Unlocked
    /\ mutex' = t
    /\ page' = <<>>
    /\ Goto(t, Locked(pc[t]))
    /\ UNCHANGED <<running, keyCreated, list, todo, printed, exiting, calls, said>>

Lock(t) ==
    /\ pc[t] \in Unlocked
    /\ mutex = NoThread
    /\ mutex' = t
    /\ page' = <<>>
    /\ Goto(t, Locked(pc[t]))
    /\ UNCHANGED <<running, keyCreated, list, todo, printed, exiting, calls, said>>

Unlock == mutex' = NoThread

\* getList(): the first call creates the key, under which no thread has a list.
GotList ==
    /\ Unlock
    /\ keyCreated' = TRUE
Lists == IF keyCreated THEN list ELSE [t \in Threads |-> NoList]

-----------------------------------------------------------------------------
(***************************************************************************)
(* nplVadd() on a list l.                                                  *)
(***************************************************************************)
\* The message structure after the last one in use, which may have been used
\* before, or a new one.
IsNew(l) == l.last = Len(l.msgs)
Next_(l) == IF IsNew(l) THEN [text |-> Junk, large |-> FALSE] ELSE l.msgs[l.last + 1]

TooSmall(l, m) == m \in Long /\ ~Next_(l).large

Put(l, msg) ==
    [l EXCEPT !.msgs = IF IsNew(l) THEN Append(@, msg) ELSE [@ EXCEPT ![l.last + 1] = msg]]

\* EAGAIN: the string is replaced by one that is large enough.  A new structure
\* becomes part of the list only as the very first.
\* Two variants: the very first is not kept either; it counts as a message.
Enlarged_NeverKept(l) == IF IsNew(l) THEN l ELSE Put(l, [text |-> Junk, large |-> TRUE])
Enlarged_InUse(l) == [Put(l, [text |-> Junk, large |-> TRUE]) EXCEPT !.last = @ + 1]
Enlarged(l) ==
    IF IsNew(l) /\ l.msgs # <<>> THEN l ELSE Put(l, [text |-> Junk, large |-> TRUE])

Added(l, m) == [Put(l, [Next_(l) EXCEPT !.text = m]) EXCEPT !.last = @ + 1]

-----------------------------------------------------------------------------
(***************************************************************************)
(* The calls of a thread.                                                  *)
(***************************************************************************)
Call(t, place, messages) ==
    /\ pc[t] = "idle"
    /\ calls[t] < MaxCalls[t]
    /\ calls' = [calls EXCEPT ![t] = @ + 1]
    /\ Goto(t, place)
    /\ todo' = [todo EXCEPT ![t] = messages]
    /\ UNCHANGED <<running, mutex, keyCreated, list, printed, exiting, said, page>>

\* nplStart(); nplErrno() and nplErrnum(), with the message of strerror() first.
Start(t, m) == Call(t, "clear", <<m>>)
Errno(t, m) == \E reason \in Short \intersect Vocabulary[t] : Call(t, "clear", <<reason, m>>)
Add(t, m) == Len(said[t]) < MaxSaid /\ Call(t, "add", <<m>>)
\* nplError(), nplWarn(), nplNotice(), nplInfo(), nplDebug(), and nplSerror().
Say(t, m) == Call(t, "direct", <<m>>)
Serror(t, m) == \E reason \in Short \intersect Vocabulary[t] : Call(t, "direct", <<reason, m>>)
Log(t) == Call(t, "log", <<>>)

\* nplClear(), at the beginning of nplStart() or the end of nplLog().
Clear(t) ==
    /\ pc[t] = "clear_list"
    /\ GotList
    /\ list' = [Lists EXCEPT ![t].last = 0]
    /\ said' = [said EXCEPT ![t] = <<>>]
    /\ Goto(t, IF todo[t] = <<>> THEN "idle" ELSE "add")
    /\ UNCHANGED <<running, todo, printed, exiting, calls, page>>

\* A message is done with, for better or worse.
Done(t) ==
    /\ said' = [said EXCEPT ![t] = Append(@, Head(todo[t]))]
    /\ todo' = [todo EXCEPT ![t] = Tail(@)]
    /\ Goto(t, IF Len(todo[t]) = 1 THEN "idle" ELSE "add")

\* nplVadd() succeeds, at once or when called again.
Vadd(t) ==
    /\ pc[t] \in {"add_list", "again_list"}
    /\ GotList
    /\ ~TooSmall(Lists[t], Head(todo[t]))
    /\ list' = [Lists EXCEPT ![t] = Added(@, Head(todo[t]))]
    /\ Done(t)
    /\ UNCHANGED <<running, printed, exiting, calls, page>>

\* nplVadd() returns EAGAIN; the caller calls it once again.
VaddAgain(t) ==
    /\ pc[t] \in {"add_list", "again_list"}
    /\ GotList
    /\ TooSmall(Lists[t], Head(todo[t]))
    /\ list' = [Lists EXCEPT ![t] = Enlarged(@)]
    /\ IF pc[t] = "add_list" THEN Goto(t, "again") /\ UNCHANGED <<said, todo>>
                             ELSE Done(t)
    /\ UNCHANGED <<running, printed, exiting, calls, page>>

\* nplLog(), after its getList().
LogNothing(t) ==
    /\ pc[t] = "log_list"
    /\ GotList
    /\ list' = Lists
    /\ Goto(t, IF Lists[t].last = 0 THEN "idle" ELSE "print")
    /\ printed' = [printed EXCEPT ![t] = 0]
    /\ UNCHANGED <<running, todo, exiting, calls, said, page>>

\* One message, or, when the level is masked out, all at once and none.
PrintOne(t) ==
    /\ pc[t] = "printing"
    /\ printed[t] < list[t].last
    /\ page' = Append(page, [by |-> t, text |-> list[t].msgs[printed[t] + 1].text])
    /\ printed' = [printed EXCEPT ![t] = @ + 1]
    /\ UNCHANGED <<running, mutex, keyCreated, list, pc, todo, exiting, calls, said>>

Printed(t) ==
    /\ pc[t] = "printing"
    /\ printed[t] \in {0, list[t].last}
    /\ Unlock
    /\ Goto(t, "clear")
    /\ UNCHANGED <<running, keyCreated, list, todo, printed, exiting, calls, said, page>>

SayOne(t) ==
    /\ pc[t] = "saying"
    /\ todo[t] # <<>>
    /\ page' = Append(page, [by |-> t, text |-> Head(todo[t])])
    /\ todo' = [todo EXCEPT ![t] = Tail(@)]
    /\ UNCHANGED <<running, mutex, keyCreated, list, pc, printed, exiting, calls, said>>

Said_NoUnlock(t) ==
    /\ pc[t] = "saying"
    /\ todo[t] = <<>>
    /\ Goto(t, IF exiting[t] THEN "ended" ELSE "idle")
    /\ UNCHANGED <<running, mutex, keyCreated, list, todo, printed, exiting, calls, said, page>>

\* exit() ends the process when its cleanup() has logged.
Said(t) ==
    /\ pc[t] = "saying"
    /\ todo[t] = <<>>
    /\ Unlock
    /\ Goto(t, IF exiting[t] THEN "ended" ELSE "idle")
    /\ UNCHANGED <<running, keyCreated, list, todo, printed, exiting, calls, said, page>>

-----------------------------------------------------------------------------
\* A thread that is cancelled ends where it is.
Cancelled(t) ==
    /\ t \in running
    /\ pc[t] # "ended"
    /\ t \in AnyInstant \/ (t \in InUlog /\ pc[t] \in Ulogging)
    /\ Goto(t, "ended")
    /\ UNCHANGED <<running, mutex, keyCreated, list, todo, printed, exiting, calls, said, page>>

\* SIGTERM or SIGINT: the handler runs in the middle of what the thread does and
\* calls exit(), which calls cleanup().
Exit(t) ==
    /\ t \in Exiting \intersect running
    /\ pc[t] # "ended"
    /\ ~exiting[t]
    /\ exiting' = [exiting EXCEPT ![t] = TRUE]
    /\ Goto(t, "direct")
    /\ \E m \in Short \intersect Vocabulary[t] : todo' = [todo EXCEPT ![t] = <<m>>]
    /\ UNCHANGED <<running, mutex, keyCreated, list, printed, calls, said, page>>

Step(t) ==
    \/ Lock(t) \/ Clear(t) \/ Vadd(t) \/ VaddAgain(t)
    \/ LogNothing(t) \/ PrintOne(t) \/ Printed(t) \/ SayOne(t) \/ Said(t)

Next ==
    \E t \in Threads :
        \/ \E m \in Vocabulary[t] : Start(t, m) \/ Errno(t, m) \/ Add(t, m) \/ Say(t, m) \/ Serror(t, m)
        \/ Log(t)
        \/ Step(t) \/ Cancelled(t) \/ Exit(t)

Spec == Init /\ [][Next]_vars

\* A call that has begun goes on, and gets a lock that is free again and again.
Fairness == \A t \in Threads : WF_vars(Step(t)) /\ SF_vars(Lock(t))

FairSpec == Spec /\ Fairness

-----------------------------------------------------------------------------
(***************************************************************************)
(* Properties.                                                             *)
(***************************************************************************)
Structure == [text : Message \union {Junk}, large : BOOLEAN]

\* In particular, no more structures are in use than there are.
TypeOK ==
    /\ running \in Programs
    /\ mutex \in Threads \union {NoThread}
    /\ keyCreated \in BOOLEAN
    /\ list \in [Threads -> [msgs : Seq(Structure), last : Nat]]
    /\ \A t \in Threads : list[t].last <= Len(list[t].msgs)
    /\ pc \in [Threads -> LockedPlaces \union Unlocked \union {"idle", "ended"}]
    /\ todo \in [Threads -> Seq(Message)]
    /\ printed \in [Threads -> Nat]
    /\ exiting \in [Threads -> BOOLEAN]
    /\ calls \in [Threads -> Nat]
    /\ \A t \in Threads : calls[t] <= MaxCalls[t]
    /\ said \in [Threads -> Seq(Message)]
    /\ page \in Seq([by : Threads, text : Message])

\* What a thread has accumulated is what it said, in order, whatever the
\* structures held before, with all messages that are short and the first one
\* however long it is.  (Other long ones may be missing: see NothingDropped.)
Accumulated(t) == [i \in 1..list[t].last |-> list[t].msgs[i].text]
ListsAreKept ==
    \A t \in Threads :
        \E at \in [1..list[t].last -> 1..Len(said[t])] :
            /\ \A i \in 1..list[t].last : Accumulated(t)[i] = said[t][at[i]]
            /\ \A i, j \in 1..list[t].last : i < j => at[i] < at[j]
            /\ \A j \in 1..Len(said[t]) :
                  j = 1 \/ said[t][j] \in Short => \E i \in 1..list[t].last : at[i] = j

\* The messages of one call go to the log in one piece and in order: while a
\* thread is in ulog() nobody else is, and what was printed since it got the lock
\* is the beginning of its own list.
LogIsOrderly ==
    \A t \in Threads :
        /\ pc[t] \in LockedPlaces => mutex = t
        /\ pc[t] = "printing" =>
              page = [i \in 1..printed[t] |-> [by |-> t, text |-> Accumulated(t)[i]]]

(***************************************************************************)
(* The invariant that the properties above follow from, in named parts.    *)
(***************************************************************************)
\* Before the key exists no thread has a list; so creating it loses none.
NoListsBeforeKey == ~keyCreated => \A t \in Threads : list[t] = NoList /\ said[t] = <<>>

\* What the places of the calls imply: there is a message to add, the second try
\* at the first message finds a string that is large enough, and no more is
\* printed than there is.
PlacesOK ==
    \A t \in Threads :
        /\ pc[t] \in {"add", "add_list", "again", "again_list"} => todo[t] # <<>>
        /\ pc[t] \in {"again", "again_list"} /\ said[t] = <<>> =>
              list[t].msgs # <<>> /\ list[t].msgs[1].large
        /\ pc[t] \in {"print", "printing"} => printed[t] <= list[t].last
        /\ pc[t] = "print" => printed[t] = 0

IInv == TypeOK /\ NoListsBeforeKey /\ PlacesOK /\ ListsAreKept /\ LogIsOrderly

\* A thread that ended, or began to exit, with the lock: nobody gets it again.
Wedged ==
    /\ mutex # NoThread
    /\ pc[mutex] = "ended" \/ (exiting[mutex] /\ pc[mutex] = "direct")

\* Every call returns, unless a thread was broken off while it had the lock.
CallsReturn == \A t \in Threads : pc[t] \notin {"idle", "ended"} ~> pc[t] \in {"idle", "ended"} \/ Wedged

\* noaaportLog.c:275-277 has the client call nplVadd() again when "The buffer has
\* been expanded", and nplAdd(), which does, "Adds a log-message": so nothing that
\* was said would be missing.
NothingDropped == \A t \in Threads : Accumulated(t) = said[t]
=============================================================================
