------------------------- MODULE NoaaportLogProofs -------------------------
(***************************************************************************)
(* Proofs about NoaaportLog.  IInv is inductive; the theorems follow.      *)
(***************************************************************************)
EXTENDS NoaaportLog, SequenceTheorems, TLAPS

\* Every place of a thread.
Places == LockedPlaces \union Unlocked \union {"idle", "ended"}

\* getList() never loses a list: only the first call creates the key.
LEMMA ListsStay == TypeOK /\ NoListsBeforeKey => Lists = list
<1> SUFFICES ASSUME TypeOK, NoListsBeforeKey, ~keyCreated
             PROVE  list = [t \in Threads |-> NoList]
  BY DEF Lists
<1>1. \A t \in Threads : list[t] = NoList
  BY DEF NoListsBeforeKey
<1>2. DOMAIN list = Threads
  BY DEF TypeOK
<1>3. QED BY <1>1, <1>2 DEF TypeOK

\* A list with one message structure put behind those in use.
LEMMA PutList ==
  ASSUME NEW l \in [msgs : Seq(Structure), last : Nat], l.last <= Len(l.msgs),
         NEW msg \in Structure
  PROVE  /\ Put(l, msg) \in [msgs : Seq(Structure), last : Nat]
         /\ Put(l, msg).last = l.last
         /\ Len(Put(l, msg).msgs) >= l.last + 1
         /\ Put(l, msg).msgs[l.last + 1] = msg
         /\ \A i \in 1..l.last : Put(l, msg).msgs[i] = l.msgs[i]
<1>1. CASE IsNew(l)
  BY <1>1 DEF IsNew, Put
<1>2. CASE ~IsNew(l)
  <2>1. l.last + 1 \in 1..Len(l.msgs)
    BY <1>2 DEF IsNew
  <2>2. Put(l, msg).msgs = [l.msgs EXCEPT ![l.last + 1] = msg]
    BY <1>2 DEF Put
  <2>3. /\ Put(l, msg).msgs \in Seq(Structure)
        /\ Len(Put(l, msg).msgs) = Len(l.msgs)
    BY <2>1, <2>2
  <2>4. Put(l, msg) = [msgs |-> [l.msgs EXCEPT ![l.last + 1] = msg], last |-> l.last]
    BY <1>2 DEF Put
  <2>5. l.msgs \in [1..Len(l.msgs) -> Structure]
    OBVIOUS
  <2>6. \A i \in 1..l.last : i \in 1..Len(l.msgs) /\ i # l.last + 1
    OBVIOUS
  <2>7. /\ Put(l, msg).msgs[l.last + 1] = msg
        /\ \A i \in 1..l.last : Put(l, msg).msgs[i] = l.msgs[i]
    BY <2>1, <2>2, <2>5, <2>6
  <2>8. Put(l, msg).last = l.last /\ Len(l.msgs) >= l.last + 1
    BY <2>1, <2>4
  <2>9. [l.msgs EXCEPT ![l.last + 1] = msg] \in Seq(Structure) /\ l.last \in Nat
    BY <2>2, <2>3
  <2>10. Put(l, msg) \in [msgs : Seq(Structure), last : Nat]
    BY <2>4, <2>9
  <2>11. Len(Put(l, msg).msgs) >= l.last + 1
    BY <2>3, <2>8
  <2>12. QED BY <2>7, <2>8, <2>10, <2>11
<1>3. QED BY <1>1, <1>2

\* The structure that a message goes to.
LEMMA NextStructure ==
  ASSUME NEW l \in [msgs : Seq(Structure), last : Nat], l.last <= Len(l.msgs),
         NEW m \in Message
  PROVE  /\ Next_(l) \in Structure
         /\ [Next_(l) EXCEPT !.text = m] \in Structure
         /\ [Next_(l) EXCEPT !.text = m].text = m
<1>1. CASE IsNew(l)
  BY <1>1 DEF Next_, Structure
<1>2. CASE ~IsNew(l)
  <2>1. l.last + 1 \in 1..Len(l.msgs)
    BY <1>2 DEF IsNew
  <2>2. l.msgs[l.last + 1] \in Structure
    BY <2>1
  <2>3. QED BY <1>2, <2>2 DEF Next_, Structure
<1>3. QED BY <1>1, <1>2

\* What nplVadd() leaves behind when it succeeds.
LEMMA AddedList ==
  ASSUME NEW l \in [msgs : Seq(Structure), last : Nat], l.last <= Len(l.msgs),
         NEW m \in Message
  PROVE  /\ Added(l, m) \in [msgs : Seq(Structure), last : Nat]
         /\ Added(l, m).last = l.last + 1
         /\ Added(l, m).last <= Len(Added(l, m).msgs)
         /\ Added(l, m).msgs[l.last + 1].text = m
         /\ \A i \in 1..l.last : Added(l, m).msgs[i] = l.msgs[i]
<1> DEFINE msg == [Next_(l) EXCEPT !.text = m]
<1>1. msg \in Structure /\ msg.text = m
  BY NextStructure
<1>2. /\ Put(l, msg) \in [msgs : Seq(Structure), last : Nat]
      /\ Put(l, msg).last = l.last
      /\ Len(Put(l, msg).msgs) >= l.last + 1
      /\ Put(l, msg).msgs[l.last + 1] = msg
      /\ \A i \in 1..l.last : Put(l, msg).msgs[i] = l.msgs[i]
  BY <1>1, PutList
<1>3. Added(l, m) = [Put(l, msg) EXCEPT !.last = @ + 1]
  BY DEF Added
<1> HIDE DEF msg
<1>4. QED BY <1>1, <1>2, <1>3

\* What nplVadd() leaves behind when it returns EAGAIN.
LEMMA EnlargedList ==
  ASSUME NEW l \in [msgs : Seq(Structure), last : Nat], l.last <= Len(l.msgs)
  PROVE  /\ Enlarged(l) \in [msgs : Seq(Structure), last : Nat]
         /\ Enlarged(l).last = l.last
         /\ Enlarged(l).last <= Len(Enlarged(l).msgs)
         /\ \A i \in 1..l.last : Enlarged(l).msgs[i] = l.msgs[i]
         /\ l.last = 0 => Enlarged(l).msgs # <<>> /\ Enlarged(l).msgs[1].large
<1> DEFINE msg == [text |-> Junk, large |-> TRUE]
<1>1. msg \in Structure /\ msg.large
  BY DEF Structure
<1>2. /\ Put(l, msg) \in [msgs : Seq(Structure), last : Nat]
      /\ Put(l, msg).last = l.last
      /\ Len(Put(l, msg).msgs) >= l.last + 1
      /\ Put(l, msg).msgs[l.last + 1] = msg
      /\ \A i \in 1..l.last : Put(l, msg).msgs[i] = l.msgs[i]
  BY <1>1, PutList
<1>3. CASE IsNew(l) /\ l.msgs # <<>>
  <2>1. Enlarged(l) = l
    BY <1>3 DEF Enlarged
  <2>2. l.last # 0
    BY <1>3 DEF IsNew
  <2>3. QED BY <2>1, <2>2
<1>4. CASE ~(IsNew(l) /\ l.msgs # <<>>)
  <2>1. Enlarged(l) = Put(l, msg)
    BY <1>4 DEF Enlarged
  <2> HIDE DEF msg
  <2>2. QED BY <1>1, <1>2, <2>1
<1>5. QED BY <1>3, <1>4

-----------------------------------------------------------------------------
(***************************************************************************)
(* What is in a list, by the messages it was to hold.                      *)
(***************************************************************************)
\* ListsAreKept of one list l, when the messages s were added to it.
KeptOf(l, s) ==
    \E at \in [1..l.last -> 1..Len(s)] :
        /\ \A i \in 1..l.last : l.msgs[i].text = s[at[i]]
        /\ \A i, j \in 1..l.last : i < j => at[i] < at[j]
        /\ \A j \in 1..Len(s) : j = 1 \/ s[j] \in Short => \E i \in 1..l.last : at[i] = j

List == [msgs : Seq(Structure), last : Nat]

\* ListsAreKept speaks of every thread's list on its own.
AllKept == \A t \in Threads : KeptOf(list[t], said[t])

LEMMA KeptForm == ListsAreKept <=> AllKept
BY DEF ListsAreKept, KeptOf, Accumulated, AllKept

\* An empty list holds nothing.
LEMMA KeptCleared ==
  ASSUME NEW l \in List, l.last = 0
  PROVE  KeptOf(l, <<>>)
<1>1. [i \in {} |-> 0] \in [1..l.last -> 1..Len(<<>>)]
  OBVIOUS
<1>2. 1..l.last = {} /\ 1..Len(<<>>) = {}
  OBVIOUS
<1>3. QED BY <1>1, <1>2 DEF KeptOf

\* A list to which nothing was added has no messages in use.
LEMMA KeptNothing ==
  ASSUME NEW l \in List, KeptOf(l, <<>>)
  PROVE  l.last = 0
<1>1. PICK at \in [1..l.last -> 1..Len(<<>>)] : TRUE
  BY DEF KeptOf
<1>2. CASE l.last > 0
  <2>1. 1 \in 1..l.last
    BY <1>2 DEF List
  <2>2. at[1] \in 1..0
    BY <1>1, <2>1
  <2>3. QED BY <2>2
<1>3. QED BY <1>2 DEF List

\* The lists that are alike as far as they are in use hold the same.
LEMMA KeptAlike ==
  ASSUME NEW l \in List, NEW k \in List, NEW s \in Seq(Message),
         k.last = l.last, \A i \in 1..l.last : k.msgs[i] = l.msgs[i],
         KeptOf(l, s)
  PROVE  KeptOf(k, s)
<1>1. PICK at \in [1..l.last -> 1..Len(s)] :
        /\ \A i \in 1..l.last : l.msgs[i].text = s[at[i]]
        /\ \A i, j \in 1..l.last : i < j => at[i] < at[j]
        /\ \A j \in 1..Len(s) : j = 1 \/ s[j] \in Short => \E i \in 1..l.last : at[i] = j
  BY DEF KeptOf
<1>2. /\ at \in [1..k.last -> 1..Len(s)]
      /\ \A i \in 1..k.last : k.msgs[i].text = s[at[i]]
      /\ \A i, j \in 1..k.last : i < j => at[i] < at[j]
      /\ \A j \in 1..Len(s) : j = 1 \/ s[j] \in Short => \E i \in 1..k.last : at[i] = j
  BY <1>1
<1>3. QED BY <1>2 DEF KeptOf

\* nplVadd() that succeeds adds the message at the end.
LEMMA KeptAdded ==
  ASSUME NEW l \in List, l.last <= Len(l.msgs), NEW s \in Seq(Message), NEW m \in Message,
         KeptOf(l, s)
  PROVE  KeptOf(Added(l, m), Append(s, m))
<1> DEFINE k == Added(l, m)
           r == Append(s, m)
<1>1. /\ k \in List
      /\ k.last = l.last + 1
      /\ k.msgs[l.last + 1].text = m
      /\ \A i \in 1..l.last : k.msgs[i] = l.msgs[i]
  BY AddedList DEF List
<1>2. /\ Len(r) = Len(s) + 1
      /\ r[Len(s) + 1] = m
      /\ \A j \in 1..Len(s) : r[j] = s[j]
  OBVIOUS
<1>3. PICK at \in [1..l.last -> 1..Len(s)] :
        /\ \A i \in 1..l.last : l.msgs[i].text = s[at[i]]
        /\ \A i, j \in 1..l.last : i < j => at[i] < at[j]
        /\ \A j \in 1..Len(s) : j = 1 \/ s[j] \in Short => \E i \in 1..l.last : at[i] = j
  BY DEF KeptOf
<1> DEFINE to == [i \in 1..k.last |-> IF i = l.last + 1 THEN Len(s) + 1 ELSE at[i]]
<1> HIDE DEF k, r
<1>4. l.last \in Nat /\ Len(s) \in Nat
  BY DEF List
<1>5. /\ to[l.last + 1] = Len(s) + 1
      /\ \A i \in 1..l.last : to[i] = at[i] /\ at[i] \in 1..Len(s)
      /\ \A i \in 1..k.last : i = l.last + 1 \/ i \in 1..l.last
      /\ \A i \in 1..l.last : i \in 1..k.last
      /\ l.last + 1 \in 1..k.last
  <2>1. /\ \A i \in 1..k.last : i = l.last + 1 \/ i \in 1..l.last
        /\ \A i \in 1..l.last : i \in 1..k.last /\ i # l.last + 1
        /\ l.last + 1 \in 1..k.last
    BY <1>1, <1>4
  <2>2. \A i \in 1..l.last : at[i] \in 1..Len(s)
    BY <1>3
  <2>3. QED BY <2>1, <2>2
<1>6. to \in [1..k.last -> 1..Len(r)]
  BY <1>2, <1>4, <1>5
<1> HIDE DEF to
<1>7. ASSUME NEW i \in 1..k.last
      PROVE  k.msgs[i].text = r[to[i]]
  <2>1. CASE i = l.last + 1
    BY <2>1, <1>1, <1>2, <1>5
  <2>2. CASE i \in 1..l.last
    <3>1. k.msgs[i].text = s[at[i]]
      BY <2>2, <1>1, <1>3
    <3>2. r[to[i]] = s[at[i]]
      BY <2>2, <1>2, <1>5
    <3>3. QED BY <3>1, <3>2
  <2>3. QED BY <2>1, <2>2, <1>5
<1>8. \A i, j \in 1..k.last : i < j => to[i] < to[j]
  BY <1>3, <1>4, <1>5
<1>9. ASSUME NEW j \in 1..Len(r), j = 1 \/ r[j] \in Short
      PROVE  \E i \in 1..k.last : to[i] = j
  <2>1. CASE j = Len(s) + 1
    BY <2>1, <1>5
  <2>2. CASE j \in 1..Len(s)
    <3>1. j = 1 \/ s[j] \in Short
      BY <2>2, <1>2, <1>9
    <3>2. PICK i \in 1..l.last : at[i] = j
      BY <2>2, <3>1, <1>3
    <3>3. QED BY <3>2, <1>5
  <2>3. QED BY <2>1, <2>2, <1>2, <1>4
<1>10. QED BY <1>6, <1>7, <1>8, <1>9 DEF KeptOf, k, r

\* A long message that is not the first may be missing.
LEMMA KeptDropped ==
  ASSUME NEW l \in List, NEW s \in Seq(Message), NEW m \in Long, s # <<>>,
         KeptOf(l, s)
  PROVE  KeptOf(l, Append(s, m))
<1> DEFINE r == Append(s, m)
<1>1. /\ Len(r) = Len(s) + 1
      /\ r[Len(s) + 1] = m
      /\ \A j \in 1..Len(s) : r[j] = s[j]
      /\ Len(s) \in Nat /\ Len(s) # 0
  OBVIOUS
<1>2. PICK at \in [1..l.last -> 1..Len(s)] :
        /\ \A i \in 1..l.last : l.msgs[i].text = s[at[i]]
        /\ \A i, j \in 1..l.last : i < j => at[i] < at[j]
        /\ \A j \in 1..Len(s) : j = 1 \/ s[j] \in Short => \E i \in 1..l.last : at[i] = j
  BY DEF KeptOf
<1>3. m \notin Short
  BY MessageAssumption
<1> HIDE DEF r
<1>4. at \in [1..l.last -> 1..Len(r)]
  BY <1>1, <1>2
<1>5. \A i \in 1..l.last : l.msgs[i].text = r[at[i]]
  BY <1>1, <1>2
<1>6. ASSUME NEW j \in 1..Len(r), j = 1 \/ r[j] \in Short
      PROVE  \E i \in 1..l.last : at[i] = j
  <2>1. j # Len(s) + 1
    BY <1>1, <1>3, <1>6
  <2>2. j \in 1..Len(s)
    BY <2>1, <1>1
  <2>3. QED BY <2>2, <1>1, <1>2, <1>6
<1>7. QED BY <1>2, <1>4, <1>5, <1>6 DEF KeptOf, r

\* What is in a list is a message, not what malloc() left there.
LEMMA KeptText ==
  ASSUME NEW l \in List, NEW s \in Seq(Message), KeptOf(l, s), NEW i \in 1..l.last
  PROVE  l.msgs[i].text \in Message
BY DEF KeptOf

-----------------------------------------------------------------------------
(***************************************************************************)
(* The invariant.                                                          *)
(***************************************************************************)
\* It holds before the first call.
LEMMA InitIInv == Init => IInv
<1> SUFFICES ASSUME Init
             PROVE  IInv
  OBVIOUS
<1>1. TypeOK
  <2>1. NoList \in [msgs : Seq(Structure), last : Nat] /\ NoList.last <= Len(NoList.msgs)
    BY DEF NoList
  <2>2. /\ list \in [Threads -> [msgs : Seq(Structure), last : Nat]]
        /\ \A t \in Threads : list[t].last <= Len(list[t].msgs)
    BY <2>1 DEF Init
  <2>3. /\ calls \in [Threads -> Nat]
        /\ \A t \in Threads : calls[t] <= MaxCalls[t]
    BY BoundAssumption DEF Init, Threads
  <2>4. pc \in [Threads -> LockedPlaces \union Unlocked \union {"idle", "ended"}]
    BY DEF Init
  <2>5. /\ running \in Programs
        /\ mutex \in Threads \union {NoThread}
        /\ keyCreated \in BOOLEAN
        /\ printed \in [Threads -> Nat]
        /\ exiting \in [Threads -> BOOLEAN]
    BY DEF Init
  <2>6. /\ todo \in [Threads -> Seq(Message)]
        /\ said \in [Threads -> Seq(Message)]
    <3>1. <<>> \in Seq(Message)
      OBVIOUS
    <3>2. QED BY <3>1 DEF Init
  <2>7. page \in Seq([by : Threads, text : Message])
    BY DEF Init
  <2>8. QED BY <2>2, <2>3, <2>4, <2>5, <2>6, <2>7 DEF TypeOK
<1>2. NoListsBeforeKey
  BY DEF Init, NoListsBeforeKey
<1>3. \A t \in Threads : pc[t] \in {"idle", "ended"}
  BY DEF Init
<1>4. PlacesOK
  BY <1>3 DEF PlacesOK
<1>5. ListsAreKept
  <2>1. NoList \in List /\ NoList.last = 0
    BY DEF NoList, List
  <2>2. \A t \in Threads : list[t] = NoList /\ said[t] = <<>>
    BY DEF Init
  <2>3. QED BY <2>1, <2>2, KeptCleared, KeptForm DEF AllKept
<1>6. LogIsOrderly
  BY <1>3 DEF LogIsOrderly, LockedPlaces, Ulogging
<1>7. QED BY <1>1, <1>2, <1>4, <1>5, <1>6 DEF IInv

\* A list, and the messages that it is to hold, of one thread change.
LEMMA ListsChange ==
  ASSUME TypeOK, ListsAreKept,
         NEW t \in Threads, NEW k \in List, NEW s \in Seq(Message), KeptOf(k, s),
         list' = [list EXCEPT ![t] = k], said' = [said EXCEPT ![t] = s]
  PROVE  ListsAreKept'
<1>1. \A u \in Threads : KeptOf(list[u], said[u])
  BY KeptForm DEF AllKept
<1>2. \A u \in Threads : KeptOf(list'[u], said'[u])
  BY <1>1 DEF TypeOK
<1>3. AllKept'
  BY <1>2 DEF AllKept
<1>4. QED BY <1>3, KeptForm, PTL

\* Nobody's list changes.
LEMMA ListsRemain ==
  ASSUME ListsAreKept, UNCHANGED <<list, said>>
  PROVE  ListsAreKept'
<1>1. \A u \in Threads : KeptOf(list[u], said[u])
  BY KeptForm DEF AllKept
<1>2. \A u \in Threads : KeptOf(list'[u], said'[u])
  BY <1>1
<1>3. AllKept'
  BY <1>2 DEF AllKept
<1>4. QED BY <1>3, KeptForm, PTL

\* The thread with the lock gives it back: nobody else has it.
LEMMA OwnerLeaves ==
  ASSUME TypeOK, LogIsOrderly, NEW t \in Threads, pc[t] \in LockedPlaces,
         NEW place \in Places \ LockedPlaces, pc' = [pc EXCEPT ![t] = place]
  PROVE  LogIsOrderly'
<1>1. \A u \in Threads : pc'[u] \notin LockedPlaces
  BY DEF TypeOK, LogIsOrderly
<1>2. QED BY <1>1 DEF LogIsOrderly, LockedPlaces, Ulogging

\* A thread goes where it does not have the lock; who has it, has it still.
LEMMA OtherLeaves ==
  ASSUME TypeOK, LogIsOrderly, NEW t \in Threads,
         NEW place \in Places \ LockedPlaces, pc' = [pc EXCEPT ![t] = place],
         UNCHANGED <<mutex, page, list, printed>>
  PROVE  LogIsOrderly'
<1>1. \A u \in Threads : pc'[u] \in LockedPlaces => pc'[u] = pc[u]
  BY DEF TypeOK
<1>2. \A u \in Threads : Accumulated(u)' = Accumulated(u)
  BY DEF Accumulated
<1>3. "printing" \in LockedPlaces
  BY DEF LockedPlaces, Ulogging
<1>4. QED BY <1>1, <1>2, <1>3 DEF LogIsOrderly

\* A call begins with messages, at least one if they are to be added.
LEMMA CallKeeps ==
  ASSUME IInv, NEW t \in Threads,
         NEW place \in {"clear", "add", "direct", "log"}, NEW messages \in Seq(Message),
         place = "add" => messages # <<>>,
         Call(t, place, messages)
  PROVE  IInv'
<1> USE DEF Call, Goto
<1>1. place \in Places \ LockedPlaces
  BY DEF Places, Unlocked, LockedPlaces, Ulogging
<1>2. TypeOK'
  <2>1. calls' \in [Threads -> Nat] /\ \A u \in Threads : calls'[u] <= MaxCalls[u]
    <3>1. \A u \in Threads : MaxCalls[u] \in Nat /\ calls[u] \in Nat /\ calls[u] <= MaxCalls[u]
      BY BoundAssumption DEF IInv, TypeOK
    <3>2. calls \in [Threads -> Nat] /\ calls[t] < MaxCalls[t] /\ calls' = [calls EXCEPT ![t] = @ + 1]
      BY DEF IInv, TypeOK
    <3>3. QED BY ONLY <3>1, <3>2, t \in Threads
  <2>2. pc' \in [Threads -> LockedPlaces \union Unlocked \union {"idle", "ended"}]
    BY <1>1 DEF IInv, TypeOK, Places
  <2>3. todo' \in [Threads -> Seq(Message)]
    BY DEF IInv, TypeOK
  <2>4. TypeOK /\ UNCHANGED <<running, mutex, keyCreated, list, printed, exiting, said, page>>
    BY DEF IInv
  <2> USE DEF TypeOK
  <2>5. /\ list' \in [Threads -> [msgs : Seq(Structure), last : Nat]]
        /\ \A u \in Threads : list'[u].last <= Len(list'[u].msgs)
    BY <2>4
  <2>6. QED BY ONLY <2>1, <2>2, <2>3, <2>4, <2>5 DEF TypeOK
<1>3. NoListsBeforeKey'
  BY DEF IInv, NoListsBeforeKey
<1>4. PlacesOK'
  BY DEF IInv, TypeOK, PlacesOK
<1>5. ListsAreKept'
  BY ListsRemain DEF IInv
<1>6. LogIsOrderly'
  BY <1>1, OtherLeaves DEF IInv
<1>7. QED BY <1>2, <1>3, <1>4, <1>5, <1>6 DEF IInv

\* Nobody else has the lock when a thread gets it, and nothing is printed yet.
LEMMA LockKeeps ==
  ASSUME IInv, NEW t \in Threads, Lock(t)
  PROVE  IInv'
<1>1. /\ pc[t] \in Unlocked
      /\ Locked(pc[t]) \in LockedPlaces
      /\ Locked(pc[t]) = "printing" => pc[t] = "print"
      /\ Locked(pc[t]) \in {"add_list"} => pc[t] = "add"
      /\ Locked(pc[t]) \in {"again_list"} => pc[t] = "again"
  BY DEF Lock, Locked, Unlocked, LockedPlaces, Ulogging
<1>2. pc' = [pc EXCEPT ![t] = Locked(pc[t])]
  BY DEF Lock, Goto
<1>3. UNCHANGED <<running, keyCreated, list, todo, printed, exiting, calls, said>>
  BY DEF Lock
<1>4. mutex = NoThread /\ mutex' = t /\ page' = <<>>
  BY DEF Lock
<1>5. TypeOK'
  BY <1>1, <1>2, <1>3, <1>4 DEF IInv, TypeOK
<1>6. NoListsBeforeKey'
  BY <1>3 DEF IInv, NoListsBeforeKey
<1>7. PlacesOK'
  BY <1>1, <1>2, <1>3 DEF IInv, TypeOK, PlacesOK, LockedPlaces, Ulogging
<1>8. ListsAreKept'
  BY <1>3, ListsRemain DEF IInv
<1>9. LogIsOrderly'
  <2>1. \A u \in Threads : pc[u] \notin LockedPlaces
    BY <1>4, ThreadAssumption DEF IInv, LogIsOrderly
  <2>2. \A u \in Threads : pc'[u] \in LockedPlaces => u = t
    BY <2>1, <1>2 DEF IInv, TypeOK
  <2>3. "printing" \in LockedPlaces
    BY DEF LockedPlaces, Ulogging
  <2>4. pc'[t] = "printing" => printed[t] = 0
    BY <1>1, <1>2 DEF IInv, TypeOK, PlacesOK
  <2>5. <<>> = [i \in 1..0 |-> [by |-> t, text |-> Accumulated(t)'[i]]]
    OBVIOUS
  <2>6. pc'[t] = "printing" =>
          page' = [i \in 1..printed'[t] |-> [by |-> t, text |-> Accumulated(t)'[i]]]
    BY <2>4, <2>5, <1>3, <1>4
  <2>7. QED BY <2>2, <2>3, <2>6, <1>4 DEF LogIsOrderly
<1>10. QED BY <1>5, <1>6, <1>7, <1>8, <1>9 DEF IInv

\* nplClear() begins a list anew.
LEMMA ClearKeeps ==
  ASSUME IInv, NEW t \in Threads, Clear(t)
  PROVE  IInv'
<1> DEFINE k == [list[t] EXCEPT !.last = 0]
<1>1. Lists = list
  BY ListsStay DEF IInv
<1>2. /\ pc[t] = "clear_list"
      /\ pc' = [pc EXCEPT ![t] = IF todo[t] = <<>> THEN "idle" ELSE "add"]
      /\ list' = [list EXCEPT ![t].last = 0]
      /\ said' = [said EXCEPT ![t] = <<>>]
      /\ mutex' = NoThread /\ keyCreated' = TRUE
      /\ UNCHANGED <<running, todo, printed, exiting, calls, page>>
  BY <1>1 DEF Clear, GotList, Unlock, Goto
<1>3. k \in List /\ k.last = 0 /\ list' = [list EXCEPT ![t] = k]
  BY <1>2 DEF IInv, TypeOK, List
<1>4. TypeOK'
  <2>1. /\ list' \in [Threads -> [msgs : Seq(Structure), last : Nat]]
        /\ \A u \in Threads : list'[u].last <= Len(list'[u].msgs)
    BY <1>3 DEF IInv, TypeOK, List
  <2>2. pc' \in [Threads -> LockedPlaces \union Unlocked \union {"idle", "ended"}]
    BY <1>2 DEF IInv, TypeOK, Unlocked
  <2>3. said' \in [Threads -> Seq(Message)]
    BY <1>2 DEF IInv, TypeOK
  <2>4. QED BY <1>2, <2>1, <2>2, <2>3 DEF IInv, TypeOK
<1>5. NoListsBeforeKey'
  BY <1>2 DEF NoListsBeforeKey
<1>6. PlacesOK'
  <2>1. \A u \in Threads \ {t} : /\ pc'[u] = pc[u] /\ list'[u] = list[u] /\ said'[u] = said[u]
                                 /\ todo'[u] = todo[u] /\ printed'[u] = printed[u]
    BY <1>2, <1>3 DEF IInv, TypeOK
  <2>2. pc'[t] \in {"idle", "add"} /\ (pc'[t] = "add" => todo'[t] # <<>>)
    BY <1>2 DEF IInv, TypeOK
  <2>3. QED BY <2>1, <2>2 DEF IInv, PlacesOK
<1>7. ListsAreKept'
  <2> HIDE DEF k
  <2>1. KeptOf(k, <<>>)
    BY <1>3, KeptCleared
  <2>2. <<>> \in Seq(Message)
    OBVIOUS
  <2>3. QED BY <1>2, <1>3, <2>1, <2>2, ListsChange DEF IInv
<1>8. LogIsOrderly'
  BY <1>2, OwnerLeaves DEF IInv, Places, Unlocked, LockedPlaces, Ulogging
<1>9. QED BY <1>4, <1>5, <1>6, <1>7, <1>8 DEF IInv

\* The messages that a call is still to add, when one of them is done with.
LEMMA QueueFacts ==
  ASSUME NEW q \in Seq(Message), q # <<>>
  PROVE  /\ Head(q) \in Message
         /\ Tail(q) \in Seq(Message)
         /\ Len(q) # 1 => Tail(q) # <<>>
<1>1. Head(q) \in Message /\ Tail(q) \in Seq(Message) /\ Len(Tail(q)) = Len(q) - 1
  BY HeadTailProperties
<1>2. Len(q) \in Nat /\ Len(<<>>) = 0
  OBVIOUS
<1>3. Len(q) # 1 => Len(Tail(q)) # 0
  BY <1>1, <1>2
<1>4. QED BY <1>1, <1>2, <1>3

\* One thread is done with a message: its list and what it said change.
LEMMA DoneKeeps ==
  ASSUME IInv, NEW t \in Threads, pc[t] \in {"add_list", "again_list"},
         NEW k \in List, k.last <= Len(k.msgs),
         KeptOf(k, Append(said[t], Head(todo[t]))),
         list' = [list EXCEPT ![t] = k], GotList, Done(t),
         UNCHANGED <<running, printed, exiting, calls, page>>
  PROVE  IInv'
<1>1. /\ todo[t] \in Seq(Message) /\ todo[t] # <<>>
      /\ Head(todo[t]) \in Message /\ Tail(todo[t]) \in Seq(Message)
      /\ Len(todo[t]) # 1 => Tail(todo[t]) # <<>>
  <2>1. todo[t] \in Seq(Message) /\ todo[t] # <<>>
    BY DEF IInv, TypeOK, PlacesOK
  <2>2. QED BY <2>1, QueueFacts
<1>2. /\ pc' = [pc EXCEPT ![t] = IF Len(todo[t]) = 1 THEN "idle" ELSE "add"]
      /\ said' = [said EXCEPT ![t] = Append(said[t], Head(todo[t]))]
      /\ todo' = [todo EXCEPT ![t] = Tail(todo[t])]
      /\ mutex' = NoThread /\ keyCreated' = TRUE
  BY DEF Done, GotList, Unlock, Goto
<1>3. Append(said[t], Head(todo[t])) \in Seq(Message)
  BY <1>1 DEF IInv, TypeOK
<1>4. TypeOK'
  <2>1. /\ list' \in [Threads -> [msgs : Seq(Structure), last : Nat]]
        /\ \A u \in Threads : list'[u].last <= Len(list'[u].msgs)
    BY DEF IInv, TypeOK, List
  <2>2. pc' \in [Threads -> LockedPlaces \union Unlocked \union {"idle", "ended"}]
    BY <1>2 DEF IInv, TypeOK, Unlocked
  <2>3. said' \in [Threads -> Seq(Message)] /\ todo' \in [Threads -> Seq(Message)]
    BY <1>1, <1>2, <1>3 DEF IInv, TypeOK
  <2>4. QED BY <1>2, <2>1, <2>2, <2>3 DEF IInv, TypeOK
<1>5. NoListsBeforeKey'
  BY <1>2 DEF NoListsBeforeKey
<1>6. PlacesOK'
  <2>1. \A u \in Threads \ {t} : /\ pc'[u] = pc[u] /\ list'[u] = list[u] /\ said'[u] = said[u]
                                 /\ todo'[u] = todo[u] /\ printed'[u] = printed[u]
    BY <1>2 DEF IInv, TypeOK
  <2>2. pc'[t] \in {"idle", "add"} /\ (pc'[t] = "add" => todo'[t] # <<>>)
    BY <1>1, <1>2 DEF IInv, TypeOK
  <2>3. QED BY <2>1, <2>2 DEF IInv, PlacesOK
<1>7. ListsAreKept'
  BY <1>2, <1>3, ListsChange DEF IInv
<1>8. LogIsOrderly'
  <2> DEFINE place == IF Len(todo[t]) = 1 THEN "idle" ELSE "add"
  <2>1. place \in Places \ LockedPlaces /\ pc[t] \in LockedPlaces
    BY DEF Places, Unlocked, LockedPlaces, Ulogging
  <2>2. TypeOK /\ LogIsOrderly /\ pc' = [pc EXCEPT ![t] = place]
    BY <1>2 DEF IInv
  <2> HIDE DEF place
  <2>3. QED BY <2>1, <2>2, OwnerLeaves
<1>9. QED BY <1>4, <1>5, <1>6, <1>7, <1>8 DEF IInv

\* What the lists of IInv are, one by one.
LEMMA OneList ==
  ASSUME IInv, NEW t \in Threads
  PROVE  /\ list[t] \in List /\ list[t].last <= Len(list[t].msgs)
         /\ said[t] \in Seq(Message)
         /\ KeptOf(list[t], said[t])
BY KeptForm DEF IInv, TypeOK, List, AllKept

\* nplVadd() adds the message.
LEMMA VaddKeeps ==
  ASSUME IInv, NEW t \in Threads, Vadd(t)
  PROVE  IInv'
<1> DEFINE m == Head(todo[t])
           k == Added(list[t], m)
<1>1. Lists = list
  BY ListsStay DEF IInv
<1>2. /\ pc[t] \in {"add_list", "again_list"}
      /\ GotList /\ Done(t)
      /\ list' = [list EXCEPT ![t] = k]
      /\ UNCHANGED <<running, printed, exiting, calls, page>>
  BY <1>1 DEF Vadd
<1>3. m \in Message
  BY <1>2, QueueFacts DEF IInv, TypeOK, PlacesOK
<1> HIDE DEF m
<1>4. k \in List /\ k.last <= Len(k.msgs)
  BY <1>3, OneList, AddedList DEF List
<1>5. KeptOf(k, Append(said[t], m))
  BY <1>3, OneList, KeptAdded
<1> HIDE DEF k
<1>6. QED BY <1>2, <1>4, <1>5, DoneKeeps DEF m

\* nplVadd() asks to be called again; a caller that was asked before gives up,
\* which does not happen to the first message.
LEMMA VaddAgainKeeps ==
  ASSUME IInv, NEW t \in Threads, VaddAgain(t)
  PROVE  IInv'
<1> DEFINE m == Head(todo[t])
           k == Enlarged(list[t])
<1>1. Lists = list
  BY ListsStay DEF IInv
<1>2. /\ pc[t] \in {"add_list", "again_list"}
      /\ GotList
      /\ TooSmall(list[t], m)
      /\ list' = [list EXCEPT ![t] = k]
      /\ UNCHANGED <<running, printed, exiting, calls, page>>
  BY <1>1 DEF VaddAgain
<1>3. m \in Long
  BY <1>2 DEF TooSmall
<1>4. /\ k \in List /\ k.last = list[t].last /\ k.last <= Len(k.msgs)
      /\ \A i \in 1..list[t].last : k.msgs[i] = list[t].msgs[i]
      /\ list[t].last = 0 => k.msgs # <<>> /\ k.msgs[1].large
  BY OneList, EnlargedList DEF List
<1>5. KeptOf(k, said[t])
  BY <1>4, OneList, KeptAlike
<1>6. said[t] = <<>> => list[t].last = 0
  BY OneList, KeptNothing
<1>7. CASE pc[t] = "again_list"
  <2>1. said[t] # <<>>
    <3>1. SUFFICES ASSUME said[t] = <<>>
                   PROVE  FALSE
      OBVIOUS
    <3>2. list[t].last = 0 /\ list[t].msgs # <<>> /\ list[t].msgs[1].large
      BY <1>6, <1>7, <3>1 DEF IInv, PlacesOK
    <3>3. ~IsNew(list[t])
      BY <3>2, OneList DEF IsNew, List
    <3>4. Next_(list[t]).large
      BY <3>2, <3>3 DEF Next_
    <3>5. QED BY <1>2, <3>4 DEF TooSmall
  <2>2. Done(t)
    BY <1>7 DEF VaddAgain
  <2> HIDE DEF m, k
  <2>3. KeptOf(k, Append(said[t], m))
    BY <1>3, <1>4, <1>5, <2>1, OneList, KeptDropped
  <2>4. QED BY <1>2, <1>4, <2>2, <2>3, DoneKeeps DEF m
<1>8. CASE pc[t] = "add_list"
  <2>1. /\ pc' = [pc EXCEPT ![t] = "again"]
        /\ mutex' = NoThread /\ keyCreated' = TRUE
        /\ UNCHANGED <<said, todo>>
    BY <1>2, <1>8 DEF VaddAgain, Goto, GotList, Unlock
  <2> HIDE DEF m, k
  <2>2. TypeOK'
    <3>1. /\ list' \in [Threads -> [msgs : Seq(Structure), last : Nat]]
          /\ \A u \in Threads : list'[u].last <= Len(list'[u].msgs)
      BY <1>2, <1>4 DEF IInv, TypeOK, List
    <3>2. pc' \in [Threads -> LockedPlaces \union Unlocked \union {"idle", "ended"}]
      BY <2>1 DEF IInv, TypeOK, Unlocked
    <3>3. QED BY <1>2, <2>1, <3>1, <3>2 DEF IInv, TypeOK
  <2>3. NoListsBeforeKey'
    BY <2>1 DEF NoListsBeforeKey
  <2>4. PlacesOK'
    <3>1. \A u \in Threads \ {t} : /\ pc'[u] = pc[u] /\ list'[u] = list[u]
                                   /\ UNCHANGED <<said[u], todo[u], printed[u]>>
      BY <1>2, <2>1 DEF IInv, TypeOK
    <3>2. /\ pc'[t] = "again" /\ todo'[t] # <<>>
          /\ list'[t] = k /\ said'[t] = said[t]
      BY <1>2, <1>8, <2>1 DEF IInv, TypeOK, PlacesOK
    <3>3. said'[t] = <<>> => list'[t].msgs # <<>> /\ list'[t].msgs[1].large
      BY <3>2, <1>4, <1>6
    <3>4. QED BY <3>1, <3>2, <3>3 DEF IInv, PlacesOK
  <2>5. ListsAreKept'
    <3>1. said' = [said EXCEPT ![t] = said[t]]
      BY <2>1 DEF IInv, TypeOK
    <3>2. QED BY <1>2, <1>4, <1>5, <3>1, OneList, ListsChange DEF IInv
  <2>6. LogIsOrderly'
    BY <1>8, <2>1, OwnerLeaves DEF IInv, Places, Unlocked, LockedPlaces, Ulogging
  <2>7. QED BY <2>2, <2>3, <2>4, <2>5, <2>6 DEF IInv
<1>9. QED BY <1>2, <1>7, <1>8

\* nplLog() finds its list.
LEMMA LogNothingKeeps ==
  ASSUME IInv, NEW t \in Threads, LogNothing(t)
  PROVE  IInv'
<1>1. Lists = list
  BY ListsStay DEF IInv
<1>2. /\ pc[t] = "log_list"
      /\ pc' = [pc EXCEPT ![t] = IF list[t].last = 0 THEN "idle" ELSE "print"]
      /\ printed' = [printed EXCEPT ![t] = 0]
      /\ mutex' = NoThread /\ keyCreated' = TRUE
      /\ UNCHANGED <<running, todo, exiting, calls, said, page, list>>
  BY <1>1 DEF LogNothing, GotList, Unlock, Goto
<1>3. TypeOK'
  <2>1. pc' \in [Threads -> LockedPlaces \union Unlocked \union {"idle", "ended"}]
    BY <1>2 DEF IInv, TypeOK, Unlocked
  <2>2. QED BY <1>2, <2>1 DEF IInv, TypeOK
<1>4. NoListsBeforeKey'
  BY <1>2 DEF NoListsBeforeKey
<1>5. PlacesOK'
  <2>1. \A u \in Threads \ {t} : pc'[u] = pc[u] /\ printed'[u] = printed[u]
    BY <1>2 DEF IInv, TypeOK
  <2>2. pc'[t] \in {"idle", "print"} /\ printed'[t] = 0 /\ list[t].last \in Nat
    BY <1>2 DEF IInv, TypeOK
  <2>3. QED BY <1>2, <2>1, <2>2 DEF IInv, PlacesOK
<1>6. ListsAreKept'
  BY <1>2, ListsRemain DEF IInv
<1>7. LogIsOrderly'
  BY <1>2, OwnerLeaves DEF IInv, Places, Unlocked, LockedPlaces, Ulogging
<1>8. QED BY <1>3, <1>4, <1>5, <1>6, <1>7 DEF IInv

\* nplLog() hands one message over: a message of the list, after those before it.
LEMMA PrintOneKeeps ==
  ASSUME IInv, NEW t \in Threads, PrintOne(t)
  PROVE  IInv'
<1> DEFINE n == printed[t]
           line == [by |-> t, text |-> list[t].msgs[n + 1].text]
<1>1. /\ pc[t] = "printing" /\ n < list[t].last
      /\ page' = Append(page, line)
      /\ printed' = [printed EXCEPT ![t] = n + 1]
      /\ UNCHANGED <<running, mutex, keyCreated, list, pc, todo, exiting, calls, said>>
  BY DEF PrintOne
<1>2. n \in Nat /\ list[t].last \in Nat /\ n + 1 \in 1..list[t].last
  <2>1. list \in [Threads -> [msgs : Seq(Structure), last : Nat]] /\ printed \in [Threads -> Nat]
    BY Zenon DEF IInv, TypeOK
  <2>2. list[t].last \in Nat /\ n \in Nat
    BY <2>1
  <2>3. QED BY <1>1, <2>2
<1>3. line \in [by : Threads, text : Message]
  BY <1>2, OneList, KeptText
<1>4. TypeOK'
  <2> DEFINE S == [by : Threads, text : Message]
  <2>1. page' \in Seq(S)
    <3>1. page \in Seq(S) /\ line \in S /\ page' = Append(page, line)
      BY <1>1, <1>3, Zenon DEF IInv, TypeOK
    <3> HIDE DEF S, line
    <3>2. QED BY <3>1
  <2>2. printed' \in [Threads -> Nat]
    <3>1. printed \in [Threads -> Nat] /\ n + 1 \in Nat
      BY <1>2 DEF IInv, TypeOK
    <3> HIDE DEF n
    <3>2. QED BY <1>1, <3>1
  <2>3. QED BY <1>1, <2>1, <2>2, Zenon DEF IInv, TypeOK
<1>5. NoListsBeforeKey'
  BY <1>1 DEF IInv, NoListsBeforeKey
<1>6. PlacesOK'
  <2>1. \A u \in Threads \ {t} : printed'[u] = printed[u]
    BY <1>1 DEF IInv, TypeOK
  <2>2. printed'[t] <= list[t].last
    BY <1>1, <1>2 DEF IInv, TypeOK
  <2>3. QED BY <1>1, <2>1, <2>2 DEF IInv, PlacesOK
<1>7. ListsAreKept'
  BY <1>1, ListsRemain DEF IInv
<1>8. LogIsOrderly'
  <2>1. "printing" \in LockedPlaces
    BY DEF LockedPlaces, Ulogging
  <2>2. \A u \in Threads : pc'[u] \in LockedPlaces => mutex' = u
    BY <1>1 DEF IInv, LogIsOrderly
  <2>3. page = [i \in 1..n |-> [by |-> t, text |-> Accumulated(t)[i]]]
    BY <1>1 DEF IInv, LogIsOrderly
  <2>4. line = [by |-> t, text |-> Accumulated(t)[n + 1]]
    BY <1>2 DEF Accumulated
  <2>5. Append(page, line) = [i \in 1..n + 1 |-> [by |-> t, text |-> Accumulated(t)[i]]]
    <3> HIDE DEF n, line
    <3>1. page \in Seq([by : Threads, text : Message])
      BY DEF IInv, TypeOK
    <3>2. Len(page) = n
      BY <1>2, <2>3, <3>1
    <3>3. QED BY <1>2, <2>3, <2>4, <3>1, <3>2
  <2>6. Accumulated(t)' = Accumulated(t) /\ printed'[t] = n + 1
    BY <1>1 DEF Accumulated, IInv, TypeOK
  <2>7. page' = [i \in 1..printed'[t] |-> [by |-> t, text |-> Accumulated(t)'[i]]]
    BY <1>1, <2>5, <2>6
  <2>8. \A u \in Threads : pc'[u] = "printing" => u = t
    BY <1>1, <2>1, <2>2
  <2>9. QED BY <2>2, <2>7, <2>8 DEF LogIsOrderly
<1>9. QED BY <1>4, <1>5, <1>6, <1>7, <1>8 DEF IInv

\* A message that is logged at once goes to the log.
LEMMA SayOneKeeps ==
  ASSUME IInv, NEW t \in Threads, SayOne(t)
  PROVE  IInv'
<1>1. /\ pc[t] = "saying" /\ todo[t] # <<>>
      /\ page' = Append(page, [by |-> t, text |-> Head(todo[t])])
      /\ todo' = [todo EXCEPT ![t] = Tail(todo[t])]
      /\ UNCHANGED <<running, mutex, keyCreated, list, pc, printed, exiting, calls, said>>
  BY DEF SayOne
<1>2. Head(todo[t]) \in Message /\ Tail(todo[t]) \in Seq(Message)
  BY <1>1, QueueFacts DEF IInv, TypeOK
<1>3. TypeOK'
  <2>1. page' \in Seq([by : Threads, text : Message])
    BY <1>1, <1>2 DEF IInv, TypeOK
  <2>2. todo' \in [Threads -> Seq(Message)]
    BY <1>1, <1>2 DEF IInv, TypeOK
  <2>3. QED BY <1>1, <2>1, <2>2 DEF IInv, TypeOK
<1>4. NoListsBeforeKey'
  BY <1>1 DEF IInv, NoListsBeforeKey
<1>5. PlacesOK'
  BY <1>1 DEF IInv, TypeOK, PlacesOK
<1>6. ListsAreKept'
  BY <1>1, ListsRemain DEF IInv
<1>7. LogIsOrderly'
  <2>1. "printing" \in LockedPlaces /\ "saying" \in LockedPlaces
    BY DEF LockedPlaces, Ulogging
  <2>2. \A u \in Threads : pc'[u] \in LockedPlaces => mutex' = u
    BY <1>1 DEF IInv, LogIsOrderly
  <2>3. \A u \in Threads : pc'[u] # "printing"
    BY <1>1, <2>1 DEF IInv, LogIsOrderly
  <2>4. QED BY <2>2, <2>3 DEF LogIsOrderly
<1>8. QED BY <1>3, <1>4, <1>5, <1>6, <1>7 DEF IInv

\* A thread that gives the lock back, is cancelled or begins to exit.
LEMMA LeavesKeeps ==
  ASSUME IInv, NEW t \in Threads, Printed(t) \/ Said(t) \/ Cancelled(t) \/ Exit(t)
  PROVE  IInv'
<1>1. PICK place \in {"idle", "ended", "clear", "direct"} : pc' = [pc EXCEPT ![t] = place]
  BY DEF Printed, Said, Cancelled, Exit, Goto
<1>2. place \in Places \ LockedPlaces
  BY DEF Places, Unlocked, LockedPlaces, Ulogging
<1>3. UNCHANGED <<running, keyCreated, list, printed, calls, said, page>>
  BY DEF Printed, Said, Cancelled, Exit
<1>4. TypeOK'
  <2>1. pc' \in [Threads -> LockedPlaces \union Unlocked \union {"idle", "ended"}]
    BY <1>1, <1>2 DEF IInv, TypeOK, Places
  <2>2. /\ mutex' \in Threads \union {NoThread}
        /\ exiting' \in [Threads -> BOOLEAN]
    BY DEF Printed, Said, Cancelled, Exit, Unlock, IInv, TypeOK
  <2>3. todo' \in [Threads -> Seq(Message)]
    <3>1. \A m \in Message : <<m>> \in Seq(Message)
      OBVIOUS
    <3>2. CASE UNCHANGED todo
      BY <3>2 DEF IInv, TypeOK
    <3>3. CASE Exit(t)
      BY <3>1, <3>3 DEF Exit, Message, IInv, TypeOK
    <3>4. QED BY <3>2, <3>3 DEF Printed, Said, Cancelled
  <2>4. QED BY <1>3, <2>1, <2>2, <2>3 DEF IInv, TypeOK
<1>5. NoListsBeforeKey'
  BY <1>3 DEF IInv, NoListsBeforeKey
<1>6. PlacesOK'
  <2>1. \A u \in Threads \ {t} : todo'[u] = todo[u]
    BY DEF Printed, Said, Cancelled, Exit, IInv, TypeOK
  <2>2. QED BY <1>1, <1>3, <2>1 DEF IInv, TypeOK, PlacesOK
<1>7. ListsAreKept'
  BY <1>3, ListsRemain DEF IInv
<1>8. LogIsOrderly'
  <2>1. CASE Printed(t) \/ Said(t)
    <3>1. pc[t] \in LockedPlaces
      BY <2>1 DEF Printed, Said, LockedPlaces, Ulogging
    <3>2. QED BY <1>1, <1>2, <3>1, OwnerLeaves DEF IInv
  <2>2. CASE Cancelled(t) \/ Exit(t)
    <3>1. UNCHANGED mutex
      BY <2>2 DEF Cancelled, Exit
    <3>2. QED BY <1>1, <1>2, <1>3, <3>1, OtherLeaves DEF IInv
  <2>3. QED BY <2>1, <2>2
<1>9. QED BY <1>4, <1>5, <1>6, <1>7, <1>8 DEF IInv

\* The calls, by the place where each begins.
LEMMA CallsBegin ==
  ASSUME IInv, NEW t \in Threads, NEW m \in Vocabulary[t],
         \/ Start(t, m) \/ Errno(t, m) \/ Add(t, m) \/ Say(t, m) \/ Serror(t, m)
  PROVE  IInv'
<1>1. Vocabulary[t] \subseteq Message
  BY MessageAssumption
<1>2. /\ <<>> \in Seq(Message) /\ <<m>> \in Seq(Message) /\ <<m>> # <<>>
      /\ \A r \in Short : <<r, m>> \in Seq(Message)
  BY <1>1 DEF Message
<1>3. CASE Start(t, m)
  BY <1>2, <1>3, CallKeeps DEF Start
<1>4. CASE Errno(t, m)
  BY <1>2, <1>4, CallKeeps DEF Errno
<1>5. CASE Add(t, m)
  BY <1>2, <1>5, CallKeeps DEF Add
<1>6. CASE Say(t, m)
  BY <1>2, <1>6, CallKeeps DEF Say
<1>7. CASE Serror(t, m)
  BY <1>2, <1>7, CallKeeps DEF Serror
<1>8. QED BY <1>3, <1>4, <1>5, <1>6, <1>7

\* Every step preserves the invariant.
LEMMA NextIInv == IInv /\ [Next]_vars => IInv'
<1> SUFFICES ASSUME IInv, [Next]_vars
             PROVE  IInv'
  OBVIOUS
<1>1. CASE Next
  <2>1. PICK t \in Threads :
          \/ \E m \in Vocabulary[t] :
                Start(t, m) \/ Errno(t, m) \/ Add(t, m) \/ Say(t, m) \/ Serror(t, m)
          \/ Log(t)
          \/ Step(t) \/ Cancelled(t) \/ Exit(t)
    BY <1>1 DEF Next
  <2>2. CASE \E m \in Vocabulary[t] :
                Start(t, m) \/ Errno(t, m) \/ Add(t, m) \/ Say(t, m) \/ Serror(t, m)
    BY <2>2, CallsBegin
  <2>3. CASE Log(t)
    <3>1. <<>> \in Seq(Message)
      OBVIOUS
    <3>2. QED BY <2>3, <3>1, CallKeeps DEF Log
  <2>4. CASE Step(t)
    <3>1. CASE Lock(t)
      BY <3>1, LockKeeps
    <3>2. CASE Clear(t)
      BY <3>2, ClearKeeps
    <3>3. CASE Vadd(t)
      BY <3>3, VaddKeeps
    <3>4. CASE VaddAgain(t)
      BY <3>4, VaddAgainKeeps
    <3>5. CASE LogNothing(t)
      BY <3>5, LogNothingKeeps
    <3>6. CASE PrintOne(t)
      BY <3>6, PrintOneKeeps
    <3>7. CASE SayOne(t)
      BY <3>7, SayOneKeeps
    <3>8. CASE Printed(t) \/ Said(t)
      BY <3>8, LeavesKeeps
    <3>9. QED BY <2>4, <3>1, <3>2, <3>3, <3>4, <3>5, <3>6, <3>7, <3>8 DEF Step
  <2>5. CASE Cancelled(t) \/ Exit(t)
    BY <2>5, LeavesKeeps
  <2>6. QED BY <2>1, <2>2, <2>3, <2>4, <2>5
<1>2. CASE UNCHANGED vars
  <2>1. TypeOK'
    BY <1>2 DEF IInv, TypeOK, vars
  <2>2. NoListsBeforeKey' /\ PlacesOK'
    BY <1>2 DEF IInv, NoListsBeforeKey, PlacesOK, vars
  <2>3. ListsAreKept'
    BY <1>2, ListsRemain DEF IInv, vars
  <2>4. LogIsOrderly'
    BY <1>2 DEF IInv, LogIsOrderly, Accumulated, vars
  <2>5. QED BY <2>1, <2>2, <2>3, <2>4 DEF IInv
<1>3. QED BY <1>1, <1>2

\* The invariant holds in every reachable state.
THEOREM Invariance == Spec => []IInv
BY InitIInv, NextIInv, PTL DEF Spec

-----------------------------------------------------------------------------
\* Message lists are well formed whatever threads do to theirs, and what is in
\* use of a list never exceeds what there is of it (noaaportLog.c:34-44).
THEOREM TypeCorrect == Spec => []TypeOK
<1>1. IInv => TypeOK
  BY DEF IInv
<1>2. QED BY <1>1, Invariance, PTL

\* For any number of threads and messages of any kinds: a list holds what its
\* thread said, in order, all short messages and the first one however long,
\* though structures and their strings are used again (noaaportLog.c:285-375).
THEOREM ListsStayKept == Spec => []ListsAreKept
<1>1. IInv => ListsAreKept
  BY DEF IInv
<1>2. QED BY <1>1, Invariance, PTL

\* The lock is exclusive, also when threads are cancelled or exit with it, and a
\* list reaches the log in one piece and in order (noaaportLog.c:479-524).
THEOREM LogStaysOrderly == Spec => []LogIsOrderly
<1>1. IInv => LogIsOrderly
  BY DEF IInv
<1>2. QED BY <1>1, Invariance, PTL
=============================================================================
