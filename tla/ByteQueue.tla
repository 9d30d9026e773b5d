------------------------------ MODULE ByteQueue ------------------------------
(***************************************************************************)
(* What the FIFO of fifo.c promises the reader threads that fill it and    *)
(* the product-maker that drains it: a bounded first-in-first-out queue of *)
(* bytes with atomic operations, and no locks, regions or wait queues.     *)
(*                                                                         *)
(* A writer first decides what it will add (the bytes that the read(2) of  *)
(* a reader thread returned, held in "offer") and adds all of it in one    *)
(* step; a taker removes exactly as many bytes as it asked for, oldest     *)
(* first.  Once the queue is closing and empty every operation is refused. *)
(***************************************************************************)
EXTENDS Naturals, Sequences

CONSTANTS Threads,    \* the threads that use the queue
          Byte,       \* the values of a byte
          Capacity,   \* how many bytes the queue can hold
          MaxAsk      \* the most bytes one operation asks for

VARIABLES queue,      \* the unread bytes, oldest first
          closing,    \* fifoCloseWhenEmpty() has been called
          ask,        \* per thread: how many bytes its last call asked for
          offer,      \* per thread: the bytes it is about to add
          got,        \* per thread: the bytes its last fifoRead() returned
          result      \* per thread: how its last call ended

qvars == <<queue, closing, ask, offer, got, result>>

Blocks(max) == UNION {[1..m -> Byte] : m \in 1..max}

Init ==
    /\ queue = <<>>
    /\ closing = FALSE
    /\ ask = [t \in Threads |-> 0]
    /\ offer = [t \in Threads |-> <<>>]
    /\ got = [t \in Threads |-> <<>>]
    /\ result = [t \in Threads |-> "none"]

\* A thread enters an operation: the outcome of its previous one is forgotten.
Call(t) ==
    /\ \E n \in 0..MaxAsk : ask' = [ask EXCEPT ![t] = n]
    /\ result' = [result EXCEPT ![t] = "none"]
    /\ UNCHANGED <<queue, closing, offer, got>>

\* The request can never be met: it exceeds the capacity.
RefuseTooLarge(t) ==
    /\ ask[t] > Capacity
    /\ result' = [result EXCEPT ![t] = "usage"]
    /\ UNCHANGED <<queue, closing, ask, offer, got>>

\* The queue is closing and empty: the operation is refused.
RefuseClosed(t) ==
    /\ closing
    /\ queue = <<>>
    /\ result' = [result EXCEPT ![t] = "closed"]
    /\ UNCHANGED <<queue, closing, ask, offer, got>>

Offer(t) ==
    /\ \E d \in Blocks(ask[t]) : offer' = [offer EXCEPT ![t] = d]
    /\ UNCHANGED <<queue, closing, ask, got, result>>

Put(t) ==
    /\ offer[t] # <<>>
    /\ Len(queue) + Len(offer[t]) <= Capacity
    /\ queue' = queue \o offer[t]
    /\ offer' = [offer EXCEPT ![t] = <<>>]
    /\ result' = [result EXCEPT ![t] = "ok"]
    /\ UNCHANGED <<closing, ask, got>>

Take(t) ==
    /\ ask[t] \in 0..Len(queue)
    /\ got' = [got EXCEPT ![t] = SubSeq(queue, 1, ask[t])]
    /\ queue' = SubSeq(queue, ask[t] + 1, Len(queue))
    /\ result' = [result EXCEPT ![t] = "ok"]
    /\ UNCHANGED <<closing, ask, offer>>

Close(t) ==
    /\ closing' = TRUE
    /\ result' = [result EXCEPT ![t] = "ok"]
    /\ UNCHANGED <<queue, ask, offer, got>>

Next ==
    \E t \in Threads :
        \/ Call(t) \/ RefuseTooLarge(t) \/ RefuseClosed(t)
        \/ Offer(t) \/ Put(t) \/ Take(t) \/ Close(t)

Spec == Init /\ [][Next]_qvars

=============================================================================
