---------------------------- MODULE RecordQueue ----------------------------
(***************************************************************************)
(* What the shared-memory FIFO promises: a bounded queue of records, each  *)
(* put whole, each got whole, once, in order.  A record that exceeds the   *)
(* queue is dropped.                                                       *)
(***************************************************************************)
EXTENDS Naturals, Sequences

CONSTANTS Record,       \* the records
          Fits(_),      \* the records that do not exceed the queue
          Contents(_)   \* of a record

VARIABLES queue,        \* the records in the FIFO, oldest first
          offer,        \* the record of the put that has begun last
          pending,      \* whether that put still has to have its effect
          got           \* the contents got by the last get, <<>> before

vars == <<queue, offer, pending, got>>

Init ==
    /\ queue = <<>>
    /\ offer \in Record
    /\ pending = FALSE
    /\ got = <<>>

BeginPut ==
    /\ ~pending
    /\ offer' \in Record
    /\ pending' = TRUE
    /\ UNCHANGED <<queue, got>>

Put ==
    /\ pending
    /\ Fits(offer)
    /\ queue' = Append(queue, offer)
    /\ pending' = FALSE
    /\ UNCHANGED <<offer, got>>

Drop ==
    /\ pending
    /\ ~Fits(offer)
    /\ pending' = FALSE
    /\ UNCHANGED <<queue, offer, got>>

BeginGet ==
    /\ got' = <<>>
    /\ UNCHANGED <<queue, offer, pending>>

Get ==
    /\ queue # <<>>
    /\ got = <<>>
    /\ got' = Contents(Head(queue))
    /\ queue' = Tail(queue)
    /\ UNCHANGED <<offer, pending>>

Next == BeginPut \/ Put \/ Drop \/ BeginGet \/ Get

Spec == Init /\ [][Next]_vars
=============================================================================
