---------------------------- MODULE BoundedFifo -----------------------------
(***************************************************************************)
(* What the message queues of the PCIe driver promise: a queue of at most  *)
(* Size messages, in the order they were sent.  A full queue gives up its  *)
(* oldest message to make room for a new one (responses), or the new one   *)
(* (events).                                                               *)
(***************************************************************************)
EXTENDS Naturals, Sequences

CONSTANTS Size, Messages, DropsOldest

VARIABLE queue

Init == queue = <<>>

Put(m) ==
  queue' = IF Len(queue) < Size THEN Append(queue, m)
           ELSE IF DropsOldest THEN Append(Tail(queue), m) ELSE queue
Take   == queue # <<>> /\ queue' = Tail(queue)
Clear  == queue' = <<>>

Next == (\E m \in Messages : Put(m)) \/ Take \/ Clear

Spec == Init /\ [][Next]_queue

=============================================================================
