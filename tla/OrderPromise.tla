---------------------------- MODULE OrderPromise ----------------------------
(***************************************************************************)
(* What the RabbitMQ sample promises of its orders: each one stays queued  *)
(* until it has been processed, and is processed at least once.            *)
(***************************************************************************)
CONSTANT Orders

VARIABLES queued, processed, removed

vars == << queued, processed, removed >>

Init == queued = {} /\ processed = {} /\ removed = {}

Publish(o) ==
    /\ o \notin queued \union removed
    /\ queued' = queued \union {o}
    /\ UNCHANGED << processed, removed >>

Process(o) ==
    /\ o \in queued \union removed
    /\ processed' = processed \union {o}
    /\ UNCHANGED << queued, removed >>

Remove(o) ==
    /\ o \in queued \intersect processed
    /\ queued' = queued \ {o}
    /\ removed' = removed \union {o}
    /\ UNCHANGED processed

Next == \E o \in Orders : Publish(o) \/ Process(o) \/ Remove(o)

Spec == Init /\ [][Next]_vars

=============================================================================
