----------------------------- MODULE OrderQueue -----------------------------
(***************************************************************************)
(* The RabbitMQ sample: orders go from a durable queue through the stream  *)
(* of RabbitMqConsumerActor, a cluster singleton, to the sharded Product-  *)
(* Actors.  The stream keeps a bounded number of orders in its hands, asks *)
(* the product for each, acknowledges what is answered within 3 seconds    *)
(* and gives the rest back to the queue.  A product drops an order at      *)
(* random, and keeps the others in memory only.                            *)
(*                                                                         *)
(* The queue redelivers in no particular order; the stream does not keep   *)
(* it either.  _rejectedOrders is left out: it only chooses a log message. *)
(***************************************************************************)
EXTENDS Integers, FiniteSets

CONSTANTS Orders, Products,
          ProductOf,        \* the product of an order: the entity id of its message
          MaxParallelism,   \* MaxParallelism
          MaxStale,         \* bound on the messages of one order whose Ask has timed out
          MaxFaults,        \* bound on exceptions that end the stream, or fail an Ack
          MaxHandovers,     \* bound on moves of the singleton to another node
          MaxCrashes        \* bound on products that lose their memory

ASSUME OrdersAssumption == IsFiniteSet(Orders) /\ ProductOf \in [Orders -> Products]
ASSUME NumbersAssumption ==
    /\ MaxParallelism \in Nat \ {0} /\ MaxStale \in Nat
    /\ MaxFaults \in Nat /\ MaxHandovers \in Nat /\ MaxCrashes \in Nat

VARIABLES
    broker,     \* of each order: "new", "ready", "unacked" or "gone"
    handler,    \* "none", "buffered", "asking", "acking" or "nacking"
    request,    \* the CreateOrder of the running Ask: "none", "sent", "dropped", "replied"
    stale,      \* messages of earlier Asks that may still arrive
    running,    \* the stream of the current singleton runs
    counted,    \* how often an order is in _orders of its product
    processed,  \* history: orders that were added to _orders at some time
    faults, handovers, crashes

vars == << broker, handler, request, stale, running, counted, processed,
           faults, handovers, crashes >>

Brokers  == {"new", "ready", "unacked", "gone"}
Handlers == {"none", "buffered", "asking", "acking", "nacking"}
Requests == {"none", "sent", "dropped", "replied"}

Init ==
    /\ broker = [o \in Orders |-> "new"]
    /\ handler = [o \in Orders |-> "none"]
    /\ request = [o \in Orders |-> "none"]
    /\ stale = [o \in Orders |-> 0]
    /\ running = TRUE
    /\ counted = [o \in Orders |-> 0]
    /\ processed = {}
    /\ faults = 0 /\ handovers = 0 /\ crashes = 0

-----------------------------------------------------------------------------
(* The producer and the queue.                                             *)

Publish(o) ==
    /\ broker[o] = "new"
    /\ broker' = [broker EXCEPT ![o] = "ready"]
    /\ UNCHANGED << handler, request, stale, running, counted, processed,
                    faults, handovers, crashes >>

Unacked == {o \in Orders : broker[o] = "unacked"}

\* The source has room for twice as many orders as are processed at a time.
Deliver(o) ==
    /\ running /\ broker[o] = "ready"
    /\ Cardinality(Unacked) < 2 * MaxParallelism
    /\ broker' = [broker EXCEPT ![o] = "unacked"]
    /\ handler' = [handler EXCEPT ![o] = "buffered"]
    /\ UNCHANGED << request, stale, running, counted, processed,
                    faults, handovers, crashes >>

-----------------------------------------------------------------------------
(* The asynchronous stage of the stream.                                   *)

InFlight == {o \in Orders : handler[o] \in {"asking", "acking", "nacking"}}

\* Mutant of HasSlot: one task too many.
HasSlot_OneMore == Cardinality(InFlight) <= MaxParallelism

HasSlot == Cardinality(InFlight) < MaxParallelism

Ask(o) ==
    /\ handler[o] = "buffered" /\ HasSlot
    /\ handler' = [handler EXCEPT ![o] = "asking"]
    /\ request' = [request EXCEPT ![o] = "sent"]
    /\ UNCHANGED << broker, stale, running, counted, processed,
                    faults, handovers, crashes >>

\* Mutant of Answered: the order is acknowledged once it is on its way.
Answered_Early(o) == request[o] \in {"sent", "dropped", "replied"}

\* The Ask has its OrderCommandAck.
Answered(o) == request[o] = "replied"

\* The message of an Ask that is over may still arrive.  One that is not counted for the
\* bound is lost on its way, which can happen to any.
Outdated(o) ==
    stale' = [stale EXCEPT ![o] =
        IF request[o] = "sent" /\ @ < MaxStale THEN @ + 1 ELSE @]

ReceiveReply(o) ==
    /\ handler[o] = "asking" /\ Answered(o)
    /\ handler' = [handler EXCEPT ![o] = "acking"]
    /\ request' = [request EXCEPT ![o] = "none"]
    /\ UNCHANGED << broker, stale, running, counted, processed,
                    faults, handovers, crashes >>

TimeOut(o) ==
    /\ handler[o] = "asking"
    /\ handler' = [handler EXCEPT ![o] = "nacking"]
    /\ request' = [request EXCEPT ![o] = "none"]
    /\ Outdated(o)
    /\ UNCHANGED << broker, running, counted, processed, faults, handovers, crashes >>

Ack(o) ==
    /\ handler[o] = "acking"
    /\ broker' = [broker EXCEPT ![o] = "gone"]
    /\ handler' = [handler EXCEPT ![o] = "none"]
    /\ UNCHANGED << request, stale, running, counted, processed,
                    faults, handovers, crashes >>

\* Ack throws, inside the same try as the Ask.
AckFails(o) ==
    /\ handler[o] = "acking" /\ faults < MaxFaults
    /\ handler' = [handler EXCEPT ![o] = "nacking"]
    /\ faults' = faults + 1
    /\ UNCHANGED << broker, request, stale, running, counted, processed,
                    handovers, crashes >>

\* Mutant of Requeue: the catch block only logs.
Requeue_Forgotten(o) == UNCHANGED broker

Requeue(o) == broker' = [broker EXCEPT ![o] = "ready"]

Nack(o) ==
    /\ handler[o] = "nacking"
    /\ Requeue(o)
    /\ handler' = [handler EXCEPT ![o] = "none"]
    /\ UNCHANGED << request, stale, running, counted, processed,
                    faults, handovers, crashes >>

\* The connection of a stream that ends is closed, and the queue takes back what was
\* not acknowledged.  Messages to products stay on their way.
CloseStream ==
    /\ broker' = [o \in Orders |-> IF broker[o] = "unacked" THEN "ready" ELSE broker[o]]
    /\ handler' = [o \in Orders |-> "none"]
    /\ request' = [o \in Orders |-> "none"]
    /\ stale' = [o \in Orders |->
                    IF request[o] = "sent" /\ stale[o] < MaxStale THEN stale[o] + 1
                    ELSE stale[o]]

\* An exception outside of the try: FromBinary or Nack throws, or the source fails.  The
\* stage has no decider, and the actor no handler for the failure that it is sent.
StreamFails ==
    /\ running /\ faults < MaxFaults
    /\ running' = FALSE /\ faults' = faults + 1
    /\ CloseStream
    /\ UNCHANGED << counted, processed, handovers, crashes >>

\* The node of the singleton leaves or goes down, and PreStart runs on another one.
Handover ==
    /\ handovers < MaxHandovers
    /\ running' = TRUE /\ handovers' = handovers + 1
    /\ CloseStream
    /\ UNCHANGED << counted, processed, faults, crashes >>

-----------------------------------------------------------------------------
(* The products.                                                           *)

\* Mutant of AddOrder: _orders is a list.
AddOrder_List(o) == counted' = [counted EXCEPT ![o] = @ + 1]

\* A HashSet of records: a copy of an order is equal to it.
AddOrder(o) == counted' = [counted EXCEPT ![o] = 1]

AcceptOrder(o) ==
    /\ request[o] = "sent"
    /\ AddOrder(o)
    /\ processed' = processed \union {o}
    /\ request' = [request EXCEPT ![o] = "replied"]
    /\ UNCHANGED << broker, handler, stale, running, faults, handovers, crashes >>

\* "send nothing back. Let the system timeout."
DropOrder(o) ==
    /\ request[o] = "sent"
    /\ request' = [request EXCEPT ![o] = "dropped"]
    /\ UNCHANGED << broker, handler, stale, running, counted, processed,
                    faults, handovers, crashes >>

\* The same handler, for a message whose Ask nobody waits for any more.
AcceptStale(o) ==
    /\ stale[o] > 0
    /\ AddOrder(o)
    /\ processed' = processed \union {o}
    /\ stale' = [stale EXCEPT ![o] = @ - 1]
    /\ UNCHANGED << broker, handler, request, running, faults, handovers, crashes >>

DropStale(o) ==
    /\ stale[o] > 0
    /\ stale' = [stale EXCEPT ![o] = @ - 1]
    /\ UNCHANGED << broker, handler, request, running, counted, processed,
                    faults, handovers, crashes >>

\* The shard of a product moves, or its node goes down.
CrashProduct(p) ==
    /\ crashes < MaxCrashes
    /\ crashes' = crashes + 1
    /\ counted' = [o \in Orders |-> IF ProductOf[o] = p THEN 0 ELSE counted[o]]
    /\ UNCHANGED << broker, handler, request, stale, running, processed,
                    faults, handovers >>

-----------------------------------------------------------------------------
Next ==
    \/ \E o \in Orders :
        \/ Publish(o) \/ Deliver(o) \/ Ask(o) \/ ReceiveReply(o) \/ TimeOut(o)
        \/ Ack(o) \/ AckFails(o) \/ Nack(o)
        \/ AcceptOrder(o) \/ DropOrder(o) \/ AcceptStale(o) \/ DropStale(o)
    \/ StreamFails \/ Handover
    \/ \E p \in Products : CrashProduct(p)

Spec == Init /\ [][Next]_vars

\* The queue delivers and the stream works.  A coin decides whether a product answers,
\* and 3 seconds are enough unless it is overloaded: again and again it answers in time.
FairSpec ==
    /\ Spec
    /\ \A o \in Orders :
        /\ SF_vars(Deliver(o)) /\ SF_vars(Ask(o))
        /\ WF_vars(TimeOut(o)) /\ WF_vars(Ack(o)) /\ WF_vars(Nack(o))
        /\ SF_vars(AcceptOrder(o)) /\ SF_vars(ReceiveReply(o))

-----------------------------------------------------------------------------
(* Properties.                                                             *)

Limits ==
    /\ Cardinality(Unacked) <= 2 * MaxParallelism
    /\ Cardinality(InFlight) <= MaxParallelism

\* Types, bounds of the counters, and the limits of the source and of the stage, which
\* no sequence of failures and handovers gets round.
TypeOK ==
    /\ Limits
    /\ broker \in [Orders -> Brokers]
    /\ handler \in [Orders -> Handlers]
    /\ request \in [Orders -> Requests]
    /\ stale \in [Orders -> 0 .. MaxStale]
    /\ running \in BOOLEAN
    /\ counted \in [Orders -> Nat]
    /\ processed \subseteq Orders
    /\ faults \in 0 .. MaxFaults /\ handovers \in 0 .. MaxHandovers
    /\ crashes \in 0 .. MaxCrashes

\* Exactly the orders that the queue waits for are in the hands of a running stream, and
\* exactly the Asks under way have a message: a failure of one order never leaves
\* its delivery unanswered, which would use up the buffer for good.
UnackedIsInHand ==
    \A o \in Orders :
        /\ broker[o] = "unacked" <=> handler[o] # "none"
        /\ handler[o] # "none" => running
        /\ handler[o] = "asking" <=> request[o] # "none"

\* However often an order was delivered, its product counts it once; and once it has
\* left the queue it is counted, unless a product has lost its memory.
CountedExactlyOnce ==
    \A o \in Orders :
        /\ counted[o] <= 1
        /\ broker[o] = "gone" /\ crashes = 0 => counted[o] = 1

Promise == INSTANCE OrderPromise
    WITH queued  <- {o \in Orders : broker[o] \in {"ready", "unacked"}},
         removed <- {o \in Orders : broker[o] = "gone"}

\* No order is lost: it is processed at least once, and before it leaves the queue.
AtLeastOnce == Promise!Spec

\* "If you turn off the ReliableRabbitMQ.Producer and let the consumer run it will
\* eventually successfully process all previously queued messages and the queue will
\* be empty." (README.md)
QueueDrains ==
    \A o \in Orders : broker[o] = "ready" ~> broker[o] = "gone"

\* What the code keeps of it: an order in the queue is processed and leaves it, whatever
\* is dropped, times out or moves, as long as the stream does not end with an exception.
DrainsWhileItRuns ==
    \A o \in Orders : broker[o] = "ready" ~> broker[o] = "gone" \/ ~running

=============================================================================
