-------------------------- MODULE OrderQueueProofs --------------------------
(***************************************************************************)
(* For every finite set of orders, every degree of parallelism and every   *)
(* number of faults, handovers and crashes: OrderQueue keeps its inductive *)
(* invariant IInv, and implements OrderPromise.                            *)
(***************************************************************************)
EXTENDS OrderQueue, FiniteSetTheorems, TLAPS

\* TypeOK without the limits.
Types ==
    /\ broker \in [Orders -> Brokers]
    /\ handler \in [Orders -> Handlers]
    /\ request \in [Orders -> Requests]
    /\ stale \in [Orders -> 0 .. MaxStale]
    /\ running \in BOOLEAN
    /\ counted \in [Orders -> Nat]
    /\ processed \subseteq Orders
    /\ faults \in 0 .. MaxFaults /\ handovers \in 0 .. MaxHandovers
    /\ crashes \in 0 .. MaxCrashes

\* Who knows that an order was processed, and who has never heard of it.
ProcessedInv ==
    \A o \in Orders :
        /\ handler[o] = "acking" => o \in processed
        /\ request[o] = "replied" => o \in processed
        /\ broker[o] = "gone" => o \in processed
        /\ o \in processed /\ crashes = 0 => counted[o] = 1
        /\ counted[o] <= 1
        /\ broker[o] = "new" => o \notin processed /\ stale[o] = 0

IInv == Types /\ Limits /\ UnackedIsInHand /\ ProcessedInv

-----------------------------------------------------------------------------
(* The initial state.                                                      *)

\* The invariant holds when nothing has been published.
LEMMA InitInvariant == Init => IInv
<1> SUFFICES ASSUME Init PROVE IInv
  OBVIOUS
<1>1. Types
  BY NumbersAssumption DEF Init, Types, Brokers, Handlers, Requests
<1>2. Limits
  <2>1. Unacked = {} /\ InFlight = {}
    BY DEF Init, Unacked, InFlight
  <2>2. QED
    BY <2>1, FS_EmptySet, NumbersAssumption DEF Limits
<1>3. UnackedIsInHand
  BY DEF Init, UnackedIsInHand
<1>4. ProcessedInv
  BY DEF Init, ProcessedInv
<1>5. QED
  BY <1>1, <1>2, <1>3, <1>4 DEF IInv

-----------------------------------------------------------------------------
(* The steps.                                                              *)

\* What a closed stream leaves behind, order by order.
LEMMA Closing ==
    ASSUME Types, CloseStream
    PROVE  /\ broker' \in [Orders -> Brokers] /\ handler' \in [Orders -> Handlers]
           /\ request' \in [Orders -> Requests] /\ stale' \in [Orders -> 0 .. MaxStale]
           /\ \A o \in Orders :
                /\ broker'[o] = IF broker[o] = "unacked" THEN "ready" ELSE broker[o]
                /\ handler'[o] = "none" /\ request'[o] = "none"
                /\ stale'[o] = 0 \/ stale[o] # 0 \/ request[o] = "sent"
<1> USE DEF Types, CloseStream, Brokers, Handlers, Requests
<1>1. broker' \in [Orders -> Brokers]
  OBVIOUS
<1>2. handler' \in [Orders -> Handlers] /\ request' \in [Orders -> Requests]
  OBVIOUS
<1>3. stale' \in [Orders -> 0 .. MaxStale]
  <2>1. ASSUME NEW o \in Orders
        PROVE  (IF request[o] = "sent" /\ stale[o] < MaxStale
                THEN stale[o] + 1 ELSE stale[o]) \in 0 .. MaxStale
    BY NumbersAssumption
  <2>2. QED
    BY <2>1
<1>4. QED
  BY <1>1, <1>2, <1>3


\* Every action keeps the types.
LEMMA TypeStep == Types /\ [Next]_vars => Types'
<1> SUFFICES ASSUME Types, [Next]_vars PROVE Types'
  OBVIOUS
<1> USE DEF Types, Brokers, Handlers, Requests
<1>1. ASSUME NEW o \in Orders, Publish(o) PROVE Types'
  BY <1>1, NumbersAssumption DEF Publish
<1>2. ASSUME NEW o \in Orders, Deliver(o) PROVE Types'
  BY <1>2, NumbersAssumption DEF Deliver
<1>3. ASSUME NEW o \in Orders, Ask(o) PROVE Types'
  BY <1>3, NumbersAssumption DEF Ask, HasSlot
<1>4. ASSUME NEW o \in Orders, ReceiveReply(o) PROVE Types'
  BY <1>4, NumbersAssumption DEF ReceiveReply, Answered
<1>5. ASSUME NEW o \in Orders, TimeOut(o) PROVE Types'
  BY <1>5, NumbersAssumption DEF TimeOut, Outdated
<1>6. ASSUME NEW o \in Orders, Ack(o) PROVE Types'
  BY <1>6, NumbersAssumption DEF Ack
<1>7. ASSUME NEW o \in Orders, AckFails(o) PROVE Types'
  BY <1>7, NumbersAssumption DEF AckFails
<1>8. ASSUME NEW o \in Orders, Nack(o) PROVE Types'
  BY <1>8, NumbersAssumption DEF Nack, Requeue
<1>9. ASSUME NEW o \in Orders, AcceptOrder(o) PROVE Types'
  BY <1>9, NumbersAssumption DEF AcceptOrder, AddOrder
<1>10. ASSUME NEW o \in Orders, DropOrder(o) PROVE Types'
  BY <1>10, NumbersAssumption DEF DropOrder
<1>11. ASSUME NEW o \in Orders, AcceptStale(o) PROVE Types'
  BY <1>11, NumbersAssumption DEF AcceptStale, AddOrder
<1>12. ASSUME NEW o \in Orders, DropStale(o) PROVE Types'
  BY <1>12, NumbersAssumption DEF DropStale
<1>13. CASE StreamFails
  <2>1. CloseStream /\ UNCHANGED << counted, processed, handovers, crashes >>
    BY <1>13 DEF StreamFails
  <2>2. running' = FALSE /\ faults' = faults + 1 /\ faults < MaxFaults
    BY <1>13 DEF StreamFails
  <2>3. faults' \in 0 .. MaxFaults
    BY <2>2, NumbersAssumption
  <2>4. QED
    BY <2>1, <2>2, <2>3, Closing
<1>14. CASE Handover
  BY <1>14, Closing, NumbersAssumption DEF Handover
<1>15. ASSUME NEW p \in Products, CrashProduct(p) PROVE Types'
  BY <1>15, NumbersAssumption DEF CrashProduct
<1>16. CASE UNCHANGED vars
  BY <1>16 DEF vars
<1>17. QED
  BY <1>1, <1>2, <1>3, <1>4, <1>5, <1>6, <1>7, <1>8, <1>9, <1>10, <1>11, <1>12, <1>13, <1>14, <1>15, <1>16 DEF Next

\* Every action changes the hands of the queue, of the stream and of the Asks together.
LEMMA HandStep == IInv /\ [Next]_vars => UnackedIsInHand'
<1> SUFFICES ASSUME IInv, [Next]_vars PROVE UnackedIsInHand'
  OBVIOUS
<1> USE DEF IInv, Types, UnackedIsInHand, Brokers, Handlers, Requests
<1>1. ASSUME NEW o \in Orders, Publish(o) PROVE UnackedIsInHand'
  BY <1>1 DEF Publish
<1>2. ASSUME NEW o \in Orders, Deliver(o) PROVE UnackedIsInHand'
  BY <1>2 DEF Deliver
<1>3. ASSUME NEW o \in Orders, Ask(o) PROVE UnackedIsInHand'
  BY <1>3 DEF Ask, HasSlot
<1>4. ASSUME NEW o \in Orders, ReceiveReply(o) PROVE UnackedIsInHand'
  BY <1>4 DEF ReceiveReply, Answered
<1>5. ASSUME NEW o \in Orders, TimeOut(o) PROVE UnackedIsInHand'
  BY <1>5 DEF TimeOut, Outdated
<1>6. ASSUME NEW o \in Orders, Ack(o) PROVE UnackedIsInHand'
  BY <1>6 DEF Ack
<1>7. ASSUME NEW o \in Orders, AckFails(o) PROVE UnackedIsInHand'
  BY <1>7 DEF AckFails
<1>8. ASSUME NEW o \in Orders, Nack(o) PROVE UnackedIsInHand'
  BY <1>8 DEF Nack, Requeue
<1>9. ASSUME NEW o \in Orders, AcceptOrder(o) PROVE UnackedIsInHand'
  BY <1>9 DEF AcceptOrder, AddOrder
<1>10. ASSUME NEW o \in Orders, DropOrder(o) PROVE UnackedIsInHand'
  BY <1>10 DEF DropOrder
<1>11. ASSUME NEW o \in Orders, AcceptStale(o) PROVE UnackedIsInHand'
  BY <1>11 DEF AcceptStale, AddOrder
<1>12. ASSUME NEW o \in Orders, DropStale(o) PROVE UnackedIsInHand'
  BY <1>12 DEF DropStale
<1>13. CASE StreamFails
  BY <1>13, Closing DEF StreamFails
<1>14. CASE Handover
  BY <1>14, Closing DEF Handover
<1>15. ASSUME NEW p \in Products, CrashProduct(p) PROVE UnackedIsInHand'
  BY <1>15 DEF CrashProduct
<1>16. CASE UNCHANGED vars
  BY <1>16 DEF vars
<1>17. QED
  BY <1>1, <1>2, <1>3, <1>4, <1>5, <1>6, <1>7, <1>8, <1>9, <1>10, <1>11, <1>12, <1>13, <1>14, <1>15, <1>16 DEF Next

\* An order is known as processed only after its product has counted it.
LEMMA ProcessedStep == IInv /\ [Next]_vars => ProcessedInv'
<1> SUFFICES ASSUME IInv, [Next]_vars PROVE ProcessedInv'
  OBVIOUS
<1> USE DEF IInv, Types, UnackedIsInHand, ProcessedInv, Brokers, Handlers, Requests
<1>1. ASSUME NEW o \in Orders, Publish(o) PROVE ProcessedInv'
  BY <1>1, NumbersAssumption DEF Publish
<1>2. ASSUME NEW o \in Orders, Deliver(o) PROVE ProcessedInv'
  BY <1>2, NumbersAssumption DEF Deliver
<1>3. ASSUME NEW o \in Orders, Ask(o) PROVE ProcessedInv'
  BY <1>3, NumbersAssumption DEF Ask, HasSlot
<1>4. ASSUME NEW o \in Orders, ReceiveReply(o) PROVE ProcessedInv'
  BY <1>4, NumbersAssumption DEF ReceiveReply, Answered
<1>5. ASSUME NEW o \in Orders, TimeOut(o) PROVE ProcessedInv'
  BY <1>5, NumbersAssumption DEF TimeOut, Outdated
<1>6. ASSUME NEW o \in Orders, Ack(o) PROVE ProcessedInv'
  BY <1>6, NumbersAssumption DEF Ack
<1>7. ASSUME NEW o \in Orders, AckFails(o) PROVE ProcessedInv'
  BY <1>7, NumbersAssumption DEF AckFails
<1>8. ASSUME NEW o \in Orders, Nack(o) PROVE ProcessedInv'
  BY <1>8, NumbersAssumption DEF Nack, Requeue
<1>9. ASSUME NEW o \in Orders, AcceptOrder(o) PROVE ProcessedInv'
  BY <1>9, NumbersAssumption DEF AcceptOrder, AddOrder
<1>10. ASSUME NEW o \in Orders, DropOrder(o) PROVE ProcessedInv'
  BY <1>10, NumbersAssumption DEF DropOrder
<1>11. ASSUME NEW o \in Orders, AcceptStale(o) PROVE ProcessedInv'
  BY <1>11, NumbersAssumption DEF AcceptStale, AddOrder
<1>12. ASSUME NEW o \in Orders, DropStale(o) PROVE ProcessedInv'
  BY <1>12, NumbersAssumption DEF DropStale
<1>13. CASE StreamFails
  BY <1>13, Closing, NumbersAssumption DEF StreamFails
<1>14. CASE Handover
  BY <1>14, Closing, NumbersAssumption DEF Handover
<1>15. ASSUME NEW p \in Products, CrashProduct(p) PROVE ProcessedInv'
  BY <1>15, NumbersAssumption DEF CrashProduct
<1>16. CASE UNCHANGED vars
  BY <1>16 DEF vars
<1>17. QED
  BY <1>1, <1>2, <1>3, <1>4, <1>5, <1>6, <1>7, <1>8, <1>9, <1>10, <1>11, <1>12, <1>13, <1>14, <1>15, <1>16 DEF Next

\* Only Deliver makes the queue wait for one more order, and only Ask puts one more
\* into flight; both look at the room first.
LEMMA LimitStep == IInv /\ [Next]_vars => Limits'
<1> SUFFICES ASSUME IInv, [Next]_vars PROVE Limits'
  OBVIOUS
<1> USE DEF IInv, Types, UnackedIsInHand
<1>1. /\ IsFiniteSet(Unacked) /\ IsFiniteSet(InFlight)
      /\ Cardinality(Unacked) \in Nat /\ Cardinality(InFlight) \in Nat
  <2>1. Unacked \in SUBSET Orders /\ InFlight \in SUBSET Orders
    BY DEF Unacked, InFlight
  <2>2. QED
    BY <2>1, FS_Subset, FS_CardinalityType, OrdersAssumption
<1>2. ASSUME Unacked' \in SUBSET Unacked, InFlight' \in SUBSET InFlight
      PROVE  Limits'
  <2>1. /\ Cardinality(Unacked') <= Cardinality(Unacked)
        /\ Cardinality(InFlight') <= Cardinality(InFlight)
        /\ Cardinality(Unacked') \in Nat /\ Cardinality(InFlight') \in Nat
    BY <1>1, <1>2, FS_Subset, FS_CardinalityType
  <2>2. QED
    BY <1>1, <2>1, NumbersAssumption DEF Limits
<1>3. ASSUME NEW o \in Orders, Deliver(o) PROVE Limits'
  <2>1. Unacked' = Unacked \cup {o} /\ InFlight' = InFlight
    BY <1>3 DEF Deliver, Unacked, InFlight, Brokers, Handlers
  <2>2. Cardinality(Unacked') <= Cardinality(Unacked) + 1 /\ Cardinality(Unacked') \in Nat
    <3>1. /\ IsFiniteSet(Unacked \cup {o})
          /\ Cardinality(Unacked \cup {o}) =
                IF o \in Unacked THEN Cardinality(Unacked) ELSE Cardinality(Unacked) + 1
      BY <1>1, FS_AddElement
    <3>2. QED
      BY <1>1, <2>1, <3>1
  <2>3. Cardinality(Unacked) < 2 * MaxParallelism
    BY <1>3 DEF Deliver
  <2>4. QED
    BY <1>1, <2>1, <2>2, <2>3, NumbersAssumption DEF Limits
<1>4. ASSUME NEW o \in Orders, Ask(o) PROVE Limits'
  <2>1. InFlight' = InFlight \cup {o} /\ Unacked' = Unacked
    BY <1>4 DEF Ask, Unacked, InFlight, Handlers
  <2>2. Cardinality(InFlight') <= Cardinality(InFlight) + 1 /\ Cardinality(InFlight') \in Nat
    <3>1. /\ IsFiniteSet(InFlight \cup {o})
          /\ Cardinality(InFlight \cup {o}) =
                IF o \in InFlight THEN Cardinality(InFlight) ELSE Cardinality(InFlight) + 1
      BY <1>1, FS_AddElement
    <3>2. QED
      BY <1>1, <2>1, <3>1
  <2>3. Cardinality(InFlight) < MaxParallelism
    BY <1>4 DEF Ask, HasSlot
  <2>4. QED
    BY <1>1, <2>1, <2>2, <2>3, NumbersAssumption DEF Limits
<1>5. ASSUME NEW o \in Orders, Publish(o) \/ Ack(o) \/ Nack(o) PROVE Limits'
  <2>1. Unacked' \in SUBSET Unacked /\ InFlight' \in SUBSET InFlight
    BY <1>5 DEF Publish, Ack, Nack, Requeue, Unacked, InFlight, Brokers, Handlers
  <2>2. QED
    BY <1>2, <2>1
<1>6. ASSUME NEW o \in Orders, ReceiveReply(o) \/ TimeOut(o) \/ AckFails(o) PROVE Limits'
  <2>1. Unacked' \in SUBSET Unacked /\ InFlight' \in SUBSET InFlight
    BY <1>6 DEF ReceiveReply, TimeOut, AckFails, Unacked, InFlight, Handlers
  <2>2. QED
    BY <1>2, <2>1
<1>7. CASE CloseStream
  <2>1. Unacked' \in SUBSET Unacked /\ InFlight' \in SUBSET InFlight
    BY <1>7, Closing DEF Unacked, InFlight
  <2>2. QED
    BY <1>2, <2>1
<1>8. CASE UNCHANGED << broker, handler >>
  BY <1>2, <1>8 DEF Unacked, InFlight
<1>9. CASE StreamFails \/ Handover
  BY <1>7, <1>9 DEF StreamFails, Handover
<1>10. ASSUME NEW o \in Orders,
              AcceptOrder(o) \/ DropOrder(o) \/ AcceptStale(o) \/ DropStale(o)
       PROVE  Limits'
  BY <1>8, <1>10 DEF AcceptOrder, DropOrder, AcceptStale, DropStale
<1>11. ASSUME NEW p \in Products, CrashProduct(p) PROVE Limits'
  BY <1>8, <1>11 DEF CrashProduct
<1>12. CASE UNCHANGED vars
  BY <1>8, <1>12 DEF vars
<1>13. QED
  BY <1>3, <1>4, <1>5, <1>6, <1>9, <1>10, <1>11, <1>12 DEF Next

-----------------------------------------------------------------------------
(* The theorems.                                                           *)

\* The invariant is inductive.
LEMMA Invariance == Spec => []IInv
<1>1. IInv /\ [Next]_vars => IInv'
  BY TypeStep, LimitStep, HandStep, ProcessedStep DEF IInv
<1>2. QED
  BY InitInvariant, <1>1, PTL DEF Spec

\* The counters keep their bounds, and the stream its limits on the orders that it
\* holds and that it processes.
THEOREM TypeCorrect == Spec => []TypeOK
<1>1. IInv => TypeOK
  BY DEF IInv, Types, TypeOK
<1>2. QED
  BY Invariance, <1>1, PTL

\* No failure of one order leaves the queue waiting for somebody who has forgotten it.
THEOREM DeliveriesAreHeld == Spec => []UnackedIsInHand
<1>1. IInv => UnackedIsInHand
  BY DEF IInv
<1>2. QED
  BY Invariance, <1>1, PTL

\* Redelivery and late messages never count an order twice in one memory, and one that
\* has left the queue is counted there.
THEOREM CountedOnce == Spec => []CountedExactlyOnce
<1>1. IInv => CountedExactlyOnce
  BY DEF IInv, ProcessedInv, CountedExactlyOnce
<1>2. QED
  BY Invariance, <1>1, PTL

-----------------------------------------------------------------------------
(* The refinement.                                                         *)

\* Publishing is Publish, an order that a product counts is Process, an Ack is Remove,
\* and everything else changes nothing that was promised.
LEMMA PromiseStep == IInv /\ [Next]_vars => [Promise!Next]_(Promise!vars)
<1> SUFFICES ASSUME IInv, [Next]_vars PROVE [Promise!Next]_(Promise!vars)
  OBVIOUS
<1> USE DEF IInv, Types, Brokers
<1>1. ASSUME UNCHANGED processed,
             \A o \in Orders : /\ broker'[o] = "gone" <=> broker[o] = "gone"
                               /\ broker'[o] \in {"ready", "unacked"}
                                    <=> broker[o] \in {"ready", "unacked"}
      PROVE  UNCHANGED Promise!vars
  BY <1>1 DEF Promise!vars
<1>2. ASSUME NEW o \in Orders, Publish(o) PROVE Promise!Publish(o)
  BY <1>2 DEF Publish, Promise!Publish
<1>3. ASSUME NEW o \in Orders, AcceptOrder(o) \/ AcceptStale(o) PROVE Promise!Process(o)
  <2>1. broker[o] # "new"
    BY <1>3 DEF AcceptOrder, AcceptStale, UnackedIsInHand, ProcessedInv
  <2>2. processed' = processed \cup {o} /\ UNCHANGED broker
    BY <1>3 DEF AcceptOrder, AcceptStale
  <2>3. QED
    BY <2>1, <2>2 DEF Promise!Process
<1>4. ASSUME NEW o \in Orders, Ack(o) PROVE Promise!Remove(o)
  <2>1. broker[o] = "unacked" /\ o \in processed
    BY <1>4 DEF Ack, UnackedIsInHand, ProcessedInv
  <2>2. QED
    BY <1>4, <2>1 DEF Ack, Promise!Remove
<1>5. ASSUME NEW o \in Orders, Deliver(o) PROVE UNCHANGED Promise!vars
  BY <1>1, <1>5 DEF Deliver
<1>6. ASSUME NEW o \in Orders, Nack(o) PROVE UNCHANGED Promise!vars
  <2>1. broker[o] = "unacked"
    BY <1>6 DEF Nack, UnackedIsInHand
  <2>2. QED
    BY <1>1, <1>6, <2>1 DEF Nack, Requeue
<1>7. CASE CloseStream /\ UNCHANGED processed
  BY <1>1, <1>7, Closing
<1>8. CASE StreamFails \/ Handover
  BY <1>7, <1>8 DEF StreamFails, Handover
<1>9. ASSUME UNCHANGED << broker, processed >> PROVE UNCHANGED Promise!vars
  BY <1>1, <1>9
<1>10. ASSUME NEW o \in Orders,
              \/ Ask(o) \/ ReceiveReply(o) \/ TimeOut(o) \/ AckFails(o)
              \/ DropOrder(o) \/ DropStale(o)
       PROVE  UNCHANGED Promise!vars
  BY <1>9, <1>10 DEF Ask, ReceiveReply, TimeOut, AckFails, DropOrder, DropStale
<1>11. ASSUME NEW p \in Products, CrashProduct(p) PROVE UNCHANGED Promise!vars
  BY <1>9, <1>11 DEF CrashProduct
<1>12. CASE UNCHANGED vars
  BY <1>9, <1>12 DEF vars
<1>13. QED
  BY <1>2, <1>3, <1>4, <1>5, <1>6, <1>8, <1>10, <1>11, <1>12 DEF Next, Promise!Next

\* The stream, the queue and the products implement the promise: whatever fails, an
\* order stays queued until it has been processed.
THEOREM QueueKeepsItsPromise == Spec => AtLeastOnce
<1>1. Init => Promise!Init
  <2>1. ASSUME Init PROVE Promise!Init
    BY <2>1 DEF Init, Promise!Init
  <2>2. QED
    BY <2>1
<1>2. QED
  BY <1>1, PromiseStep, Invariance, PTL DEF Spec, AtLeastOnce, Promise!Spec

=============================================================================
