----------------------- MODULE ProductProjectorProofs -----------------------
(***************************************************************************)
(* For every set of products and commands, every number of attempts, every *)
(* interval of the snapshots and every number of failures: the projector   *)
(* skips no event, its offset never goes back, only the event in hand can  *)
(* be counted twice, a failure pays for each count too many, and, where    *)
(* none was, the rows show the products once it has caught up.             *)
(***************************************************************************)
EXTENDS ProductProjector, ProductStateProofs

Creation(n) == tagged[n].event.type = "created"

\* The events of a product begin with its only creation, and the product knows of it.
WriteInv ==
    /\ \A n \in DOMAIN tagged : ~Creation(n) =>
          \E m \in DOMAIN tagged : /\ m < n /\ Creation(m)
                                   /\ tagged[m].product = tagged[n].product
    /\ \A m, n \in DOMAIN tagged :
          Creation(m) /\ Creation(n) /\ tagged[m].product = tagged[n].product => m = n
    /\ \A p \in Products :
          products[p].created <=> \E n \in DOMAIN tagged : /\ Creation(n)
                                                         /\ tagged[n].product = p

\* A row exists when the creation of its product was applied.
RowInv ==
    \A p \in Products :
        rows[p].exists <=> \E n \in DOMAIN tagged :
                              Creation(n) /\ tagged[n].product = p /\ applied[n] > 0

Stored    == offsets \cup snapshots
Positions == Stored \cup saving

\* The stores never lose the last position, and a later position is not a lower offset.
StoreInv ==
    /\ \A r \in Positions : 1 <= r.seqNr /\ r.seqNr <= written /\ r.offset <= Len(tagged)
    /\ \A r, q \in Positions : r.seqNr <= q.seqNr => r.offset <= q.offset
    /\ written > 0 => \E r \in Stored : r.seqNr = written
    /\ snapshots # {} => \E s \in snapshots : \A t \in snapshots : t.seqNr <= s.seqNr

\* Whatever is to be deleted has a snapshot that is not: from a later time, or of the
\* same time if offsets are to be deleted.
PurgeInv ==
    /\ \A d \in purges :
          \E s \in snapshots : /\ d.upTo <= s.seqNr
                               /\ d.store = "snapshots" => d.upTo < s.seqNr
    /\ \A n \in saved : 1 <= n /\ \E s \in snapshots : n <= s.seqNr

\* What the projector knows in each phase.
Working == {"idle", "projecting", "persisting", "persisted"}
ActorInv ==
    /\ status \in {"stopped", "loading"} => seqNr = 0 /\ lastOffset = 0
    /\ status = "replaying" =>
          /\ seqNr <= written
          /\ seqNr = written => lastOffset = Recoverable
          /\ seqNr < written => \E r \in offsets : r.seqNr = written
          /\ \A d \in purges : d.store = "journal" => d.upTo <= seqNr
    /\ status \in Working => seqNr = written
    /\ status \in {"idle", "projecting", "persisting"} => lastOffset = Recoverable
    /\ status = "idle" => cursor = Recoverable
    /\ status \in {"projecting", "persisting"} => cursor = Recoverable + 1
    /\ status = "persisting" /\ Rendered(tagged[cursor].event) => applied[cursor] > 0
    /\ status = "persisted" => cursor = Recoverable /\ written > 0

IInv == /\ TypeOK /\ WriteInv /\ RowInv /\ StoreInv /\ PurgeInv /\ ActorInv
        /\ NothingSkipped /\ OnlyTheLastIsInDoubt

-----------------------------------------------------------------------------
(* The commands.                                                           *)

\* A product is created by the first event of its first command, and no event of a
\* later one creates it again.
LEMMA CreationComesFirst ==
    ASSUME NEW s \in State, NEW cmd \in Command, NEW now \in Times
    PROVE  LET es == ProcessCommand(s, cmd, now) IN
           \A k \in 1 .. Len(es) : es[k].type = "created" <=> IsEmpty(s) /\ k = 1
<1> DEFINE es == ProcessCommand(s, cmd, now)
<1>1. CASE cmd.type = "create" /\ IsEmpty(s)
  <2>1. es = << Created(cmd.price), Changed(cmd.qty, now, "SupplyIncrease") >>
    BY <1>1 DEF ProcessCommand, CreateEvents
  <2>2. /\ Created(cmd.price).type = "created"
        /\ Changed(cmd.qty, now, "SupplyIncrease").type = "changed"
    BY DEF Created, Changed
  <2> HIDE DEF es
  <2>3. QED
    BY <1>1, <2>1, <2>2 DEF es
<1>2. CASE cmd.type = "supply" /\ ~IsEmpty(s)
  <2>1. es = << Changed(cmd.qty, now, "SupplyIncrease") >>
    BY <1>2 DEF ProcessCommand, SupplyEvents
  <2>2. Changed(cmd.qty, now, "SupplyIncrease").type = "changed"
    BY DEF Changed
  <2> HIDE DEF es
  <2>3. QED
    BY <1>2, <2>1, <2>2 DEF es
<1>3. CASE cmd.type = "purchase" /\ ~IsEmpty(s) /\ s.price > 0
  <2> DEFINE left    == s.remaining - cmd.qty
             reason  == IF left <= 0 THEN "NoSupply" ELSE "LowSupply"
             first   == Changed(-cmd.qty, cmd.at, "Fulfillment")
             warning == Warning(reason, cmd.at)
             last    == Sold(cmd, s.price, left <= 0)
             maybe   == IF left <= LowInventoryWarningThreshold
                        THEN << warning >> ELSE << >>
  <2>1. \/ Len(es) = 2 /\ es[1] = first /\ es[2] = last
        \/ Len(es) = 3 /\ es[1] = first /\ es[2] = warning /\ es[3] = last
    <3>1. es = << first >> \o maybe \o << last >>
      BY <1>3 DEF ProcessCommand, PurchaseEvents
    <3>2. maybe = << >> \/ maybe = << warning >>
      OBVIOUS
    <3> HIDE DEF es, first, warning, last, maybe
    <3>3. QED
      BY <3>1, <3>2, Joined
  <2>2. first.type = "changed" /\ warning.type = "warning" /\ last.type = "sold"
    BY DEF Changed, Warning, Sold
  <2> HIDE DEF es, first, warning, last
  <2>3. QED
    BY <1>3, <2>1, <2>2 DEF es
<1>4. CASE es = << >>
  <2> HIDE DEF es
  <2>1. QED
    BY <1>4 DEF es
<1>5. QED
  BY <1>1, <1>2, <1>3, <1>4 DEF ProcessCommand

\* A product that is created stays so.
LEMMA CreatedForGood ==
    ASSUME NEW s \in State, NEW e \in Event, s.created \/ e.type = "created"
    PROVE  ProcessEvent(s, e).created
BY DEF ProcessEvent, Event, CreatedEvent, ChangedEvent, WarningEvent, SoldEvent, State

\* A sequence that is not empty has a first element.
LEMMA NotEmpty ==
    ASSUME NEW S, NEW seq \in Seq(S), seq # << >>
    PROVE  Len(seq) \in Nat /\ 1 <= Len(seq)
OBVIOUS

\* After the events of a command the product is created, if it was, or if they begin with
\* its creation.
LEMMA ExecutedMeansCreated ==
    ASSUME NEW s \in State, NEW es \in Seq(Event), es # << >>, Len(es) <= 3,
           s.created \/ es[1].type = "created"
    PROVE  Unfold(s, es)[Len(es)] \in State /\ Unfold(s, es)[Len(es)].created
<1> DEFINE u == Unfold(s, es)
<1>1. /\ u \in Seq(State) /\ Len(u) = Len(es)
      /\ u[1] = ProcessEvent(s, es[1])
      /\ \A k \in 2 .. Len(es) : u[k] = ProcessEvent(u[k - 1], es[k])
  BY UnfoldSteps
<1> HIDE DEF u
<1>2. Len(es) \in Nat /\ 1 <= Len(es) /\ Len(es) <= 3
  OBVIOUS
<1>3. \A k \in 1 .. Len(es) : es[k] \in Event /\ u[k] \in State
  BY <1>1, <1>2
<1>4. u[1].created
  BY <1>1, <1>2, <1>3, CreatedForGood
<1>5. ASSUME Len(es) >= 2 PROVE u[2].created
  <2>1. u[2] = ProcessEvent(u[1], es[2])
    BY <1>1, <1>2, <1>5
  <2>2. QED
    BY <1>2, <1>3, <1>4, <1>5, <2>1, CreatedForGood
<1>6. ASSUME Len(es) = 3 PROVE u[3].created
  <2>1. u[3] = ProcessEvent(u[2], es[3])
    BY <1>1, <1>2, <1>6
  <2>2. QED
    BY <1>2, <1>3, <1>5, <1>6, <2>1, CreatedForGood
<1>7. u[Len(es)] \in State /\ u[Len(es)].created
  <2>1. CASE Len(es) = 1
    BY <1>3, <1>4, <2>1
  <2>2. CASE Len(es) = 2
    BY <1>3, <1>5, <2>2
  <2>3. CASE Len(es) = 3
    BY <1>3, <1>6, <2>3
  <2>4. \A n \in Nat : 1 <= n /\ n <= 3 => n = 1 \/ n = 2 \/ n = 3
    OBVIOUS
  <2>5. QED
    BY <1>2, <2>1, <2>2, <2>3, <2>4, Zenon
<1>8. QED
  BY <1>7 DEF u

-----------------------------------------------------------------------------
(* The stores.                                                             *)

\* What a recovery finds is the offset of the last position.
RecoversLast ==
    /\ Recoverable \in 0 .. Len(tagged)
    /\ written = 0 => Recoverable = 0
    /\ written > 0 => \E r \in Stored : r.seqNr = written /\ r.offset = Recoverable
    /\ \A r \in Positions : /\ r.offset <= Recoverable
                            /\ r.seqNr = written => r.offset = Recoverable

\* It follows from the types and the stores alone.
LEMMA RecoverableFacts == TypeOK /\ StoreInv => RecoversLast
<1> SUFFICES ASSUME TypeOK, StoreInv PROVE RecoversLast
  OBVIOUS
<1>1. /\ written \in Nat /\ Len(tagged) \in Nat
      /\ \A r \in Positions : r.seqNr \in Nat /\ r.offset \in Nat
      /\ Stored \subseteq Positions
  BY DEF TypeOK, Positions, Stored, Position
<1>2. CASE written = 0
  <2>1. Positions = {}
    BY <1>1, <1>2 DEF StoreInv
  <2>2. Stored = {}
    BY <1>1, <2>1
  <2>3. Recoverable = 0
    BY <2>2 DEF Recoverable, Stored
  <2>4. QED
    BY <1>1, <1>2, <2>1, <2>3 DEF RecoversLast
<1>3. CASE written > 0
  <2>1. PICK last \in Stored : last.seqNr = written
    BY <1>3 DEF StoreInv
  <2>2. \A t \in Stored : t.seqNr <= last.seqNr
    BY <1>1, <2>1 DEF StoreInv
  <2> DEFINE found == Latest(Stored)
  <2>3. found \in Stored /\ \A t \in Stored : t.seqNr <= found.seqNr
    BY <2>1, <2>2 DEF Latest
  <2>4. Recoverable = found.offset
    BY <2>1 DEF Recoverable, Stored
  <2> HIDE DEF found
  <2>5. found.seqNr = written
    BY <1>1, <2>1, <2>3 DEF StoreInv
  <2>6. \A r \in Positions : r.offset <= found.offset
    BY <1>1, <2>3, <2>5 DEF StoreInv
  <2>7. \A r \in Positions : r.seqNr = written => found.offset <= r.offset
    BY <1>1, <2>3, <2>5 DEF StoreInv
  <2>8. found.offset \in 0 .. Len(tagged)
    BY <1>1, <2>3 DEF StoreInv
  <2>9. QED
    BY <1>1, <1>3, <2>3, <2>4, <2>5, <2>6, <2>7, <2>8 DEF RecoversLast
<1>4. QED
  BY <1>1, <1>2, <1>3

\* The same of the next state.
LEMMA RecoverableNext == TypeOK' /\ StoreInv' => RecoversLast'
BY RecoverableFacts, PTL

\* Stores that hold nothing new, and still hold the last position, are recovered alike.
LEMMA SameRecoverable ==
    ASSUME TypeOK, StoreInv, TypeOK', StoreInv', written' = written, Stored' \subseteq Positions
    PROVE  Recoverable' = Recoverable
<1>0. written \in Nat
  BY DEF TypeOK
<1>1. CASE written = 0
  BY <1>1, RecoverableFacts, RecoverableNext DEF RecoversLast
<1>2. CASE written > 0
  <2>1. PICK r \in Stored' : r.seqNr = written /\ r.offset = Recoverable'
    BY <1>2, RecoverableNext DEF RecoversLast
  <2>2. QED
    BY <2>1, RecoverableFacts DEF RecoversLast
<1>3. QED
  BY <1>0, <1>1, <1>2

-----------------------------------------------------------------------------
\* Nothing is there at the beginning.
LEMMA InitInvariant == Init => IInv
<1> SUFFICES ASSUME Init PROVE IInv
  OBVIOUS
<1>1. TypeOK
  <2>1. EmptyState \in State /\ NoRow \in Listing
    BY DEF State, EmptyState, NoRow, Listing
  <2>2. << >> \in Seq([product : Products, event : Event]) /\ << >> \in Seq(Nat)
    OBVIOUS
  <2>3. QED
    BY <2>1, <2>2 DEF Init, TypeOK
<1>2. WriteInv /\ StoreInv /\ PurgeInv
  <2>1. \A p \in Products : ~products[p].created
    BY DEF Init, EmptyState
  <2>2. WriteInv
    BY <2>1 DEF Init, WriteInv
  <2>3. QED
    BY <2>2 DEF Init, StoreInv, PurgeInv, Positions, Stored
<1>3. RowInv
  BY DEF Init, RowInv, NoRow
<1>4. Recoverable = 0
  BY DEF Init, Recoverable
<1>5. ActorInv
  BY DEF Init, ActorInv, Working
<1>6. NothingSkipped /\ OnlyTheLastIsInDoubt
  BY <1>4 DEF Init, NothingSkipped, OnlyTheLastIsInDoubt
<1>7. QED
  BY <1>1, <1>2, <1>3, <1>5, <1>6 DEF IInv

-----------------------------------------------------------------------------
(* The write side.                                                         *)

\* What a command does to the events and to its product.
LEMMA PublishEffect ==
    ASSUME IInv, NEW c \in Commands, Publish(c)
    PROVE  \E es \in Seq(Event) :
              /\ Len(es) \in Nat /\ 1 <= Len(es)
              /\ tagged' = tagged \o [k \in 1 .. Len(es) |->
                                        [product |-> c.product, event |-> es[k]]]
              /\ applied' = applied \o [k \in 1 .. Len(es) |-> 0]
              /\ \A k \in 1 .. Len(es) :
                    es[k].type = "created" <=> ~products[c.product].created /\ k = 1
              /\ products' \in [Products -> State] /\ products'[c.product].created
              /\ \A p \in Products : p # c.product => products'[p] = products[p]
              /\ executed' \subseteq Commands
              /\ c.product \in Products
              /\ UNCHANGED << rows, stores, actor, source, failures >>
              /\ c.command \in Command /\ Len(es) <= 3
              /\ \E now \in Times :
                   es = ProcessCommand(products[c.product], c.command, now)
              /\ products'[c.product] = Unfold(products[c.product], es)[Len(es)]
<1>1. c.product \in Products /\ c.command \in Command
  BY ProductCommandsAssumption
<1>2. PICK now \in Times :
        LET es == ProcessCommand(products[c.product], c.command, now) IN
        /\ es # << >>
        /\ executed' = executed \cup {c}
        /\ tagged' = tagged \o [k \in 1 .. Len(es) |->
                                  [product |-> c.product, event |-> es[k]]]
        /\ products' = [products EXCEPT ![c.product] = Unfold(@, es)[Len(es)]]
        /\ applied' = applied \o [k \in 1 .. Len(es) |-> 0]
        /\ UNCHANGED << rows, stores, actor, source, failures >>
  BY DEF Publish
<1> DEFINE s  == products[c.product]
           es == ProcessCommand(s, c.command, now)
<1>3. s \in State
  BY <1>1 DEF IInv, TypeOK
<1>4. es \in Seq(Event) /\ Len(es) <= 3 /\ es # << >>
  BY <1>1, <1>2, <1>3, ProcessCommandType
<1>5. \A k \in 1 .. Len(es) : es[k].type = "created" <=> ~s.created /\ k = 1
  BY <1>1, <1>3, CreationComesFirst DEF IsEmpty
<1> HIDE DEF es
<1>6. Len(es) \in Nat /\ 1 <= Len(es)
  BY <1>4, NotEmpty
<1>7. s.created \/ es[1].type = "created"
  BY <1>5, <1>6
<1>8. Unfold(s, es)[Len(es)] \in State /\ Unfold(s, es)[Len(es)].created
  BY <1>3, <1>4, <1>7, ExecutedMeansCreated
<1>9. products' = [products EXCEPT ![c.product] = Unfold(s, es)[Len(es)]]
  BY <1>2 DEF es
<1>10. /\ products' \in [Products -> State] /\ products'[c.product].created
       /\ \A p \in Products : p # c.product => products'[p] = products[p]
       /\ products'[c.product] = Unfold(s, es)[Len(es)]
  <2> DEFINE new == Unfold(s, es)[Len(es)]
  <2>1. new \in State /\ new.created
    BY <1>8
  <2>2. products' = [products EXCEPT ![c.product] = new]
    BY <1>9
  <2> HIDE DEF new
  <2>3. products \in [Products -> State]
    BY DEF IInv, TypeOK
  <2>4. products' \in [Products -> State] /\ products'[c.product] = new
    BY <1>1, <2>1, <2>2, <2>3
  <2>5. \A p \in Products : p # c.product => products'[p] = products[p]
    BY <2>2, <2>3
  <2>6. QED
    BY <2>1, <2>4, <2>5 DEF new
<1>11. executed' \subseteq Commands
  BY <1>2 DEF IInv, TypeOK
<1>12. /\ tagged' = tagged \o [k \in 1 .. Len(es) |->
                                  [product |-> c.product, event |-> es[k]]]
       /\ applied' = applied \o [k \in 1 .. Len(es) |-> 0]
       /\ UNCHANGED << rows, stores, actor, source, failures >>
  BY <1>2 DEF es
<1> es \in Seq(Event)
  BY <1>4
<1>13. \E time \in Times : es = ProcessCommand(products[c.product], c.command, time)
  BY DEF es
<1> WITNESS es \in Seq(Event)
<1>14. QED
  BY <1>1, <1>4, <1>5, <1>6, <1>10, <1>11, <1>12, <1>13

\* What a command adds to the events, by their positions.
Grown(c, es) ==
    LET old == Len(tagged)  m == Len(es) IN
    /\ old \in Nat /\ m \in Nat /\ 1 <= m /\ m <= 3 /\ es \in Seq(Event)
    /\ \A k \in 1 .. m : es[k] \in Event
    /\ tagged' \in Seq([product : Products, event : Event]) /\ Len(tagged') = old + m
    /\ \A n \in 1 .. old : tagged'[n] = tagged[n]
    /\ \A k \in 1 .. m : /\ tagged'[old + k].product = c.product
                         /\ tagged'[old + k].event = es[k]
    /\ applied' \in Seq(Nat) /\ Len(applied') = old + m /\ Len(applied) = old
    /\ \A n \in 1 .. old : applied'[n] = applied[n]
    /\ \A k \in 1 .. m : applied'[old + k] = 0
    /\ \A k \in 1 .. m : es[k].type = "created" <=> ~products[c.product].created /\ k = 1
    /\ c.product \in Products /\ c.command \in Command
    /\ \E now \in Times : es = ProcessCommand(products[c.product], c.command, now)
    /\ products' \in [Products -> State] /\ products'[c.product].created
    /\ products'[c.product] = Unfold(products[c.product], es)[m]
    /\ \A p \in Products : p # c.product => products'[p] = products[p]
    /\ executed' \subseteq Commands
    /\ UNCHANGED << rows, stores, actor, source, failures >>

\* The events of a command follow those that are there.
LEMMA PublishGrows ==
    ASSUME IInv, NEW c \in Commands, Publish(c)
    PROVE  \E es \in Seq(Event) : Grown(c, es)
<1> USE DEF IInv
<1>1. PICK es \in Seq(Event) :
              /\ Len(es) \in Nat /\ 1 <= Len(es)
              /\ tagged' = tagged \o [k \in 1 .. Len(es) |->
                                        [product |-> c.product, event |-> es[k]]]
              /\ applied' = applied \o [k \in 1 .. Len(es) |-> 0]
              /\ \A k \in 1 .. Len(es) :
                    es[k].type = "created" <=> ~products[c.product].created /\ k = 1
              /\ products' \in [Products -> State] /\ products'[c.product].created
              /\ \A p \in Products : p # c.product => products'[p] = products[p]
              /\ executed' \subseteq Commands
              /\ c.product \in Products
              /\ UNCHANGED << rows, stores, actor, source, failures >>
              /\ c.command \in Command /\ Len(es) <= 3
              /\ \E now \in Times :
                   es = ProcessCommand(products[c.product], c.command, now)
              /\ products'[c.product] = Unfold(products[c.product], es)[Len(es)]
  BY PublishEffect
<1> DEFINE Tagged == [product : Products, event : Event]
           old == Len(tagged)
           m == Len(es)
           pair(k) == [product |-> c.product, event |-> es[k]]
<1>2. /\ tagged \in Seq(Tagged) /\ old \in Nat /\ DOMAIN tagged = 1 .. old
      /\ applied \in Seq(Nat) /\ Len(applied) = old
  BY DEF TypeOK
<1>3. m \in Nat /\ 1 <= m /\ \A k \in 1 .. m : es[k] \in Event /\ pair(k) \in Tagged
  BY <1>1
<1>4. /\ tagged' \in Seq(Tagged) /\ Len(tagged') = old + m
      /\ \A n \in 1 .. old : tagged'[n] = tagged[n]
      /\ \A k \in 1 .. m : tagged'[old + k] = pair(k)
  <2> DEFINE more == [k \in 1 .. m |-> pair(k)]
  <2>1. tagged' = tagged \o more
    BY <1>1
  <2> HIDE DEF Tagged, m, pair
  <2>2. more \in Seq(Tagged) /\ Len(more) = m /\ \A k \in 1 .. m : more[k] = pair(k)
    BY <1>3
  <2> HIDE DEF more, old
  <2>3. /\ tagged \o more \in Seq(Tagged) /\ Len(tagged \o more) = Len(tagged) + m
        /\ \A i \in 1 .. Len(tagged) : (tagged \o more)[i] = tagged[i]
        /\ \A k \in 1 .. m : (tagged \o more)[Len(tagged) + k] = more[k]
    <3>1. tagged \in Seq(Tagged) /\ more \in Seq(Tagged) /\ Len(more) = m
      BY <1>2, <2>2
    <3>2. QED
      BY <3>1
  <2>4. QED
    BY <2>1, <2>2, <2>3 DEF old
<1>5. /\ applied' \in Seq(Nat) /\ Len(applied') = old + m
      /\ \A n \in 1 .. old : applied'[n] = applied[n]
      /\ \A k \in 1 .. m : applied'[old + k] = 0
  <2> DEFINE more   == [k \in 1 .. m |-> 0]
             Counts == Nat
  <2>1. applied' = applied \o more
    BY <1>1
  <2> HIDE DEF m
  <2>2. more \in Seq(Nat) /\ Len(more) = m /\ \A k \in 1 .. m : more[k] = 0
    BY <1>3
  <2> HIDE DEF more
  <2>3. /\ applied \o more \in Seq(Nat) /\ Len(applied \o more) = Len(applied) + m
        /\ \A i \in 1 .. Len(applied) : (applied \o more)[i] = applied[i]
        /\ \A k \in 1 .. m : (applied \o more)[Len(applied) + k] = more[k]
    <3>1. applied \in Seq(Counts) /\ more \in Seq(Counts) /\ Len(more) = m
      BY <1>2, <2>2
    <3> HIDE DEF Counts
    <3>2. /\ applied \o more \in Seq(Counts) /\ Len(applied \o more) = Len(applied) + m
          /\ \A i \in 1 .. Len(applied) : (applied \o more)[i] = applied[i]
          /\ \A k \in 1 .. m : (applied \o more)[Len(applied) + k] = more[k]
      BY <3>1
    <3>3. QED
      BY <3>2 DEF Counts
  <2> HIDE DEF old
  <2>4. QED
    BY <1>2, <2>1, <2>2, <2>3
<1> DEFINE p0 == c.product
<1>6. \A k \in 1 .. m : /\ tagged'[old + k].product = p0
                        /\ tagged'[old + k].event = es[k]
  <2> SUFFICES ASSUME NEW k \in 1 .. m
               PROVE  tagged'[old + k].product = p0 /\ tagged'[old + k].event = es[k]
    OBVIOUS
  <2>1. pair(k).product = p0 /\ pair(k).event = es[k]
    OBVIOUS
  <2> HIDE DEF old, m, p0, pair
  <2>2. tagged'[old + k] = pair(k)
    BY <1>4
  <2>3. QED
    BY <2>1, <2>2, Zenon
<1>7. Grown(c, es)
  <2>1. Len(es) <= 3 /\ \E now \in Times : es = ProcessCommand(products[c.product], c.command, now)
    BY <1>1
  <2>2. \A k \in 1 .. m : es[k] \in Event
    BY <1>3
  <2> HIDE DEF pair
  <2>3. QED
    BY <1>1, <1>2, <1>4, <1>5, <1>6, <2>1, <2>2 DEF Grown
<1>8. QED
  BY <1>7

\* A command leaves the positions of the events alone, and its own are not applied yet.
LEMMA PublishStep ==
    ASSUME IInv, NEW c \in Commands, Publish(c)
    PROVE  IInv'
<1> USE DEF IInv
<1>1. PICK es \in Seq(Event) : Grown(c, es)
  BY PublishGrows
<1> DEFINE Tagged == [product : Products, event : Event]
           old == Len(tagged)
           m == Len(es)
           p0 == c.product
<1>2. /\ tagged \in Seq(Tagged) /\ old \in Nat /\ DOMAIN tagged = 1 .. old
      /\ applied \in Seq(Nat) /\ Len(applied) = old
  BY DEF TypeOK
<1>3. m \in Nat /\ 1 <= m /\ \A k \in 1 .. m : es[k] \in Event
  BY <1>1 DEF Grown
<1>4. /\ tagged' \in Seq(Tagged) /\ Len(tagged') = old + m
      /\ \A n \in 1 .. old : tagged'[n] = tagged[n]
  BY <1>1 DEF Grown
<1>5. /\ applied' \in Seq(Nat) /\ Len(applied') = old + m
      /\ \A n \in 1 .. old : applied'[n] = applied[n]
      /\ \A k \in 1 .. m : applied'[old + k] = 0
  BY <1>1 DEF Grown
<1>6. \A k \in 1 .. m : /\ tagged'[old + k].product = p0
                        /\ tagged'[old + k].event = es[k]
  BY <1>1 DEF Grown
<1>7. \A n \in DOMAIN tagged' : n \in 1 .. old \/ \E k \in 1 .. m : n = old + k
  <2> HIDE DEF Tagged, old, m
  <2>1. DOMAIN tagged' = 1 .. old + m
    BY <1>4
  <2>2. \A n \in 1 .. old + m : n \in 1 .. old \/ (n - old \in 1 .. m /\ n = old + (n - old))
    BY <1>2, <1>3
  <2>3. QED
    BY <2>1, <2>2
<1>8. \A n \in 1 .. old : n \in DOMAIN tagged'
  BY <1>2, <1>3, <1>4
<1>9. \A k \in 1 .. m : old + k \in DOMAIN tagged' /\ old + k > old
  BY <1>2, <1>3, <1>4
<1>10. \A k \in 1 .. m : es[k].type = "created" <=> ~products[p0].created /\ k = 1
  BY <1>1 DEF Grown
<1>11. /\ products' \in [Products -> State] /\ products'[p0].created /\ p0 \in Products
       /\ \A p \in Products : p # p0 => products'[p] = products[p]
       /\ executed' \subseteq Commands
       /\ UNCHANGED << rows, stores, actor, source, failures >>
  BY <1>1 DEF Grown
<1> HIDE DEF Tagged, old, m, p0
<1>12. \A n \in 1 .. old : Creation(n)' <=> Creation(n)
  BY <1>4 DEF Creation
<1>13. \A k \in 1 .. m : tagged'[old + k].event.type = "created"
                            <=> ~products[p0].created /\ k = 1
  BY <1>6, <1>10
<1>14. TypeOK'
  <2>1. cursor' \in 0 .. Len(tagged')
    BY <1>2, <1>3, <1>4, <1>11 DEF TypeOK, source, old
  <2>2. QED
    BY <1>4, <1>5, <1>11, <2>1 DEF TypeOK, Tagged, stores, actor, source
<1>15. WriteInv'
  <2>1. ASSUME NEW n \in DOMAIN tagged', ~(tagged'[n].event.type = "created")
        PROVE  \E i \in DOMAIN tagged' : /\ i < n /\ tagged'[i].event.type = "created"
                                         /\ tagged'[i].product = tagged'[n].product
    <3>1. CASE n \in 1 .. old
      <4>1. PICK i \in 1 .. old : /\ i < n /\ Creation(i)
                                  /\ tagged[i].product = tagged[n].product
        BY <1>2, <1>4, <2>1, <3>1 DEF WriteInv, Creation
      <4>2. QED
        BY <1>4, <1>8, <3>1, <4>1 DEF Creation
    <3>2. ASSUME NEW k \in 1 .. m, n = old + k
          PROVE  \E i \in DOMAIN tagged' : /\ i < n /\ tagged'[i].event.type = "created"
                                           /\ tagged'[i].product = tagged'[n].product
      <4>1. CASE products[p0].created
        <5>1. PICK i \in 1 .. old : Creation(i) /\ tagged[i].product = p0
          BY <1>2, <1>11, <4>1 DEF WriteInv
        <5>2. i < n /\ i \in DOMAIN tagged'
          BY <1>2, <1>3, <1>8, <3>2
        <5>3. QED
          BY <1>4, <1>6, <3>2, <5>1, <5>2 DEF Creation
      <4>2. CASE ~products[p0].created
        <5>1. k # 1 /\ 1 \in 1 .. m
          BY <1>3, <1>13, <2>1, <3>2, <4>2
        <5>2. tagged'[old + 1].event.type = "created" /\ tagged'[old + 1].product = p0
          BY <1>6, <1>13, <4>2, <5>1
        <5>3. old + 1 < n /\ old + 1 \in DOMAIN tagged'
          BY <1>2, <1>3, <1>9, <3>2, <5>1
        <5>4. QED
          BY <1>6, <3>2, <5>2, <5>3
      <4>3. QED
        BY <4>1, <4>2
    <3>3. QED
      BY <1>7, <3>1, <3>2
  <2>2. ASSUME NEW i \in DOMAIN tagged', NEW n \in DOMAIN tagged',
               tagged'[i].event.type = "created", tagged'[n].event.type = "created",
               tagged'[i].product = tagged'[n].product
        PROVE  i = n
    <3>1. ASSUME NEW j \in 1 .. old, NEW k \in 1 .. m,
                 tagged'[j].event.type = "created", tagged'[old + k].event.type = "created",
                 tagged'[j].product = tagged'[old + k].product
          PROVE  FALSE
      <4>1. ~products[p0].created
        BY <1>13, <3>1
      <4>2. Creation(j) /\ tagged[j].product = p0
        BY <1>4, <1>6, <3>1 DEF Creation
      <4>3. QED
        BY <1>2, <1>11, <4>1, <4>2 DEF WriteInv
    <3>2. CASE i \in 1 .. old /\ n \in 1 .. old
      BY <1>2, <1>4, <2>2, <3>2 DEF WriteInv, Creation
    <3>3. ASSUME NEW j \in 1 .. m, NEW k \in 1 .. m, i = old + j, n = old + k
          PROVE  i = n
      BY <1>13, <2>2, <3>3
    <3>4. QED
      BY <1>7, <2>2, <3>1, <3>2, <3>3
  <2>3. ASSUME NEW p \in Products
        PROVE  products'[p].created <=>
                  \E n \in DOMAIN tagged' : /\ tagged'[n].event.type = "created"
                                            /\ tagged'[n].product = p
    <3>1. CASE products[p].created
      <4>1. PICK n \in 1 .. old : Creation(n) /\ tagged[n].product = p
        BY <1>2, <3>1 DEF WriteInv
      <4>2. products'[p].created
        BY <1>11, <3>1
      <4>3. QED
        BY <1>4, <1>8, <4>1, <4>2 DEF Creation
    <3>2. CASE ~products[p].created /\ p # p0
      <4>1. ~products'[p].created
        BY <1>11, <3>2
      <4>2. ASSUME NEW n \in DOMAIN tagged', tagged'[n].event.type = "created",
                   tagged'[n].product = p
            PROVE  FALSE
        <5>1. n \in 1 .. old
          BY <1>6, <1>7, <3>2, <4>2
        <5>2. QED
          BY <1>2, <1>4, <3>2, <4>2, <5>1 DEF WriteInv, Creation
      <4>3. QED
        BY <4>1, <4>2
    <3>3. CASE ~products[p].created /\ p = p0
      <4>1. products'[p].created
        BY <1>11, <3>3
      <4>2. tagged'[old + 1].event.type = "created" /\ tagged'[old + 1].product = p
            /\ old + 1 \in DOMAIN tagged'
        BY <1>3, <1>6, <1>9, <1>13, <3>3
      <4>3. QED
        BY <4>1, <4>2
    <3>4. QED
      BY <3>1, <3>2, <3>3
  <2>4. QED
    BY <2>1, <2>2, <2>3 DEF WriteInv, Creation
<1>16. RowInv'
  <2> SUFFICES ASSUME NEW p \in Products
               PROVE  rows[p].exists <=>
                         \E n \in DOMAIN tagged' : /\ tagged'[n].event.type = "created"
                                                   /\ tagged'[n].product = p
                                                   /\ applied'[n] > 0
    BY <1>11 DEF RowInv, Creation
  <2>1. ASSUME NEW n \in DOMAIN tagged', applied'[n] > 0 PROVE n \in 1 .. old
    BY <1>5, <1>7, <2>1
  <2>2. ASSUME NEW n \in 1 .. old
        PROVE  /\ tagged'[n] = tagged[n] /\ applied'[n] = applied[n]
               /\ n \in DOMAIN tagged /\ n \in DOMAIN tagged'
    BY <1>2, <1>4, <1>5, <1>8
  <2>3. rows[p].exists <=> \E n \in 1 .. old : /\ tagged[n].event.type = "created"
                                              /\ tagged[n].product = p /\ applied[n] > 0
    BY <1>2 DEF RowInv, Creation
  <2>4. QED
    BY <2>1, <2>2, <2>3
<1>17. UNCHANGED << written, offsets, snapshots, saving, purges >>
  BY <1>11 DEF stores
<1>18. old <= Len(tagged')
  BY <1>2, <1>3, <1>4
<1>19. StoreInv'
  <2>1. ASSUME NEW r \in Positions PROVE r.offset <= Len(tagged')
    <3>1. r.offset \in Nat /\ r.offset <= old
      BY DEF StoreInv, TypeOK, Position, Positions, Stored, old
    <3>2. QED
      BY <1>2, <1>3, <1>4, <1>18, <3>1
  <2>2. QED
    BY <1>17, <2>1 DEF StoreInv, Positions, Stored
<1>20. Recoverable' = Recoverable
  BY <1>17 DEF Recoverable, Latest
<1>21. Recoverable \in 0 .. old
  BY RecoverableFacts DEF RecoversLast, old
<1>22. PurgeInv'
  BY <1>11, <1>17 DEF PurgeInv, actor
<1>23. ActorInv'
  <2>1. UNCHANGED << status, seqNr, lastOffset, cursor >>
    BY <1>11 DEF actor, source
  <2>2. ASSUME status = "persisting", Rendered(tagged'[cursor].event)
        PROVE  applied'[cursor] > 0
    <3>1. cursor \in 1 .. old
      BY <1>2, <1>21, <2>2 DEF ActorInv, TypeOK, old
    <3>2. QED
      BY <1>4, <1>5, <2>2, <3>1 DEF ActorInv
  <2>3. QED
    BY <1>17, <1>20, <2>1, <2>2 DEF ActorInv
<1>24. NothingSkipped'
  <2>1. ASSUME NEW n \in 1 .. Recoverable, Rendered(tagged'[n].event)
        PROVE  applied'[n] > 0
    <3>1. n \in 1 .. old
      BY <1>2, <1>21
    <3>2. QED
      BY <1>4, <1>5, <2>1, <3>1 DEF NothingSkipped
  <2>2. QED
    BY <1>20, <2>1 DEF NothingSkipped
<1>25. OnlyTheLastIsInDoubt'
  <2>1. ASSUME NEW n \in 1 .. Len(tagged'), applied'[n] > 0
        PROVE  n <= Recoverable + 1
    <3>1. n \in 1 .. old
      <4>1. n \in DOMAIN tagged'
        BY <1>4
      <4>2. QED
        BY <1>5, <1>7, <2>1, <4>1
    <3>2. QED
      BY <1>5, <2>1, <3>1 DEF OnlyTheLastIsInDoubt, old
  <2>2. QED
    BY <1>20, <2>1 DEF OnlyTheLastIsInDoubt
<1>26. QED
  BY <1>14, <1>15, <1>16, <1>19, <1>22, <1>23, <1>24, <1>25

-----------------------------------------------------------------------------
(* The projector.                                                          *)

\* A step that moves the projector alone leaves what is stored, shown and recovered.
LEMMA Quiet ==
    ASSUME IInv, UNCHANGED << writeSide, readSide, stores >>, saved' \subseteq saved
    PROVE  /\ WriteInv' /\ RowInv' /\ StoreInv' /\ PurgeInv'
           /\ NothingSkipped' /\ OnlyTheLastIsInDoubt'
           /\ Recoverable' = Recoverable
<1> USE DEF writeSide, readSide, stores
<1>1. Recoverable' = Recoverable
  BY DEF Recoverable, Latest
<1>2. WriteInv' /\ RowInv'
  BY DEF IInv, WriteInv, RowInv, Creation
<1>3. StoreInv'
  BY DEF IInv, StoreInv, Positions, Stored
<1>4. PurgeInv'
  BY DEF IInv, PurgeInv
<1>5. NothingSkipped' /\ OnlyTheLastIsInDoubt'
  BY <1>1 DEF IInv, NothingSkipped, OnlyTheLastIsInDoubt
<1>6. QED
  BY <1>1, <1>2, <1>3, <1>4, <1>5

\* A restart forgets what the projector knew; the stores do not.
LEMMA RestartStep ==
    ASSUME IInv, Start \/ ProjectionFailed \/ StopProjector
    PROVE  IInv'
<1>1. /\ UNCHANGED << writeSide, readSide, stores, attempts >> /\ saved' \subseteq saved
      /\ failures' \in {failures, failures + 1}
      /\ status' \in {"stopped", "loading"} /\ seqNr' = 0 /\ lastOffset' = 0
      /\ stream' \in {"none", stream} /\ cursor' \in {0, cursor}
  BY DEF IInv, ActorInv, Start, ProjectionFailed, StopProjector, Restart, source
<1>2. /\ WriteInv' /\ RowInv' /\ StoreInv' /\ PurgeInv'
      /\ NothingSkipped' /\ OnlyTheLastIsInDoubt'
  BY <1>1, Quiet
<1>3. TypeOK'
  <2>1. failures' \in Nat /\ cursor' \in 0 .. Len(tagged) /\ saved' \subseteq Nat
    BY <1>1 DEF IInv, TypeOK
  <2>2. QED
    BY <1>1, <2>1 DEF IInv, TypeOK, writeSide, readSide, stores
<1>4. ActorInv'
  BY <1>1 DEF ActorInv, Working
<1>5. QED
  BY <1>2, <1>3, <1>4 DEF IInv

\* A recovery begins with the last snapshot; what was purged lies behind it.
LEMMA LoadStep == ASSUME IInv, LoadSnapshot PROVE IInv'
<1>1. /\ UNCHANGED << writeSide, readSide, stores, attempts, saved, source, failures >>
      /\ status = "loading" /\ status' = "replaying"
      /\ seqNr = 0 /\ lastOffset = 0
  BY DEF IInv, ActorInv, LoadSnapshot
<1>2. /\ WriteInv' /\ RowInv' /\ StoreInv' /\ PurgeInv'
      /\ NothingSkipped' /\ OnlyTheLastIsInDoubt' /\ Recoverable' = Recoverable
  BY <1>1, Quiet
<1>3. written \in Nat /\ snapshots \subseteq Position
  BY DEF IInv, TypeOK
<1>4. RecoversLast
  BY RecoverableFacts DEF IInv
<1>5. /\ seqNr' \in Nat /\ lastOffset' \in Nat /\ seqNr' <= written
      /\ seqNr' = written => lastOffset' = Recoverable
      /\ seqNr' < written => \E r \in offsets : r.seqNr = written
      /\ \A d \in purges : d.store = "journal" => d.upTo <= seqNr'
  <2>1. CASE snapshots = {}
    <3>1. seqNr' = 0 /\ lastOffset' = 0
      BY <1>1, <2>1 DEF LoadSnapshot
    <3>2. purges = {}
      BY <2>1 DEF IInv, PurgeInv
    <3>3. written > 0 => \E r \in offsets : r.seqNr = written
      BY <2>1 DEF IInv, StoreInv, Stored
    <3>4. QED
      BY <1>3, <1>4, <3>1, <3>2, <3>3 DEF RecoversLast
  <2>2. CASE snapshots # {}
    <3> DEFINE s == Latest(snapshots)
    <3>1. s \in snapshots /\ \A t \in snapshots : t.seqNr <= s.seqNr
      BY <2>2 DEF IInv, StoreInv, Latest
    <3>2. seqNr' = s.seqNr /\ lastOffset' = s.offset
      BY <2>2 DEF LoadSnapshot
    <3> HIDE DEF s
    <3>3. s \in Position /\ s \in Positions
      BY <1>3, <3>1 DEF Positions, Stored
    <3>4. s.seqNr \in Nat /\ s.offset \in Nat /\ s.seqNr <= written
      BY <3>3 DEF IInv, StoreInv, Position
    <3>5. s.seqNr = written => s.offset = Recoverable
      BY <1>4, <3>3 DEF RecoversLast
    <3>6. ASSUME s.seqNr < written PROVE \E r \in offsets : r.seqNr = written
      <4>1. PICK r \in Stored : r.seqNr = written
        BY <1>3, <3>4, <3>6 DEF IInv, StoreInv
      <4>2. r \notin snapshots
        BY <1>3, <3>1, <3>4, <3>6, <4>1
      <4>3. QED
        BY <4>1, <4>2 DEF Stored
    <3>7. ASSUME NEW d \in purges, d.store = "journal" PROVE d.upTo <= s.seqNr
      <4>1. PICK t \in snapshots : d.upTo <= t.seqNr
        BY DEF IInv, PurgeInv
      <4>2. d.upTo \in Nat /\ t.seqNr \in Nat /\ t.seqNr <= s.seqNr
        BY <1>3, <3>1, <4>1 DEF IInv, TypeOK, Position
      <4>3. QED
        BY <3>4, <4>1, <4>2
    <3>8. QED
      BY <3>2, <3>4, <3>5, <3>6, <3>7
  <2>3. QED
    BY <2>1, <2>2
<1>6. TypeOK'
  BY <1>1, <1>5 DEF IInv, TypeOK, writeSide, readSide, stores, source
<1>7. ActorInv'
  BY <1>1, <1>2, <1>5 DEF ActorInv, Working, stores
<1>8. QED
  BY <1>2, <1>6, <1>7 DEF IInv

\* The offsets after the snapshot complete what the projector knows.
LEMMA ReplayStep == ASSUME IInv, Replay PROVE IInv'
<1> DEFINE after == {o \in offsets : o.seqNr > seqNr}
<1>1. /\ UNCHANGED << writeSide, readSide, stores, attempts, saved, failures >>
      /\ status = "replaying" /\ status' = "idle" /\ stream' = "starting"
      /\ seqNr' = written /\ cursor' = lastOffset'
      /\ lastOffset' = IF after = {} THEN lastOffset ELSE Latest(after).offset
  BY DEF Replay
<1>2. /\ WriteInv' /\ RowInv' /\ StoreInv' /\ PurgeInv'
      /\ NothingSkipped' /\ OnlyTheLastIsInDoubt' /\ Recoverable' = Recoverable
  BY <1>1, Quiet
<1>3. written \in Nat /\ seqNr \in Nat /\ offsets \subseteq Position /\ seqNr <= written
  BY <1>1 DEF IInv, TypeOK, ActorInv
<1>4. RecoversLast
  BY RecoverableFacts DEF IInv
<1>5. \A r \in offsets : r \in Positions /\ r.seqNr \in Nat /\ r.seqNr <= written
  BY <1>3 DEF IInv, StoreInv, Positions, Stored, Position
<1>6. lastOffset' = Recoverable
  <2>1. CASE seqNr = written
    <3>1. after = {}
      BY <1>3, <1>5, <2>1
    <3>2. lastOffset = Recoverable
      BY <1>1, <2>1 DEF IInv, ActorInv
    <3>3. QED
      BY <1>1, <3>1, <3>2
  <2>2. CASE seqNr < written
    <3>1. PICK last \in offsets : last.seqNr = written
      BY <1>1, <2>2 DEF IInv, ActorInv
    <3>2. last \in after /\ \A t \in after : t.seqNr <= last.seqNr
      BY <1>5, <2>2, <3>1
    <3> DEFINE found == Latest(after)
    <3>3. found \in after /\ \A t \in after : t.seqNr <= found.seqNr
      BY <3>2 DEF Latest
    <3>4. lastOffset' = found.offset
      BY <1>1, <3>2
    <3> HIDE DEF found
    <3>5. found \in offsets /\ found.seqNr = written
      BY <1>3, <1>5, <3>1, <3>2, <3>3
    <3>6. QED
      BY <1>4, <1>5, <3>4, <3>5 DEF RecoversLast
  <2>3. QED
    BY <1>3, <2>1, <2>2
<1>7. Recoverable \in 0 .. Len(tagged)
  BY <1>4 DEF RecoversLast
<1>8. TypeOK'
  BY <1>1, <1>3, <1>6, <1>7 DEF IInv, TypeOK, writeSide, readSide, stores
<1>9. ActorInv'
  BY <1>1, <1>2, <1>6 DEF ActorInv, Working, stores
<1>10. QED
  BY <1>2, <1>8, <1>9 DEF IInv

\* The stream sends the event after the last offset.
LEMMA StreamStep == ASSUME IInv, StartProjection \/ ReceiveEnvelope PROVE IInv'
<1>1. /\ UNCHANGED << writeSide, readSide, stores, seqNr, lastOffset, saved, failures >>
      /\ status = "idle" /\ stream' \in {"acked", "sent"}
      /\ attempts' \in {attempts, 0}
      /\ \/ status' = "idle" /\ cursor' = cursor
         \/ status' = "projecting" /\ cursor' = cursor + 1 /\ cursor < Len(tagged)
  BY DEF StartProjection, ReceiveEnvelope, actor, source
<1>2. /\ WriteInv' /\ RowInv' /\ StoreInv' /\ PurgeInv'
      /\ NothingSkipped' /\ OnlyTheLastIsInDoubt' /\ Recoverable' = Recoverable
  BY <1>1, Quiet
<1>3. seqNr = written /\ lastOffset = Recoverable /\ cursor = Recoverable
  BY <1>1 DEF IInv, ActorInv, Working
<1>4. TypeOK'
  <2>1. attempts' \in Nat /\ cursor' \in 0 .. Len(tagged)
    BY <1>1 DEF IInv, TypeOK
  <2>2. QED
    BY <1>1, <2>1 DEF IInv, TypeOK, writeSide, readSide, stores
<1>5. ActorInv'
  BY <1>1, <1>2, <1>3 DEF ActorInv, Working, stores
<1>6. QED
  BY <1>2, <1>4, <1>5 DEF IInv

-----------------------------------------------------------------------------
(* The projection of an event.                                             *)

\* The row after an event is a row, and exists if it did or if the event creates it.
LEMMA ProjectFacts ==
    ASSUME NEW row \in Listing, NEW e \in Event
    PROVE  /\ Project(row, e) \in Listing
           /\ Project(row, e).exists <=> row.exists \/ e.type = "created"
<1>1. CASE e \in CreatedEvent
  <2>1. Project(row, e) = IF row.exists THEN row ELSE NewListing
    BY <1>1 DEF Project, CreatedEvent
  <2>2. NewListing \in Listing /\ NewListing.exists /\ e.type = "created"
    <3>1. NoRow \in Listing
      BY DEF NoRow, Listing
    <3>2. NewListing \in Listing
      BY <3>1 DEF NewListing, Listing
    <3>3. NewListing.exists
      BY DEF NewListing, NoRow
    <3>4. QED
      BY <1>1, <3>2, <3>3 DEF CreatedEvent
  <2>3. row.exists \in BOOLEAN
    BY DEF Listing
  <2>4. CASE row.exists
    BY <2>1, <2>4
  <2>5. CASE ~row.exists
    BY <2>1, <2>2, <2>5
  <2>6. QED
    BY <2>4, <2>5
<1>2. CASE e \in ChangedEvent
  <2>1. Project(row, e) = IF row.exists THEN [row EXCEPT !.allInventory = @ + e.qty] ELSE row
    BY <1>2 DEF Project, ChangedEvent
  <2>2. e.qty \in Int /\ e.type = "changed"
    BY <1>2 DEF ChangedEvent
  <2>3. QED
    BY <2>1, <2>2 DEF Listing
<1>3. CASE e \in SoldEvent
  <2>1. Project(row, e) = IF row.exists
                          THEN [row EXCEPT !.soldUnits = @ + e.qty,
                                           !.totalRevenue = @ + TotalPrice(e)]
                          ELSE row
    BY <1>3 DEF Project, SoldEvent
  <2>2. e.qty \in Int /\ e.price \in Nat /\ e.type = "sold"
    BY <1>3 DEF SoldEvent
  <2>3. TotalPrice(e) \in Int
    <3>1. \A m \in Int : \A n \in Nat : m * n \in Int
      OBVIOUS
    <3>2. e.qty * e.price \in Int
      BY <2>2, <3>1, Zenon
    <3>3. QED
      BY <3>2 DEF TotalPrice
  <2> DEFINE revenue == TotalPrice(e)
  <2>4. revenue \in Int
    BY <2>3
  <2>5. Project(row, e) = IF row.exists
                          THEN [row EXCEPT !.soldUnits = @ + e.qty,
                                           !.totalRevenue = @ + revenue]
                          ELSE row
    BY <2>1
  <2> HIDE DEF revenue
  <2> DEFINE counted == [row EXCEPT !.soldUnits = @ + e.qty, !.totalRevenue = @ + revenue]
  <2>6. /\ row.soldUnits + e.qty \in Int /\ row.totalRevenue + revenue \in Int
    BY <2>2, <2>4 DEF Listing
  <2>7. counted \in Listing /\ counted.exists = row.exists
    BY <2>6 DEF Listing
  <2>8. Project(row, e) = IF row.exists THEN counted ELSE row
    BY <2>5
  <2> HIDE DEF counted
  <2>9. CASE row.exists
    BY <2>7, <2>8, <2>9
  <2>10. CASE ~row.exists
    BY <2>2, <2>8, <2>10
  <2>11. QED
    BY <2>9, <2>10
<1>4. CASE e \in WarningEvent
  BY <1>4 DEF Project, WarningEvent
<1>5. QED
  BY <1>1, <1>2, <1>3, <1>4 DEF Event

\* A commit of the event at the cursor counts it, unless the row shows it already, and
\* touches no other event.
LEMMA CommitEffect ==
    ASSUME IInv, status = "projecting", Commit, UNCHANGED writeSide
    PROVE  /\ cursor = Recoverable + 1 /\ cursor \in 1 .. Len(tagged)
           /\ rows' \in [Products -> Listing]
           /\ applied' \in Seq(Nat) /\ Len(applied') = Len(tagged)
           /\ \A n \in 1 .. Len(tagged) : n # cursor => applied'[n] = applied[n]
           /\ Rendered(tagged[cursor].event) => applied'[cursor] > 0
           /\ RowInv'
           /\ \/ applied' = applied /\ rows' = rows
              \/ /\ applied'[cursor] = applied[cursor] + 1
                 /\ rows' = [rows EXCEPT ![tagged[cursor].product] =
                                           Project(@, tagged[cursor].event)]
<1> USE DEF IInv
<1> DEFINE p0 == tagged[cursor].product
           e0 == tagged[cursor].event
           Tagged == [product : Products, event : Event]
<1>1. /\ cursor = Recoverable + 1 /\ cursor \in 1 .. Len(tagged)
      /\ Len(tagged) \in Nat /\ Recoverable \in Nat
  BY RecoverableFacts DEF ActorInv, Working, TypeOK, RecoversLast
<1>2. /\ tagged \in Seq(Tagged) /\ DOMAIN tagged = 1 .. Len(tagged)
      /\ applied \in Seq(Nat) /\ Len(applied) = Len(tagged)
      /\ rows \in [Products -> Listing]
  BY DEF TypeOK
<1>3. p0 \in Products /\ e0 \in Event
  <2> HIDE DEF Tagged
  <2>1. tagged[cursor] \in Tagged
    BY <1>1, <1>2
  <2>2. QED
    BY <2>1 DEF Tagged
<1>4. /\ rows' = [rows EXCEPT ![p0] = Project(@, e0)]
      /\ applied' = IF Rendered(e0) /\ Saves(rows[p0], e0)
                    THEN [applied EXCEPT ![cursor] = @ + 1] ELSE applied
  BY DEF Commit
<1>5. UNCHANGED tagged
  BY DEF writeSide
<1> HIDE DEF p0, e0, Tagged
<1>6. /\ rows' \in [Products -> Listing]
      /\ rows'[p0].exists <=> rows[p0].exists \/ e0.type = "created"
      /\ \A p \in Products : p # p0 => rows'[p] = rows[p]
  <2>1. rows[p0] \in Listing
    BY <1>2, <1>3
  <2> DEFINE new == Project(rows[p0], e0)
  <2>2. new \in Listing /\ (new.exists <=> rows[p0].exists \/ e0.type = "created")
    BY <1>3, <2>1, ProjectFacts
  <2>3. rows' = [rows EXCEPT ![p0] = new]
    BY <1>4
  <2> HIDE DEF new
  <2>4. QED
    BY <1>2, <1>3, <2>2, <2>3
<1>7. /\ applied' \in Seq(Nat) /\ Len(applied') = Len(tagged)
      /\ \A n \in 1 .. Len(tagged) : n # cursor => applied'[n] = applied[n]
      /\ applied'[cursor] >= applied[cursor] /\ applied[cursor] \in Nat
      /\ Rendered(e0) /\ Saves(rows[p0], e0) => applied'[cursor] > 0
      /\ \/ ~(Rendered(e0) /\ Saves(rows[p0], e0)) /\ applied' = applied
         \/ applied'[cursor] = applied[cursor] + 1
  <2>1. applied[cursor] \in Nat
    BY <1>1, <1>2
  <2>2. CASE Rendered(e0) /\ Saves(rows[p0], e0)
    <3>1. applied' = [applied EXCEPT ![cursor] = applied[cursor] + 1]
      BY <1>4, <2>2
    <3>2. applied \in [1 .. Len(tagged) -> Nat]
      BY <1>2
    <3>3. applied' \in Seq(Nat) /\ Len(applied') = Len(tagged)
      BY <1>1, <1>2, <2>1, <3>1
    <3>4. /\ applied'[cursor] = applied[cursor] + 1
          /\ \A n \in 1 .. Len(tagged) : n # cursor => applied'[n] = applied[n]
      BY <1>1, <3>1, <3>2
    <3>5. QED
      BY <2>1, <2>2, <3>3, <3>4
  <2>3. CASE ~(Rendered(e0) /\ Saves(rows[p0], e0))
    <3>1. applied' = applied
      BY <1>4, <2>3
    <3>2. QED
      BY <1>2, <2>1, <2>3, <3>1
  <2>4. QED
    BY <2>2, <2>3
<1>8. Creation(cursor) <=> e0.type = "created"
  BY DEF Creation, e0
<1>9. ASSUME Rendered(e0) PROVE applied'[cursor] > 0
  <2>1. CASE e0.type = "created" /\ rows[p0].exists
    <3>1. PICK n \in DOMAIN tagged : Creation(n) /\ tagged[n].product = p0 /\ applied[n] > 0
      BY <1>3, <2>1 DEF RowInv
    <3>2. cursor \in DOMAIN tagged /\ Creation(cursor)
      BY <1>1, <1>2, <1>8, <2>1
    <3>3. n = cursor
      BY <3>1, <3>2 DEF WriteInv, p0
    <3>4. QED
      BY <1>7, <3>1, <3>3
  <2>2. CASE e0.type = "created" /\ ~rows[p0].exists
    BY <1>7, <1>9, <2>2 DEF Saves
  <2>3. CASE e0.type # "created"
    <3>1. cursor \in DOMAIN tagged /\ ~Creation(cursor)
      BY <1>1, <1>2, <1>8, <2>3
    <3>2. PICK m \in DOMAIN tagged : /\ m < cursor /\ Creation(m)
                                     /\ tagged[m].product = p0
      BY <3>1 DEF WriteInv, p0
    <3>3. m \in 1 .. Recoverable
      BY <1>1, <1>2, <3>2
    <3>4. applied[m] > 0
      BY <3>2, <3>3 DEF NothingSkipped, Rendered, Creation
    <3>5. rows[p0].exists
      BY <1>3, <3>2, <3>4 DEF RowInv
    <3>6. QED
      BY <1>7, <1>9, <2>3, <3>5 DEF Saves
  <2>4. QED
    BY <2>1, <2>2, <2>3
<1>10. RowInv'
  <2> SUFFICES ASSUME NEW p \in Products
               PROVE  rows'[p].exists <=>
                         \E n \in DOMAIN tagged : /\ Creation(n) /\ tagged[n].product = p
                                                  /\ applied'[n] > 0
    BY <1>5 DEF RowInv, Creation
  <2>1. rows[p].exists <=> \E n \in DOMAIN tagged : /\ Creation(n) /\ tagged[n].product = p
                                                    /\ applied[n] > 0
    BY DEF RowInv
  <2>2. \A n \in DOMAIN tagged : n # cursor => applied'[n] = applied[n]
    BY <1>2, <1>7
  <2>3. cursor \in DOMAIN tagged /\ tagged[cursor].product = p0
    BY <1>1, <1>2 DEF p0
  <2>4. CASE p # p0
    BY <1>6, <2>1, <2>2, <2>3, <2>4
  <2>5. CASE p = p0 /\ e0.type = "created"
    <3>1. rows'[p].exists
      BY <1>6, <2>5
    <3>2. Creation(cursor) /\ applied'[cursor] > 0
      BY <1>8, <1>9, <2>5 DEF Rendered
    <3>3. QED
      BY <2>3, <2>5, <3>1, <3>2
  <2>6. CASE p = p0 /\ e0.type # "created"
    <3>1. ~Creation(cursor)
      BY <1>8, <2>6
    <3>2. rows'[p].exists <=> rows[p].exists
      BY <1>6, <2>6
    <3>3. QED
      BY <2>1, <2>2, <3>1, <3>2
  <2>7. QED
    BY <2>4, <2>5, <2>6
<1>11. \/ applied' = applied /\ rows' = rows
       \/ /\ applied'[cursor] = applied[cursor] + 1
          /\ rows' = [rows EXCEPT ![p0] = Project(@, e0)]
  <2>1. CASE ~(Rendered(e0) /\ Saves(rows[p0], e0)) /\ applied' = applied
    <3> DEFINE new == Project(rows[p0], e0)
    <3>1. e0.type \in {"created", "changed", "warning", "sold"}
      BY <1>3 DEF Event, CreatedEvent, ChangedEvent, WarningEvent, SoldEvent
    <3>2. new = rows[p0]
      BY <2>1, <3>1 DEF Project, Rendered, Saves
    <3>3. rows' = [rows EXCEPT ![p0] = new]
      BY <1>4
    <3> HIDE DEF new
    <3>4. rows' = rows
      BY <1>2, <1>3, <3>2, <3>3
    <3>5. QED
      BY <2>1, <3>4
  <2>2. QED
    BY <1>4, <1>7, <2>1
<1>12. QED
  BY <1>1, <1>6, <1>7, <1>9, <1>10, <1>11 DEF e0, p0

\* An attempt, whether it fails before or after the commit, leaves the event in hand the
\* only one in doubt.
LEMMA AttemptStep == ASSUME IInv, TryProcess \/ AttemptFails PROVE IInv'
<1>1. /\ status = "projecting" /\ UNCHANGED << writeSide, stores, saved >>
      /\ attempts' \in {attempts, attempts + 1} /\ failures' \in {failures, failures + 1}
      /\ \/ status' = "persisting" /\ Commit
         \/ status' = "projecting" /\ (Commit \/ UNCHANGED readSide)
         \/ status' = "loading" /\ (Commit \/ UNCHANGED readSide)
      /\ status' \in {"projecting", "persisting"}
            => UNCHANGED << seqNr, lastOffset, stream, cursor >>
      /\ status' = "loading" => seqNr' = 0 /\ lastOffset' = 0 /\ stream' = "none" /\ cursor' = 0
  <2>1. CASE TryProcess
    BY <2>1 DEF TryProcess, source
  <2>2. CASE AttemptFails /\ attempts' < MaxRetryAttempts
    BY <2>2 DEF AttemptFails, TryAgain, source
  <2>3. CASE AttemptFails /\ ~(attempts' < MaxRetryAttempts)
    BY <2>3 DEF AttemptFails, TryAgain, Restart
  <2>4. QED
    BY <2>1, <2>2, <2>3
<1>2. /\ rows' \in [Products -> Listing]
      /\ applied' \in Seq(Nat) /\ Len(applied') = Len(tagged)
      /\ \A n \in 1 .. Len(tagged) : n # cursor => applied'[n] = applied[n]
      /\ status' = "persisting" /\ Rendered(tagged[cursor].event) => applied'[cursor] > 0
      /\ cursor = Recoverable + 1
      /\ RowInv'
  <2>1. CASE Commit
    BY <1>1, <2>1, CommitEffect
  <2>2. CASE UNCHANGED readSide /\ status' # "persisting"
    <3>1. RowInv'
      BY <1>1, <2>2 DEF IInv, RowInv, Creation, writeSide, readSide
    <3>2. QED
      BY <1>1, <2>2, <3>1 DEF IInv, TypeOK, ActorInv, Working, readSide
  <2>3. QED
    BY <1>1, <2>1, <2>2
<1>3. /\ Recoverable' = Recoverable /\ Recoverable \in 0 .. Len(tagged)
      /\ Len(tagged) \in Nat
  <2>1. Recoverable' = Recoverable
    BY <1>1 DEF Recoverable, Latest, stores
  <2>2. QED
    BY <2>1, RecoverableFacts DEF IInv, RecoversLast, TypeOK
<1>4. UNCHANGED tagged
  BY <1>1 DEF writeSide
<1>5. TypeOK'
  <2>1. /\ attempts' \in Nat /\ failures' \in Nat /\ cursor' \in 0 .. Len(tagged)
        /\ seqNr' \in Nat /\ lastOffset' \in Nat
        /\ stream' \in {"none", "starting", "acked", "sent"}
        /\ status' \in {"loading", "projecting", "persisting"}
    BY <1>1 DEF IInv, TypeOK
  <2>2. QED
    BY <1>1, <1>2, <2>1 DEF IInv, TypeOK, writeSide, stores
<1>6. WriteInv'
  BY <1>1 DEF IInv, WriteInv, Creation, writeSide
<1>7. StoreInv' /\ PurgeInv'
  BY <1>1, <1>4 DEF IInv, StoreInv, PurgeInv, Positions, Stored, stores
<1>8. NothingSkipped'
  <2>1. \A n \in 1 .. Recoverable : n \in 1 .. Len(tagged) /\ n # cursor
    BY <1>2, <1>3
  <2>2. QED
    BY <1>2, <1>3, <1>4, <2>1 DEF IInv, NothingSkipped
<1>9. OnlyTheLastIsInDoubt'
  <2>1. ASSUME NEW n \in 1 .. Len(tagged), applied'[n] > 0 PROVE n <= Recoverable + 1
    <3>1. CASE n = cursor
      BY <1>2, <1>3, <3>1
    <3>2. CASE n # cursor
      BY <1>2, <2>1, <3>2 DEF IInv, OnlyTheLastIsInDoubt
    <3>3. QED
      BY <3>1, <3>2
  <2>2. QED
    BY <1>3, <1>4, <2>1 DEF OnlyTheLastIsInDoubt
<1>10. ActorInv'
  <2>1. CASE status' = "loading"
    BY <1>1, <2>1 DEF ActorInv, Working
  <2>2. CASE status' \in {"projecting", "persisting"}
    <3>1. seqNr' = written' /\ lastOffset' = Recoverable' /\ cursor' = Recoverable' + 1
      BY <1>1, <1>2, <1>3, <2>2 DEF IInv, ActorInv, Working, stores
    <3>2. status' = "persisting" /\ Rendered(tagged'[cursor'].event) => applied'[cursor'] > 0
      BY <1>1, <1>2, <1>4, <2>2
    <3>3. QED
      BY <2>2, <3>1, <3>2 DEF ActorInv, Working
  <2>3. QED
    BY <1>1, <2>1, <2>2
<1>11. QED
  BY <1>2, <1>5, <1>6, <1>7, <1>8, <1>9, <1>10 DEF IInv

\* The journal takes the offset of the event in hand, which is in its row by then.
LEMMA WriteStep ==
    ASSUME IInv, WriteOffset
    PROVE  IInv' /\ Recoverable' >= Recoverable /\ Recoverable' = Recoverable + 1
<1> DEFINE new == [seqNr |-> written + 1, offset |-> cursor]
<1>1. /\ status = "persisting" /\ status' = "persisted"
      /\ written' = written + 1 /\ seqNr' = seqNr + 1
      /\ offsets' = offsets \cup {[seqNr |-> seqNr', offset |-> cursor]}
      /\ UNCHANGED << writeSide, readSide, snapshots, saving, purges, lastOffset,
                      attempts, saved, source, failures >>
  BY DEF WriteOffset
<1>2. /\ seqNr = written /\ cursor = Recoverable + 1 /\ cursor \in 0 .. Len(tagged)
      /\ Rendered(tagged[cursor].event) => applied[cursor] > 0
      /\ written \in Nat /\ Len(tagged) \in Nat
  BY <1>1 DEF IInv, ActorInv, Working, TypeOK
<1>3. /\ RecoversLast /\ Recoverable \in Nat
      /\ UNCHANGED << tagged, products, executed, rows, applied, cursor, stream >>
  BY <1>1, RecoverableFacts DEF IInv, RecoversLast, writeSide, readSide, source
<1>4. offsets' = offsets \cup {new}
  BY <1>1, <1>2
<1>5. new.seqNr = written + 1 /\ new.offset = cursor /\ new \in Position
  BY <1>2 DEF Position
<1> HIDE DEF new
<1>6. TypeOK'
  <2>1. seqNr' \in Nat /\ written' \in Nat /\ offsets' \subseteq Position
    BY <1>1, <1>2, <1>4, <1>5 DEF IInv, TypeOK
  <2>2. QED
    BY <1>1, <1>3, <2>1 DEF IInv, TypeOK
<1>7. Positions' = Positions \cup {new} /\ Stored' = Stored \cup {new}
  BY <1>1, <1>4 DEF Positions, Stored
<1>8. StoreInv'
  <2>1. \A r \in Positions : /\ r.seqNr \in Nat /\ r.offset \in Nat /\ 1 <= r.seqNr
                             /\ r.seqNr <= written /\ r.offset <= Recoverable
                             /\ r.offset <= Len(tagged)
    BY <1>3 DEF IInv, StoreInv, TypeOK, Positions, Stored, Position, RecoversLast
  <2>2. \A r \in Positions' : 1 <= r.seqNr /\ r.seqNr <= written' /\ r.offset <= Len(tagged)
    BY <1>1, <1>2, <1>5, <1>7, <2>1
  <2>3. \A r, q \in Positions' : r.seqNr <= q.seqNr => r.offset <= q.offset
    <3>1. \A r, q \in Positions : r.seqNr <= q.seqNr => r.offset <= q.offset
      BY DEF IInv, StoreInv
    <3>2. \A r \in Positions : r.offset <= new.offset /\ ~(new.seqNr <= r.seqNr)
      BY <1>2, <1>3, <1>5, <2>1
    <3>3. new.offset <= new.offset
      BY <1>2, <1>5
    <3>4. QED
      BY <1>7, <3>1, <3>2, <3>3
  <2>4. \E r \in Stored' : r.seqNr = written'
    BY <1>1, <1>5, <1>7
  <2>5. QED
    BY <1>1, <1>3, <2>2, <2>3, <2>4 DEF IInv, StoreInv
<1>9. Recoverable' = cursor
  <2>1. RecoversLast'
    BY <1>6, <1>8, RecoverableNext
  <2>2. new \in Positions' /\ new.seqNr = written'
    BY <1>1, <1>5, <1>7
  <2>3. new.offset = Recoverable'
    BY <2>1, <2>2 DEF RecoversLast
  <2>4. QED
    BY <1>5, <2>3
<1>10. WriteInv' /\ RowInv' /\ PurgeInv'
  BY <1>1, <1>3 DEF IInv, WriteInv, RowInv, PurgeInv, Creation
<1>11. NothingSkipped'
  <2>1. \A n \in 1 .. cursor : n = cursor \/ n \in 1 .. Recoverable
    BY <1>2, <1>3
  <2>2. QED
    BY <1>2, <1>3, <1>9, <2>1 DEF IInv, NothingSkipped
<1>12. OnlyTheLastIsInDoubt'
  BY <1>2, <1>3, <1>9 DEF IInv, OnlyTheLastIsInDoubt
<1>13. ActorInv'
  BY <1>1, <1>2, <1>3, <1>9 DEF ActorInv, Working
<1>14. QED
  BY <1>2, <1>3, <1>6, <1>8, <1>9, <1>10, <1>11, <1>12, <1>13 DEF IInv

\* The event is done with; a snapshot of its offset may be on its way.
LEMMA AcknowledgeStep == ASSUME IInv, Acknowledge PROVE IInv' /\ Recoverable' = Recoverable
<1> DEFINE new == [seqNr |-> seqNr, offset |-> cursor]
<1>1. /\ status = "persisted" /\ status' = "idle" /\ lastOffset' = cursor /\ stream' = "acked"
      /\ saving' \in {saving, saving \cup {new}}
      /\ UNCHANGED << writeSide, readSide, written, offsets, snapshots, purges,
                      seqNr, attempts, saved, cursor, failures >>
  BY DEF Acknowledge
<1>2. /\ seqNr = written /\ written \in Nat /\ written > 0 /\ cursor = Recoverable
      /\ Len(tagged) \in Nat /\ RecoversLast
  BY <1>1, RecoverableFacts DEF IInv, ActorInv, Working, TypeOK
<1>3. UNCHANGED << tagged, products, executed, rows, applied >>
  BY <1>1 DEF writeSide, readSide
<1>4. Recoverable' = Recoverable /\ Recoverable \in 0 .. Len(tagged)
  BY <1>1, <1>2 DEF Recoverable, Latest, RecoversLast
<1>5. new.seqNr = written /\ new.offset = Recoverable /\ new \in Position
  BY <1>2, <1>4 DEF Position
<1> HIDE DEF new
<1>6. TypeOK'
  <2>1. saving' \subseteq Position /\ lastOffset' \in Nat
    BY <1>1, <1>2, <1>4, <1>5 DEF IInv, TypeOK
  <2>2. QED
    BY <1>1, <1>3, <2>1 DEF IInv, TypeOK
<1>7. Positions' \subseteq Positions \cup {new} /\ Stored' = Stored
  BY <1>1 DEF Positions, Stored
<1>8. StoreInv'
  <2>1. \A r \in Positions : /\ r.seqNr \in Nat /\ r.offset \in Nat /\ 1 <= r.seqNr
                             /\ r.seqNr <= written /\ r.offset <= Recoverable
                             /\ r.offset <= Len(tagged)
                             /\ r.seqNr = written => r.offset = Recoverable
    BY <1>2 DEF IInv, StoreInv, TypeOK, Positions, Stored, Position, RecoversLast
  <2>2. \A r \in Positions' : 1 <= r.seqNr /\ r.seqNr <= written /\ r.offset <= Len(tagged)
    BY <1>2, <1>4, <1>5, <1>7, <2>1
  <2>3. \A r, q \in Positions' : r.seqNr <= q.seqNr => r.offset <= q.offset
    <3>1. \A r, q \in Positions : r.seqNr <= q.seqNr => r.offset <= q.offset
      BY DEF IInv, StoreInv
    <3>2. \A r \in Positions : /\ r.offset <= new.offset
                               /\ new.seqNr <= r.seqNr => new.offset <= r.offset
      BY <1>2, <1>4, <1>5, <2>1
    <3>3. new.offset <= new.offset
      BY <1>4, <1>5
    <3>4. QED
      BY <1>7, <3>1, <3>2, <3>3
  <2>4. QED
    BY <1>1, <1>3, <1>7, <2>2, <2>3 DEF IInv, StoreInv
<1>9. WriteInv' /\ RowInv' /\ PurgeInv'
  BY <1>1, <1>3 DEF IInv, WriteInv, RowInv, PurgeInv, Creation
<1>10. NothingSkipped' /\ OnlyTheLastIsInDoubt'
  BY <1>3, <1>4 DEF IInv, NothingSkipped, OnlyTheLastIsInDoubt
<1>11. ActorInv'
  BY <1>1, <1>2, <1>4 DEF ActorInv, Working
<1>12. QED
  BY <1>4, <1>6, <1>8, <1>9, <1>10, <1>11 DEF IInv

-----------------------------------------------------------------------------
(* Snapshots and deletions.                                                *)

\* A step of the stores leaves what was written, shown and projected.
LEMMA StoresOnly ==
    ASSUME IInv, TypeOK', StoreInv', Stored' \subseteq Positions,
           UNCHANGED << writeSide, readSide, written >>
    PROVE  /\ WriteInv' /\ RowInv' /\ NothingSkipped' /\ OnlyTheLastIsInDoubt'
           /\ Recoverable' = Recoverable
<1>1. Recoverable' = Recoverable
  BY SameRecoverable DEF IInv
<1>2. QED
  BY <1>1 DEF IInv, WriteInv, RowInv, NothingSkipped, OnlyTheLastIsInDoubt, Creation,
              writeSide, readSide

\* A stored snapshot becomes the last one, or lies behind it.
LEMMA StoreSnapshotStep ==
    ASSUME IInv, NEW s \in saving, StoreSnapshot(s)
    PROVE  IInv' /\ Recoverable' = Recoverable
<1> USE DEF IInv
<1>1. /\ saving' = saving \ {s} /\ snapshots' = snapshots \cup {s}
      /\ saved' \subseteq saved \cup {s.seqNr}
      /\ UNCHANGED << writeSide, readSide, written, offsets, purges, status, seqNr,
                      lastOffset, attempts, source, failures >>
  BY DEF StoreSnapshot
<1>2. /\ s \in Position /\ s \in Positions /\ s.seqNr \in Nat /\ 1 <= s.seqNr
      /\ \A t \in snapshots : t.seqNr \in Nat
      /\ \A n \in saved : n \in Nat
  BY DEF TypeOK, Positions, StoreInv, Position
<1>3. TypeOK'
  BY <1>1, <1>2 DEF TypeOK, writeSide, readSide, source
<1>4. Positions' = Positions /\ Stored' = Stored \cup {s}
  BY <1>1 DEF Positions, Stored
<1>5. \E t \in snapshots' : \A u \in snapshots' : u.seqNr <= t.seqNr
  <2>1. CASE snapshots = {}
    BY <1>1, <1>2, <2>1
  <2>2. CASE snapshots # {}
    <3>1. PICK t \in snapshots : \A u \in snapshots : u.seqNr <= t.seqNr
      BY <2>2 DEF StoreInv
    <3>2. CASE s.seqNr <= t.seqNr
      BY <1>1, <3>1, <3>2
    <3>3. CASE ~(s.seqNr <= t.seqNr)
      <4>1. \A u \in snapshots' : u.seqNr <= s.seqNr
        BY <1>1, <1>2, <3>1, <3>3
      <4>2. QED
        BY <1>1, <4>1
    <3>4. QED
      BY <3>2, <3>3
  <2>3. QED
    BY <2>1, <2>2
<1>6. StoreInv'
  BY <1>1, <1>4, <1>5 DEF StoreInv, writeSide
<1>7. /\ WriteInv' /\ RowInv' /\ NothingSkipped' /\ OnlyTheLastIsInDoubt'
      /\ Recoverable' = Recoverable
  <2>1. Stored' \subseteq Positions
    BY <1>2, <1>4 DEF Positions
  <2>2. QED
    BY <1>1, <1>3, <1>6, <2>1, StoresOnly
<1>8. PurgeInv'
  <2>1. \A n \in saved' : 1 <= n /\ \E t \in snapshots' : n <= t.seqNr
    BY <1>1, <1>2 DEF PurgeInv
  <2>2. QED
    BY <1>1, <2>1 DEF PurgeInv
<1>9. ActorInv'
  BY <1>1, <1>7 DEF ActorInv, Working, writeSide, readSide, source
<1>10. QED
  BY <1>3, <1>6, <1>7, <1>8, <1>9

\* What a saved snapshot lets be deleted lies behind a snapshot that stays.
LEMMA PurgeBehindStep ==
    ASSUME IInv, NEW n \in saved, PurgeBehind(n)
    PROVE  IInv' /\ Recoverable' = Recoverable
<1> USE DEF IInv
<1>1. /\ status = "idle" /\ saved' = saved \ {n} /\ purges' = purges \cup Purges(n)
      /\ UNCHANGED << writeSide, readSide, written, offsets, snapshots, saving,
                      status, seqNr, lastOffset, attempts, source, failures >>
  BY DEF PurgeBehind
<1>2. /\ n \in Nat /\ 1 <= n /\ \E s \in snapshots : n <= s.seqNr
      /\ \A s \in snapshots : s.seqNr \in Nat
  BY DEF TypeOK, PurgeInv, Position
<1>3. TypeOK'
  <2>1. purges' \subseteq [store : {"journal", "snapshots"}, upTo : Nat]
    <3>1. n - 1 \in Nat
      BY <1>2
    <3>2. QED
      BY <1>1, <1>2, <3>1 DEF TypeOK, Purges
  <2>2. QED
    BY <1>1, <2>1 DEF TypeOK, writeSide, readSide, source
<1>4. Positions' = Positions /\ Stored' = Stored /\ Stored \subseteq Positions
  BY <1>1 DEF Positions, Stored
<1>5. StoreInv'
  BY <1>1, <1>4 DEF StoreInv, writeSide
<1>6. /\ WriteInv' /\ RowInv' /\ NothingSkipped' /\ OnlyTheLastIsInDoubt'
      /\ Recoverable' = Recoverable
  BY <1>1, <1>3, <1>4, <1>5, StoresOnly
<1>7. PurgeInv'
  <2>1. PICK s \in snapshots : n <= s.seqNr
    BY <1>2
  <2>2. \A d \in Purges(n) : d.upTo <= s.seqNr /\ (d.store = "snapshots" => d.upTo < s.seqNr)
    BY <1>2, <2>1 DEF Purges
  <2>3. QED
    BY <1>1, <2>2 DEF PurgeInv
<1>8. ActorInv'
  BY <1>1, <1>6 DEF ActorInv, Working, writeSide, readSide, source
<1>9. QED
  BY <1>3, <1>5, <1>6, <1>7, <1>8

\* A deletion spares the last position, whichever store holds it.
LEMMA PurgeStep ==
    ASSUME IInv, NEW d \in purges, Purge(d)
    PROVE  IInv' /\ Recoverable' = Recoverable
<1> USE DEF IInv
<1>1. /\ purges' = purges \ {d}
      /\ UNCHANGED << writeSide, readSide, written, saving, actor, source, failures >>
      /\ \/ /\ d.store = "journal" /\ snapshots' = snapshots
            /\ offsets' = {o \in offsets : o.seqNr > d.upTo}
         \/ /\ d.store = "snapshots" /\ offsets' = offsets
            /\ snapshots' = {s \in snapshots : s.seqNr > d.upTo}
  BY DEF Purge, TypeOK
<1>2. PICK s \in snapshots : d.upTo <= s.seqNr /\ (d.store = "snapshots" => d.upTo < s.seqNr)
  BY DEF PurgeInv
<1>3. /\ d.upTo \in Nat /\ written \in Nat
      /\ \A r \in Stored : r.seqNr \in Nat /\ r.seqNr <= written
      /\ offsets' \subseteq offsets /\ snapshots' \subseteq snapshots
  BY <1>1 DEF TypeOK, Positions, Stored, StoreInv, Position
<1>4. s \in snapshots'
  BY <1>1, <1>2
<1>5. TypeOK'
  <2>1. purges' \subseteq purges
    BY <1>1
  <2>2. QED
    BY <1>1, <1>3, <2>1 DEF TypeOK, writeSide, readSide, actor, source
<1>6. Positions' \subseteq Positions /\ Stored' \subseteq Positions
  BY <1>1, <1>3 DEF Positions, Stored
<1>7. ASSUME written > 0 PROVE \E r \in Stored' : r.seqNr = written
  <2>1. PICK r \in Stored : r.seqNr = written
    BY <1>7 DEF StoreInv
  <2>2. CASE r \in snapshots
    <3>1. s.seqNr <= written /\ s.seqNr \in Nat
      BY <1>3 DEF Stored
    <3>2. r \in snapshots'
      BY <1>1, <1>2, <1>3, <2>1, <2>2, <3>1
    <3>3. QED
      BY <2>1, <3>2 DEF Stored
  <2>3. CASE r \in offsets /\ d.upTo < written
    <3>1. r \in offsets'
      BY <1>1, <1>3, <2>1, <2>3
    <3>2. QED
      BY <2>1, <3>1 DEF Stored
  <2>4. CASE ~(d.upTo < written)
    <3>1. s.seqNr = written
      BY <1>2, <1>3, <2>4 DEF Stored
    <3>2. QED
      BY <1>4, <3>1 DEF Stored
  <2>5. QED
    BY <2>1, <2>2, <2>3, <2>4 DEF Stored
<1>8. \E t \in snapshots' : \A u \in snapshots' : u.seqNr <= t.seqNr
  <2>1. PICK t \in snapshots : \A u \in snapshots : u.seqNr <= t.seqNr
    BY <1>2 DEF StoreInv
  <2>2. s.seqNr <= t.seqNr /\ s.seqNr \in Nat /\ t.seqNr \in Nat
    BY <1>3, <2>1 DEF Stored
  <2>3. t \in snapshots'
    BY <1>1, <1>2, <1>3, <2>1, <2>2
  <2>4. QED
    BY <1>3, <2>1, <2>3
<1>9. StoreInv'
  BY <1>1, <1>6, <1>7, <1>8 DEF StoreInv, writeSide
<1>10. /\ WriteInv' /\ RowInv' /\ NothingSkipped' /\ OnlyTheLastIsInDoubt'
       /\ Recoverable' = Recoverable
  BY <1>1, <1>5, <1>6, <1>9, StoresOnly
<1>11. PurgeInv'
  <2>1. \A t \in snapshots : t.seqNr \in Nat
    BY <1>3 DEF Stored
  <2>2. \A t \in snapshots : t \in snapshots' \/ (d.store = "snapshots" /\ t.seqNr <= d.upTo)
    BY <1>1, <1>3, <2>1
  <2>3. \A t \in snapshots : t \in snapshots' \/ t.seqNr < s.seqNr
    BY <1>2, <1>3, <2>1, <2>2
  <2>4. ASSUME NEW e \in purges
        PROVE  \E t \in snapshots' : /\ e.upTo <= t.seqNr
                                     /\ e.store = "snapshots" => e.upTo < t.seqNr
    <3>1. PICK t \in snapshots : e.upTo <= t.seqNr /\ (e.store = "snapshots" => e.upTo < t.seqNr)
      BY DEF PurgeInv
    <3>2. e.upTo \in Nat
      BY DEF TypeOK
    <3>3. CASE t \in snapshots'
      BY <3>1, <3>3
    <3>4. CASE t.seqNr < s.seqNr
      BY <1>4, <2>1, <3>1, <3>2, <3>4
    <3>5. QED
      BY <2>3, <3>3, <3>4
  <2>5. ASSUME NEW n \in saved PROVE 1 <= n /\ \E t \in snapshots' : n <= t.seqNr
    <3>1. PICK t \in snapshots : n <= t.seqNr
      BY DEF PurgeInv
    <3>2. n \in Nat /\ 1 <= n
      BY DEF TypeOK, PurgeInv
    <3>3. CASE t \in snapshots'
      BY <3>1, <3>2, <3>3
    <3>4. CASE t.seqNr < s.seqNr
      BY <1>4, <2>1, <3>1, <3>2, <3>4
    <3>5. QED
      BY <2>3, <3>3, <3>4
  <2>6. QED
    BY <1>1, <2>4, <2>5 DEF PurgeInv, actor
<1>12. ActorInv'
  <2>1. UNCHANGED << status, seqNr, lastOffset, cursor, tagged, applied, written >>
    BY <1>1 DEF writeSide, readSide, actor, source
  <2>2. ASSUME status = "replaying", seqNr < written
        PROVE  \E r \in offsets' : r.seqNr = written
    <3>1. PICK r \in offsets : r.seqNr = written
      BY <2>2 DEF ActorInv
    <3>2. d.store = "journal" => d.upTo <= seqNr
      BY <2>2 DEF ActorInv
    <3>3. r \in offsets'
      BY <1>1, <1>3, <2>2, <3>1, <3>2 DEF TypeOK
    <3>4. QED
      BY <3>1, <3>3
  <2>3. QED
    BY <1>1, <1>10, <2>1, <2>2 DEF ActorInv, Working
<1>13. QED
  BY <1>5, <1>9, <1>10, <1>11, <1>12

-----------------------------------------------------------------------------
(* All steps together.                                                     *)

\* Every step keeps the invariant, and none takes the projection back.
LEMMA StepInvariant ==
    IInv /\ [Next]_vars => /\ IInv' /\ Recoverable' >= Recoverable
                           /\ WriteOffset \/ Recoverable' = Recoverable
<1> SUFFICES ASSUME IInv, [Next]_vars
             PROVE  /\ IInv' /\ Recoverable' >= Recoverable
                    /\ WriteOffset \/ Recoverable' = Recoverable
  OBVIOUS
<1>1. Recoverable \in Nat
  BY RecoverableFacts DEF IInv, RecoversLast
<1>2. ASSUME NEW c \in Commands, Publish(c) PROVE IInv' /\ Recoverable' = Recoverable
  <2>1. UNCHANGED stores
    BY <1>2 DEF Publish
  <2>2. Recoverable' = Recoverable
    BY <2>1 DEF Recoverable, Latest, stores
  <2>3. QED
    BY <1>2, <2>2, PublishStep
<1>3. CASE Start \/ ProjectionFailed \/ StopProjector
  <2>1. UNCHANGED stores
    BY <1>3 DEF Start, ProjectionFailed, StopProjector
  <2>2. Recoverable' = Recoverable
    BY <2>1 DEF Recoverable, Latest, stores
  <2>3. QED
    BY <1>1, <1>3, <2>2, RestartStep
<1>4. CASE LoadSnapshot \/ Replay \/ StartProjection \/ ReceiveEnvelope
  <2>1. UNCHANGED stores
    BY <1>4 DEF LoadSnapshot, Replay, StartProjection, ReceiveEnvelope
  <2>2. Recoverable' = Recoverable
    BY <2>1 DEF Recoverable, Latest, stores
  <2>3. QED
    BY <1>1, <1>4, <2>2, LoadStep, ReplayStep, StreamStep
<1>5. CASE TryProcess \/ AttemptFails
  <2>1. UNCHANGED stores
    BY <1>5 DEF TryProcess, AttemptFails
  <2>2. Recoverable' = Recoverable
    BY <2>1 DEF Recoverable, Latest, stores
  <2>3. QED
    BY <1>1, <1>5, <2>2, AttemptStep
<1>6. CASE WriteOffset
  BY <1>6, WriteStep
<1>7. CASE Acknowledge
  BY <1>1, <1>7, AcknowledgeStep
<1>8. ASSUME NEW s \in saving, StoreSnapshot(s) PROVE IInv' /\ Recoverable' = Recoverable
  BY <1>8, StoreSnapshotStep
<1>9. ASSUME NEW n \in saved, PurgeBehind(n) PROVE IInv' /\ Recoverable' = Recoverable
  BY <1>9, PurgeBehindStep
<1>10. ASSUME NEW d \in purges, Purge(d) PROVE IInv' /\ Recoverable' = Recoverable
  BY <1>10, PurgeStep
<1>11. CASE UNCHANGED vars
  <2>1. UNCHANGED << writeSide, readSide, stores, actor, source, failures >>
    BY <1>11 DEF vars
  <2>2. /\ WriteInv' /\ RowInv' /\ StoreInv' /\ PurgeInv'
        /\ NothingSkipped' /\ OnlyTheLastIsInDoubt' /\ Recoverable' = Recoverable
    BY <2>1, Quiet DEF actor
  <2>3. TypeOK'
    BY <2>1 DEF IInv, TypeOK, writeSide, readSide, stores, actor, source
  <2>4. ActorInv'
    BY <2>1, <2>2 DEF IInv, ActorInv, Working, writeSide, readSide, stores, actor, source
  <2>5. QED
    BY <1>1, <2>2, <2>3, <2>4 DEF IInv
<1>12. QED
  BY <1>1, <1>2, <1>3, <1>4, <1>5, <1>6, <1>7, <1>8, <1>9, <1>10, <1>11 DEF Next, Work

-----------------------------------------------------------------------------
(* The price of a failure.                                                 *)

\* The event in hand is in the rows, though no offset says so.
InDoubt == Recoverable + 1 \in 1 .. Len(tagged) /\ applied[Recoverable + 1] > 0

\* It can be counted once more, unless its offset is about to be written.
Doubt == IF InDoubt /\ status # "persisting" THEN 1 ELSE 0

\* A failure pays for each event that was counted again, and for the one that can be.
Excesses == [n \in 1 .. Len(tagged) |-> Excess(n)]
CostInv  == Total(Excesses, Len(tagged)) + Doubt <= failures

\* A step of the projector does one of three things to the rows and the offset.
Renders ==
    /\ status = "projecting" /\ cursor = Recoverable + 1 /\ cursor \in 1 .. Len(tagged)
    /\ UNCHANGED << tagged, products >> /\ Recoverable' = Recoverable
    /\ applied' \in Seq(Nat) /\ Len(applied') = Len(tagged)
    /\ \A n \in 1 .. Len(tagged) : n # cursor => applied'[n] = applied[n]
    /\ \/ applied' = applied /\ rows' = rows
       \/ /\ applied'[cursor] = applied[cursor] + 1
          /\ rows' = [rows EXCEPT ![tagged[cursor].product] =
                                    Project(@, tagged[cursor].event)]
    /\ \/ status' = "persisting" /\ failures' = failures
       \/ status' # "persisting" /\ failures' = failures + 1

Persists ==
    /\ status = "persisting" /\ cursor = Recoverable + 1 /\ cursor \in 1 .. Len(tagged)
    /\ UNCHANGED << tagged, products, rows, applied, failures >>
    /\ Recoverable' = Recoverable + 1
    /\ Rendered(tagged[cursor].event) => applied[cursor] > 0

Waits ==
    /\ UNCHANGED << tagged, products, rows, applied >> /\ Recoverable' = Recoverable
    /\ \/ failures' = failures + 1
       \/ failures' = failures /\ (status = "persisting" => status' = "persisting")

\* Every step is a command, or one of the three.
LEMMA StepKinds ==
    ASSUME IInv, [Next]_vars
    PROVE  \/ \E c \in Commands : \E es \in Seq(Event) :
                 /\ Grown(c, es) /\ Recoverable' = Recoverable
                 /\ UNCHANGED << status, failures >>
           \/ Renders \/ Persists \/ Waits
<1>0. WriteOffset \/ Recoverable' = Recoverable
  BY StepInvariant
<1>1. ASSUME NEW c \in Commands, Publish(c)
      PROVE  \E es \in Seq(Event) : /\ Grown(c, es) /\ Recoverable' = Recoverable
                                    /\ UNCHANGED << status, failures >>
  <2>1. UNCHANGED << status, failures >> /\ UNCHANGED stores
    BY <1>1 DEF Publish, actor
  <2>2. Recoverable' = Recoverable
    BY <2>1 DEF Recoverable, Latest, stores
  <2>3. QED
    BY <1>1, <2>1, <2>2, PublishGrows
<1>2. CASE \/ Start \/ ProjectionFailed \/ StopProjector
           \/ LoadSnapshot \/ Replay \/ StartProjection \/ ReceiveEnvelope \/ Acknowledge
  <2>1. ~WriteOffset
    BY <1>2 DEF Start, ProjectionFailed, StopProjector, LoadSnapshot, Replay,
                StartProjection, ReceiveEnvelope, Acknowledge, WriteOffset, Restart, actor
  <2>2. UNCHANGED << tagged, products, rows, applied >>
    BY <1>2 DEF Start, ProjectionFailed, StopProjector, LoadSnapshot, Replay,
                StartProjection, ReceiveEnvelope, Acknowledge, writeSide, readSide
  <2>3. failures' = failures + 1 \/ (failures' = failures /\ status # "persisting")
    BY <1>2 DEF Start, ProjectionFailed, StopProjector, LoadSnapshot, Replay,
                StartProjection, ReceiveEnvelope, Acknowledge
  <2>4. QED
    BY <1>0, <2>1, <2>2, <2>3 DEF Waits
<1>3. CASE TryProcess \/ AttemptFails
  <2>1. /\ status = "projecting" /\ UNCHANGED writeSide /\ UNCHANGED stores
        /\ \/ status' = "persisting" /\ failures' = failures /\ Commit
           \/ /\ status' # "persisting" /\ failures' = failures + 1
              /\ Commit \/ UNCHANGED readSide
    BY <1>3 DEF TryProcess, AttemptFails, TryAgain, Restart
  <2>2. Recoverable' = Recoverable
    BY <2>1 DEF Recoverable, Latest, stores
  <2>3. CASE Commit
    <3>1. /\ cursor = Recoverable + 1 /\ cursor \in 1 .. Len(tagged)
          /\ applied' \in Seq(Nat) /\ Len(applied') = Len(tagged)
          /\ \A n \in 1 .. Len(tagged) : n # cursor => applied'[n] = applied[n]
          /\ \/ applied' = applied /\ rows' = rows
             \/ /\ applied'[cursor] = applied[cursor] + 1
                /\ rows' = [rows EXCEPT ![tagged[cursor].product] =
                                          Project(@, tagged[cursor].event)]
      BY <2>1, <2>3, CommitEffect
    <3>2. UNCHANGED << tagged, products >>
      BY <2>1 DEF writeSide
    <3>3. Renders
      BY <2>1, <2>2, <3>1, <3>2 DEF Renders
    <3>4. QED
      BY <3>3
  <2>4. CASE UNCHANGED readSide /\ failures' = failures + 1
    BY <2>1, <2>2, <2>4 DEF Waits, writeSide, readSide
  <2>5. QED
    BY <2>1, <2>3, <2>4
<1>4. CASE WriteOffset
  <2>1. /\ status = "persisting" /\ UNCHANGED << tagged, products, rows, applied, failures >>
    BY <1>4 DEF WriteOffset, writeSide, readSide
  <2>2. Recoverable' = Recoverable + 1
    BY <1>4, WriteStep
  <2>3. /\ cursor = Recoverable + 1 /\ cursor \in 0 .. Len(tagged)
        /\ Rendered(tagged[cursor].event) => applied[cursor] > 0
        /\ Recoverable \in Nat /\ Len(tagged) \in Nat
    BY <2>1, RecoverableFacts DEF IInv, ActorInv, TypeOK, RecoversLast
  <2>4. QED
    BY <2>1, <2>2, <2>3 DEF Persists
<1>5. CASE \/ \E s \in saving : StoreSnapshot(s)
           \/ \E n \in saved : PurgeBehind(n)
           \/ \E d \in purges : Purge(d)
           \/ UNCHANGED vars
  <2>1. UNCHANGED << tagged, products, rows, applied, failures, status >>
    BY <1>5 DEF StoreSnapshot, PurgeBehind, Purge, vars, writeSide, readSide, actor
  <2>2. ~WriteOffset
    BY <2>1 DEF WriteOffset
  <2>3. QED
    BY <1>0, <2>1, <2>2 DEF Waits
<1>6. QED
  BY <1>1, <1>2, <1>3, <1>4, <1>5 DEF Next, Work

\* Every count is a natural number, and so is each excess.
LEMMA ExcessFacts ==
    ASSUME IInv
    PROVE  /\ Len(tagged) \in Nat /\ Recoverable \in 0 .. Len(tagged) /\ failures \in Nat
           /\ \A n \in 1 .. Len(tagged) : /\ applied[n] \in Nat /\ Excess(n) \in Int
                                          /\ Excesses[n] = Excess(n)
           /\ Total(Excesses, Len(tagged)) \in Int
           /\ Doubt \in {0, 1}
           /\ \A n \in 1 .. Len(tagged) : applied[n] > 0 => n <= Recoverable + 1
<1>1. /\ Len(tagged) \in Nat /\ Recoverable \in 0 .. Len(tagged) /\ failures \in Nat
      /\ \A n \in 1 .. Len(tagged) : applied[n] \in Nat
  BY RecoverableFacts DEF IInv, TypeOK, RecoversLast
<1>2. \A n \in 1 .. Len(tagged) : Excess(n) \in Int /\ Excesses[n] = Excess(n)
  BY <1>1 DEF Excess, Excesses
<1>3. Total(Excesses, Len(tagged)) \in Int
  BY <1>1, <1>2, TotalOfSame
<1>4. Doubt \in {0, 1}
  BY DEF Doubt
<1>5. QED
  BY <1>1, <1>2, <1>3, <1>4 DEF IInv, OnlyTheLastIsInDoubt

\* The same of the next state.
LEMMA ExcessNext ==
    IInv' => /\ Len(tagged') \in Nat /\ Recoverable' \in 0 .. Len(tagged')
             /\ failures' \in Nat
             /\ \A n \in 1 .. Len(tagged') : /\ applied'[n] \in Nat /\ Excess(n)' \in Int
                                             /\ Excesses'[n] = Excess(n)'
             /\ Total(Excesses', Len(tagged')) \in Int
             /\ Doubt' \in {0, 1}
             /\ \A n \in 1 .. Len(tagged') : applied'[n] > 0 => n <= Recoverable' + 1
<1> DEFINE Facts ==
           /\ Len(tagged) \in Nat /\ Recoverable \in 0 .. Len(tagged) /\ failures \in Nat
           /\ \A n \in 1 .. Len(tagged) : /\ applied[n] \in Nat /\ Excess(n) \in Int
                                          /\ Excesses[n] = Excess(n)
           /\ Total(Excesses, Len(tagged)) \in Int
           /\ Doubt \in {0, 1}
           /\ \A n \in 1 .. Len(tagged) : applied[n] > 0 => n <= Recoverable + 1
<1>1. IInv => Facts
  BY ExcessFacts
<1> HIDE DEF Facts
<1>2. IInv' => Facts'
  BY <1>1, PTL
<1>3. QED
  BY <1>2 DEF Facts

\* Each failure pays for one count too many.
LEMMA CostStep == ASSUME IInv, IInv', CostInv, [Next]_vars PROVE CostInv'
<1> DEFINE old  == Len(tagged)
           cost == Total(Excesses, old)
<1>0. cost + Doubt <= failures /\ cost \in Int /\ failures \in Nat /\ Doubt \in {0, 1}
  BY ExcessFacts DEF CostInv
<1>1. ASSUME NEW c \in Commands, NEW es \in Seq(Event), Grown(c, es),
             Recoverable' = Recoverable, UNCHANGED << status, failures >>
      PROVE  CostInv'
  <2> DEFINE m == Len(es)
  <2>1. /\ old \in Nat /\ m \in Nat /\ Len(tagged') = old + m
        /\ \A n \in 1 .. old : applied'[n] = applied[n]
        /\ \A k \in 1 .. m : applied'[old + k] = 0
    BY <1>1 DEF Grown
  <2>2. Total(Excesses', old + m) = cost
    <3>1. \A n \in 1 .. old : n \in 1 .. old + m
      BY <2>1
    <3>2. \A k \in 1 .. m : old + k \in 1 .. old + m
      BY <2>1
    <3>3. \A n \in 1 .. old : Excesses[n] \in Int /\ Excesses'[n] = Excesses[n]
      BY <2>1, <3>1, ExcessFacts, ExcessNext DEF Excess
    <3>4. \A k \in 1 .. m : Excesses'[old + k] = 0
      BY <2>1, <3>2, ExcessNext DEF Excess
    <3> HIDE DEF old, m
    <3>5. QED
      BY <2>1, <3>3, <3>4, TotalOfMore
  <2>3. InDoubt' => InDoubt
    <3>1. Recoverable \in 0 .. old
      BY ExcessFacts
    <3>2. ASSUME InDoubt' PROVE Recoverable + 1 \in 1 .. old
      <4>1. Recoverable + 1 \in 1 .. old + m /\ applied'[Recoverable + 1] > 0
        BY <1>1, <2>1, <3>2 DEF InDoubt
      <4>2. CASE Recoverable = old
        BY <2>1, <4>1, <4>2
      <4>3. QED
        BY <2>1, <3>1, <4>2
    <3>3. QED
      BY <1>1, <2>1, <3>2 DEF InDoubt
  <2>4. Doubt' <= Doubt
    BY <1>1, <2>3 DEF Doubt
  <2>5. QED
    <3>1. Doubt' \in {0, 1}
      BY ExcessNext
    <3>2. Total(Excesses', old + m) + Doubt' <= failures'
      BY <1>0, <1>1, <2>2, <2>4, <3>1
    <3>3. QED
      BY <2>1, <3>2 DEF CostInv
<1>2. ASSUME Renders PROVE CostInv'
  <2>0. PICK n \in 1 .. old : n = cursor
    BY <1>2 DEF Renders
  <2>1. /\ status = "projecting" /\ n = Recoverable + 1
        /\ tagged' = tagged /\ Recoverable' = Recoverable /\ old \in Nat
        /\ applied[n] \in Nat
        /\ \/ status' = "persisting" /\ failures' = failures
           \/ status' # "persisting" /\ failures' = failures + 1
    BY <1>2, <2>0, ExcessFacts DEF Renders
  <2>2. /\ \A k \in 1 .. old : k # n => applied'[k] = applied[k]
        /\ applied'[n] \in {applied[n], applied[n] + 1}
    BY <1>2, <2>0 DEF Renders
  <2>3. Total(Excesses', old) = cost + (Excess(n)' - Excess(n))
    <3>1. \A k \in 1 .. old : /\ Excesses[k] = Excess(k) /\ Excesses[k] \in Int
                              /\ Excesses'[k] = Excess(k)' /\ Excesses'[k] \in Int
      BY <2>1, ExcessFacts, ExcessNext
    <3>2. \A k \in 1 .. old : k # n => Excesses'[k] = Excesses[k]
      BY <2>2, <3>1 DEF Excess
    <3> HIDE DEF old
    <3>3. Total(Excesses', old) = Total(Excesses, old) + (Excesses'[n] - Excesses[n])
      <4> DEFINE a == Excesses
                 b == Excesses'
      <4>1. /\ \A k \in 1 .. old : a[k] \in Int
            /\ \A k \in 1 .. old : k # n => b[k] = a[k]
            /\ b[n] \in Int /\ n \in 1 .. old /\ old \in Nat
        BY <2>1, <3>1, <3>2
      <4> HIDE DEF a, b
      <4>2. Total(b, old) = Total(a, old) + (b[n] - a[n])
        BY <4>1, TotalOfChange
      <4>3. QED
        BY <4>2 DEF a, b
    <3>4. QED
      BY <3>1, <3>3
  <2>4. /\ Doubt = IF applied[n] > 0 THEN 1 ELSE 0
        /\ Doubt' = IF applied'[n] > 0 /\ status' # "persisting" THEN 1 ELSE 0
    BY <2>1 DEF Doubt, InDoubt
  <2>5. /\ Excess(n) = IF applied[n] > 1 THEN applied[n] - 1 ELSE 0
        /\ Excess(n)' = IF applied'[n] > 1 THEN applied'[n] - 1 ELSE 0
    BY <2>1 DEF Excess
  <2>6. cost + (Excess(n)' - Excess(n)) + Doubt' <= failures'
    <3> DEFINE a == applied[n]
               b == applied'[n]
               more == Excess(n)' - Excess(n)
    <3>1. a \in Nat /\ b \in {a, a + 1}
      BY <2>1, <2>2
    <3>2. b = a => more = 0
      <4>1. b = a => Excess(n)' = Excess(n)
        BY <2>5
      <4>2. Excess(n) \in Int
        BY <2>1, ExcessFacts
      <4>3. QED
        BY <4>1, <4>2
    <3>3. b = a + 1 => more = IF a > 0 THEN 1 ELSE 0
      BY <2>5, <3>1
    <3> HIDE DEF more
    <3>4. CASE status' = "persisting" /\ failures' = failures
      <4>1. Doubt' = 0
        BY <2>4, <3>4
      <4>2. more <= Doubt /\ more \in Int
        BY <2>4, <3>1, <3>2, <3>3
      <4>3. QED
        BY <1>0, <3>4, <4>1, <4>2 DEF more
    <3>5. CASE status' # "persisting" /\ failures' = failures + 1
      <4>1. Doubt' = IF b > 0 THEN 1 ELSE 0
        BY <2>4, <3>5
      <4>2. more + Doubt' <= Doubt + 1 /\ more \in Int
        BY <2>4, <3>1, <3>2, <3>3, <4>1
      <4> HIDE DEF a, b
      <4>3. Doubt' \in Int
        BY <4>1
      <4>4. QED
        BY <1>0, <3>5, <4>2, <4>3 DEF more
    <3>6. QED
      BY <2>1, <3>4, <3>5
  <2>7. QED
    BY <2>1, <2>3, <2>6 DEF CostInv
<1>3. ASSUME Persists PROVE CostInv'
  <2>1. /\ tagged' = tagged /\ applied' = applied /\ failures' = failures
        /\ Recoverable' = Recoverable + 1 /\ Recoverable \in Nat
    BY <1>3, ExcessFacts DEF Persists
  <2>2. Excesses' = Excesses
    BY <2>1 DEF Excesses, Excess
  <2>3. Doubt' = 0
    <3>1. ~InDoubt'
      BY <2>1, ExcessFacts DEF InDoubt
    <3>2. QED
      BY <3>1 DEF Doubt
  <2>4. QED
    BY <1>0, <2>1, <2>2, <2>3 DEF CostInv
<1>4. ASSUME Waits PROVE CostInv'
  <2>1. tagged' = tagged /\ applied' = applied /\ Recoverable' = Recoverable
    BY <1>4 DEF Waits
  <2>2. Excesses' = Excesses /\ InDoubt' = InDoubt
    BY <2>1 DEF Excesses, Excess, InDoubt
  <2>3. \/ failures' = failures + 1
        \/ failures' = failures /\ (status = "persisting" => status' = "persisting")
    BY <1>4 DEF Waits
  <2>4. Doubt' \in {0, 1}
    BY ExcessNext
  <2>5. CASE failures' = failures + 1
    BY <1>0, <2>1, <2>2, <2>4, <2>5 DEF CostInv
  <2>6. CASE failures' = failures /\ (status = "persisting" => status' = "persisting")
    BY <1>0, <2>1, <2>2, <2>6 DEF CostInv, Doubt
  <2>7. QED
    BY <2>3, <2>5, <2>6
<1>5. QED
  BY <1>1, <1>2, <1>3, <1>4, StepKinds

\* Nothing costs nothing.
LEMMA InitCost == Init => CostInv
<1> SUFFICES ASSUME Init PROVE CostInv
  OBVIOUS
<1>1. Len(tagged) = 0 /\ failures = 0
  BY DEF Init
<1>2. Total(Excesses, 0) = 0
  <2> DEFINE h == [k \in 0 .. 0 |-> 0]
  <2>1. Running(h, Excesses, 0) /\ h[0] = 0
    BY DEF Running
  <2> HIDE DEF h
  <2>2. Total(Excesses, 0) = h[0]
    BY <2>1, TotalIs
  <2>3. QED
    BY <2>1, <2>2
<1>3. Doubt = 0
  BY <1>1 DEF Doubt, InDoubt
<1>4. QED
  BY <1>1, <1>2, <1>3 DEF CostInv

-----------------------------------------------------------------------------
(* The rows and the products.                                              *)

\* What an event adds to a row that exists.
LEMMA ProjectTotals ==
    ASSUME NEW row \in Listing, NEW e \in Event, row.exists, e.type # "created"
    PROVE  LET t == Project(row, e) IN
           /\ t.exists
           /\ t.allInventory = IF e.type = "changed" THEN row.allInventory + e.qty
                                                     ELSE row.allInventory
           /\ t.soldUnits = IF e.type = "sold" THEN row.soldUnits + e.qty ELSE row.soldUnits
           /\ t.totalRevenue = IF e.type = "sold" THEN row.totalRevenue + TotalPrice(e)
                                                  ELSE row.totalRevenue
<1>1. CASE e.type = "changed"
  <2>1. Project(row, e) = [row EXCEPT !.allInventory = row.allInventory + e.qty]
    BY <1>1 DEF Project
  <2>2. QED
    BY <1>1, <2>1 DEF Listing
<1>2. CASE e.type = "sold"
  <2> DEFINE revenue == TotalPrice(e)
  <2>1. Project(row, e) = [row EXCEPT !.soldUnits = row.soldUnits + e.qty,
                                      !.totalRevenue = row.totalRevenue + revenue]
    BY <1>2 DEF Project
  <2> HIDE DEF revenue
  <2>2. LET t == Project(row, e) IN
        /\ t.exists = row.exists /\ t.allInventory = row.allInventory
        /\ t.soldUnits = row.soldUnits + e.qty /\ t.totalRevenue = row.totalRevenue + revenue
    BY <2>1 DEF Listing
  <2>3. QED
    BY <1>2, <2>2 DEF revenue
<1>3. CASE e.type = "warning"
  BY <1>3 DEF Project
<1>4. QED
  BY <1>1, <1>2, <1>3 DEF Event, CreatedEvent, ChangedEvent, WarningEvent, SoldEvent

\* The rows that a batch of a command's events passes through, as Unfold for the product.
Rendering(row, es) ==
    LET r1 == Project(row, es[1])
        r2 == Project(r1, es[2])
        r3 == Project(r2, es[3])
    IN  [k \in 1 .. Len(es) |-> IF k = 1 THEN r1 ELSE IF k = 2 THEN r2 ELSE r3]

\* It lists the rows one event after the other.
LEMMA RenderingSteps ==
    ASSUME NEW row \in Listing, NEW es \in Seq(Event), 1 <= Len(es), Len(es) <= 3
    PROVE  LET r == Rendering(row, es) IN
           /\ \A k \in 1 .. Len(es) : r[k] \in Listing
           /\ r[1] = Project(row, es[1])
           /\ \A k \in 2 .. Len(es) : r[k] = Project(r[k - 1], es[k])
<1> DEFINE r1 == Project(row, es[1])
           r2 == Project(r1, es[2])
           r3 == Project(r2, es[3])
           r  == Rendering(row, es)
<1>0. Len(es) \in Nat /\ \A k \in 1 .. Len(es) : es[k] \in Event
  OBVIOUS
<1>1. r = [k \in 1 .. Len(es) |-> IF k = 1 THEN r1 ELSE IF k = 2 THEN r2 ELSE r3]
  BY DEF Rendering
<1>2. r1 \in Listing
  BY <1>0, ProjectFacts
<1>3. ASSUME Len(es) >= 2 PROVE r2 \in Listing
  <2>1. es[2] \in Event
    BY <1>0, <1>3
  <2> HIDE DEF r1
  <2>2. QED
    BY <1>2, <2>1, ProjectFacts
<1>4. ASSUME Len(es) >= 3 PROVE r3 \in Listing
  <2>1. es[3] \in Event /\ r2 \in Listing
    BY <1>0, <1>3, <1>4
  <2> HIDE DEF r2
  <2>2. QED
    BY <2>1, ProjectFacts
<1>5. r1 = Project(row, es[1]) /\ r2 = Project(r1, es[2]) /\ r3 = Project(r2, es[3])
  OBVIOUS
<1> HIDE DEF r1, r2, r3, r
<1>6. r[1] = r1 /\ (Len(es) >= 2 => r[2] = r2) /\ (Len(es) >= 3 => r[3] = r3)
  BY <1>0, <1>1
<1>7. \A k \in 1 .. Len(es) : r[k] \in Listing
  BY <1>0, <1>1, <1>2, <1>3, <1>4
<1>8. ASSUME NEW k \in 2 .. Len(es) PROVE r[k] = Project(r[k - 1], es[k])
  <2>1. k = 2 \/ k = 3
    BY <1>0
  <2>2. CASE k = 2
    <3>1. r[2] = r2 /\ r[1] = r1 /\ k - 1 = 1
      BY <1>6, <2>2
    <3>2. QED
      BY <1>5, <2>2, <3>1
  <2>3. CASE k = 3
    <3>1. r[3] = r3 /\ r[2] = r2 /\ k - 1 = 2
      BY <1>6, <2>3
    <3>2. QED
      BY <1>5, <2>3, <3>1
  <2>4. QED
    BY <2>1, <2>2, <2>3
<1>9. QED
  BY <1>5, <1>6, <1>7, <1>8 DEF r

\* A row that shows a product.
Mirrors(row, s) ==
    /\ row.exists = s.created
    /\ row.allInventory = s.remaining /\ row.soldUnits = s.sold
    /\ row.totalRevenue = s.revenue
    /\ ~row.exists => row = NoRow

\* All the events of a command, each counted once, take a row that shows the product to one
\* that shows it again: in between the two differ.
LEMMA BatchMirrors ==
    ASSUME NEW s \in State, NEW row \in Listing, Mirrors(row, s), NEW cmd \in Command,
           cmd.qty >= 0, NEW now \in Times, NEW es \in Seq(Event),
           es = ProcessCommand(s, cmd, now), 1 <= Len(es), Len(es) <= 3
    PROVE  Mirrors(Rendering(row, es)[Len(es)], Unfold(s, es)[Len(es)])
<1> DEFINE r == Rendering(row, es)
           u == Unfold(s, es)
           m == Len(es)
<1>0. m \in Nat /\ \A k \in 1 .. m : es[k] \in Event
  OBVIOUS
<1>1. /\ \A k \in 1 .. m : r[k] \in Listing
      /\ r[1] = Project(row, es[1])
      /\ \A k \in 2 .. m : r[k] = Project(r[k - 1], es[k])
  BY RenderingSteps
<1>2. /\ \A k \in 1 .. m : u[k] \in State
      /\ u[1] = ProcessEvent(s, es[1])
      /\ \A k \in 2 .. m : u[k] = ProcessEvent(u[k - 1], es[k])
  <2>1. /\ u \in Seq(State) /\ Len(u) = Len(es)
        /\ u[1] = ProcessEvent(s, es[1])
        /\ \A k \in 2 .. Len(es) : u[k] = ProcessEvent(u[k - 1], es[k])
    BY UnfoldSteps
  <2> HIDE DEF u
  <2>2. QED
    BY <2>1
<1>3. cmd.qty \in Nat
  BY DEF Command
<1>4. /\ row.exists \in BOOLEAN /\ row.allInventory \in Int /\ row.soldUnits \in Int
      /\ row.totalRevenue \in Int
  BY DEF Listing
<1>5. CASE cmd.type = "create" /\ IsEmpty(s)
  <2> DEFINE first == Created(cmd.price)
             last  == Changed(cmd.qty, now, "SupplyIncrease")
  <2>1. es = << first, last >>
    BY <1>5 DEF ProcessCommand, CreateEvents
  <2>2. /\ first.type = "created"
        /\ last.type = "changed" /\ last.qty = cmd.qty /\ last.reason = "SupplyIncrease"
    BY DEF Created, Changed
  <2>3. ~s.created /\ ~row.exists /\ row = NoRow
    BY <1>5 DEF IsEmpty, Mirrors
  <2>4. s.remaining = 0 /\ s.sold = 0 /\ s.revenue = 0
    BY <2>3 DEF Mirrors, NoRow
  <2> HIDE DEF first, last, r, u
  <2>5. m = 2 /\ es[1] = first /\ es[2] = last
    BY <2>1
  <2>6. r[1] = NewListing
    BY <1>1, <2>2, <2>3, <2>5 DEF Project
  <2>7. r[1].exists /\ r[1].allInventory = 0 /\ r[1].soldUnits = 0 /\ r[1].totalRevenue = 0
    BY <2>6 DEF NewListing, NoRow
  <2> HIDE DEF m
  <2>8. /\ first \in Event /\ last \in Event
        /\ r[1] \in Listing /\ u[1] \in State
        /\ r[2] = Project(r[1], last)
        /\ u[1] = ProcessEvent(s, first) /\ u[2] = ProcessEvent(u[1], last)
    BY <1>0, <1>1, <1>2, <2>5
  <2>9. u[1].created /\ u[2].created
    BY <2>2, <2>8, CreatedForGood
  <2>10. u[1].remaining = 0 /\ u[1].sold = 0 /\ u[1].revenue = 0
    BY <2>2, <2>4, <2>8, ProcessEventTotals
  <2>11. /\ u[2].remaining = 0 + cmd.qty /\ u[2].sold = 0 /\ u[2].revenue = 0
    BY <2>2, <2>8, <2>10, ProcessEventTotals
  <2>12. r[2].exists /\ r[2].allInventory = 0 + cmd.qty /\ r[2].soldUnits = 0
         /\ r[2].totalRevenue = 0
    BY <2>2, <2>7, <2>8, ProjectTotals
  <2>13. r[2].exists = u[2].created
    <3>1. r[2] \in Listing /\ u[2] \in State
      BY <1>0, <1>1, <1>2, <2>5
    <3>2. QED
      BY <2>9, <2>12, <3>1 DEF Listing, State
  <2>14. QED
    BY <2>5, <2>11, <2>12, <2>13 DEF Mirrors, r, u, m
<1>6. CASE cmd.type = "supply" /\ ~IsEmpty(s)
  <2> DEFINE last == Changed(cmd.qty, now, "SupplyIncrease")
  <2>1. es = << last >>
    BY <1>6 DEF ProcessCommand, SupplyEvents
  <2>2. last.type = "changed" /\ last.qty = cmd.qty /\ last.reason = "SupplyIncrease"
    BY DEF Changed
  <2>3. s.created /\ row.exists
    BY <1>6 DEF IsEmpty, Mirrors
  <2> HIDE DEF last, r, u
  <2>4. m = 1 /\ es[1] = last
    BY <2>1
  <2> HIDE DEF m
  <2>5. last \in Event /\ r[1] = Project(row, last) /\ u[1] = ProcessEvent(s, last)
    BY <1>0, <1>1, <1>2, <2>4
  <2>6. u[1].created
    BY <2>3, <2>5, CreatedForGood
  <2>7. u[1].remaining = s.remaining + cmd.qty /\ u[1].sold = s.sold /\ u[1].revenue = s.revenue
    BY <2>2, <2>5, ProcessEventTotals
  <2>8. /\ r[1].exists /\ r[1].allInventory = row.allInventory + cmd.qty
        /\ r[1].soldUnits = row.soldUnits /\ r[1].totalRevenue = row.totalRevenue
    BY <2>2, <2>3, <2>5, ProjectTotals
  <2>9. r[1].exists = u[1].created
    <3>1. r[1] \in Listing /\ u[1] \in State
      BY <1>0, <1>1, <1>2, <2>4
    <3>2. QED
      BY <2>6, <2>8, <3>1 DEF Listing, State
  <2>10. Mirrors(r[1], u[1])
    BY <2>7, <2>8, <2>9 DEF Mirrors
  <2>11. QED
    BY <2>4, <2>10 DEF r, u, m
<1>7. CASE cmd.type = "purchase" /\ ~IsEmpty(s) /\ s.price > 0
  <2> DEFINE left    == s.remaining - cmd.qty
             reason  == IF left <= 0 THEN "NoSupply" ELSE "LowSupply"
             middle  == Warning(reason, cmd.at)
             warning == IF left <= LowInventoryWarningThreshold
                        THEN << middle >> ELSE << >>
             first   == Changed(-cmd.qty, cmd.at, "Fulfillment")
             last    == Sold(cmd, s.price, left <= 0)
             revenue == TotalPrice(last)
  <2>1. es = << first >> \o warning \o << last >>
    BY <1>7 DEF ProcessCommand, PurchaseEvents
  <2>2. warning = << >> \/ warning = << middle >>
    OBVIOUS
  <2>3. first.type = "changed" /\ first.qty = -cmd.qty /\ first.reason = "Fulfillment"
    BY DEF Changed
  <2>4. middle.type = "warning"
    BY DEF Warning
  <2>5. last.type = "sold" /\ last.qty = cmd.qty
    BY DEF Sold
  <2>6. s.created /\ row.exists
    BY <1>7 DEF IsEmpty, Mirrors
  <2> HIDE DEF first, middle, last, warning, r, u
  <2>7. \/ Len(es) = 2 /\ es[1] = first /\ es[2] = last
        \/ Len(es) = 3 /\ es[1] = first /\ es[2] = middle /\ es[3] = last
    BY <2>1, <2>2, Joined
  <2>8. /\ 1 \in 1 .. m /\ first \in Event /\ last \in Event
        /\ r[1] = Project(row, first) /\ u[1] = ProcessEvent(s, first)
        /\ r[1] \in Listing /\ u[1] \in State
    BY <1>0, <1>1, <1>2, <2>7
  <2>9. /\ r[1].exists /\ r[1].allInventory = row.allInventory + (-cmd.qty)
        /\ r[1].soldUnits = row.soldUnits /\ r[1].totalRevenue = row.totalRevenue
    BY <2>3, <2>6, <2>8, ProjectTotals
  <2>10. u[1].created
    BY <2>6, <2>8, CreatedForGood
  <2>11. Abs(-cmd.qty) = cmd.qty
    BY <1>3 DEF Abs
  <2>12. /\ u[1].remaining = s.remaining + (-cmd.qty) /\ u[1].sold = s.sold + cmd.qty
         /\ u[1].revenue = s.revenue
    BY <2>3, <2>8, <2>11, ProcessEventTotals
  <2> HIDE DEF revenue
  <2>13. ASSUME NEW a \in Listing, NEW b \in State, a.exists, b.created,
                a.allInventory = b.remaining, a.totalRevenue = b.revenue,
                a.soldUnits + cmd.qty = b.sold
         PROVE  Mirrors(Project(a, last), ProcessEvent(b, last))
    <3> DEFINE pa == Project(a, last)
               pb == ProcessEvent(b, last)
    <3>1. /\ pa.exists /\ pa.allInventory = a.allInventory
          /\ pa.soldUnits = a.soldUnits + cmd.qty /\ pa.totalRevenue = a.totalRevenue + revenue
      BY <2>5, <2>8, <2>13, ProjectTotals DEF revenue
    <3>2. /\ pb.remaining = b.remaining /\ pb.sold = b.sold /\ pb.revenue = b.revenue + revenue
      BY <2>5, <2>8, ProcessEventTotals DEF revenue
    <3>3. pb.created
      BY <2>8, <2>13, CreatedForGood
    <3>4. pa \in Listing /\ pb \in State
      BY <2>8, ProjectFacts, ProcessEventType
    <3> HIDE DEF pa, pb
    <3>5. pa.exists = pb.created
      BY <3>1, <3>3, <3>4 DEF Listing, State
    <3>6. Mirrors(pa, pb)
      BY <2>13, <3>1, <3>2, <3>5 DEF Mirrors
    <3>7. QED
      BY <3>6 DEF pa, pb
  <2>14. /\ r[1].allInventory = u[1].remaining /\ r[1].totalRevenue = u[1].revenue
         /\ r[1].soldUnits + cmd.qty = u[1].sold
    BY <2>9, <2>12 DEF Mirrors
  <2>15. CASE Len(es) = 2 /\ es[1] = first /\ es[2] = last
    <3>1. r[2] = Project(r[1], last) /\ u[2] = ProcessEvent(u[1], last)
      <4>1. 2 \in 2 .. m /\ 2 - 1 = 1
        BY <2>15
      <4>2. QED
        BY <1>1, <1>2, <2>15, <4>1
    <3>2. Mirrors(r[2], u[2])
      BY <2>8, <2>9, <2>10, <2>13, <2>14, <3>1
    <3>3. QED
      BY <2>15, <3>2 DEF r, u
  <2>16. CASE Len(es) = 3 /\ es[1] = first /\ es[2] = middle /\ es[3] = last
    <3>1. /\ 2 \in 2 .. m /\ 3 \in 2 .. m /\ 2 - 1 = 1 /\ 3 - 1 = 2 /\ 2 \in 1 .. m
      BY <2>16
    <3>2. /\ r[2] = Project(r[1], middle) /\ u[2] = ProcessEvent(u[1], middle)
          /\ r[3] = Project(r[2], last) /\ u[3] = ProcessEvent(u[2], last)
          /\ middle \in Event /\ r[2] \in Listing /\ u[2] \in State
      BY <1>0, <1>1, <1>2, <2>16, <3>1
    <3>3. /\ r[2].exists /\ r[2].allInventory = r[1].allInventory
          /\ r[2].soldUnits = r[1].soldUnits /\ r[2].totalRevenue = r[1].totalRevenue
      BY <2>4, <2>8, <2>9, <3>2, ProjectTotals
    <3>4. u[2].created
      BY <2>8, <2>10, <3>2, CreatedForGood
    <3>5. /\ u[2].remaining = u[1].remaining /\ u[2].sold = u[1].sold
          /\ u[2].revenue = u[1].revenue
      BY <2>4, <2>8, <3>2, ProcessEventTotals
    <3>6. Mirrors(r[3], u[3])
      BY <2>13, <2>14, <3>2, <3>3, <3>4, <3>5
    <3>7. QED
      BY <2>16, <3>6 DEF r, u
  <2>17. QED
    BY <2>7, <2>15, <2>16
<1>8. CASE es = << >>
  BY <1>8
<1>9. QED
  BY <1>5, <1>6, <1>7, <1>8 DEF ProcessCommand

\* The rows of all products after each number of events, every event counted once: after all
\* of them they show the products.
Shown(view) ==
    /\ view \in [0 .. Len(tagged) -> [Products -> Listing]]
    /\ view[0] = [p \in Products |-> NoRow]
    /\ \A n \in 1 .. Len(tagged) :
          view[n] = [view[n - 1] EXCEPT ![tagged[n].product] = Project(@, tagged[n].event)]
    /\ \A p \in Products : Mirrors(view[Len(tagged)][p], products[p])

\* Unless an event was counted twice, the rows are those after the recoverable offset, or
\* after the event in hand.
OnceEach == \A n \in 1 .. Len(tagged) : applied[n] <= 1
Follows(view) ==
    OnceEach => rows = IF InDoubt THEN view[Recoverable + 1] ELSE view[Recoverable]

ViewInv == \E view : Shown(view) /\ Follows(view)

\* There is nothing to show at the beginning.
LEMMA InitView == Init => ViewInv
<1> SUFFICES ASSUME Init PROVE ViewInv
  OBVIOUS
<1> DEFINE blank == [p \in Products |-> NoRow]
           view  == [n \in 0 .. 0 |-> blank]
<1>1. /\ tagged = << >> /\ Len(tagged) = 0 /\ rows = blank
      /\ products = [p \in Products |-> EmptyState] /\ Recoverable = 0
  BY DEF Init, Recoverable
<1>2. NoRow \in Listing /\ Mirrors(NoRow, EmptyState)
  BY DEF NoRow, Listing, Mirrors, EmptyState
<1>3. blank \in [Products -> Listing] /\ \A p \in Products : blank[p] = NoRow
  BY <1>2
<1> HIDE DEF blank
<1>4. view \in [0 .. 0 -> [Products -> Listing]] /\ view[0] = blank
  BY <1>3
<1> HIDE DEF view
<1>5. Shown(view)
  BY <1>1, <1>2, <1>3, <1>4 DEF Shown, blank
<1>6. Follows(view)
  BY <1>1, <1>4 DEF Follows, InDoubt
<1>7. QED
  BY <1>5, <1>6 DEF ViewInv

\* The events of a command add their rows to those that there are.
LEMMA ViewGrows ==
    ASSUME IInv, NEW view, Shown(view), NEW c \in Commands, NEW es \in Seq(Event),
           Grown(c, es)
    PROVE  \E more : /\ Shown(more)'
                     /\ \A n \in 0 .. Len(tagged) : more[n] = view[n]
<1> DEFINE p0  == c.product
           old == Len(tagged)
           m   == Len(es)
           row == view[old][p0]
           r   == Rendering(row, es)
           with(k) == [view[old] EXCEPT ![p0] = r[k]]
           more == [n \in 0 .. old + m |-> IF n <= old THEN view[n] ELSE with(n - old)]
<1>1. /\ old \in Nat /\ m \in Nat /\ 1 <= m /\ m <= 3 /\ Len(tagged') = old + m
      /\ \A n \in 1 .. old : tagged'[n] = tagged[n]
      /\ \A k \in 1 .. m : tagged'[old + k].product = p0 /\ tagged'[old + k].event = es[k]
      /\ p0 \in Products /\ c.command \in Command
      /\ \E now \in Times : es = ProcessCommand(products[p0], c.command, now)
      /\ products'[p0] = Unfold(products[p0], es)[m]
      /\ \A p \in Products : p # p0 => products'[p] = products[p]
  BY DEF Grown
<1>2. /\ view \in [0 .. old -> [Products -> Listing]] /\ view[0] = [p \in Products |-> NoRow]
      /\ \A n \in 1 .. old :
            view[n] = [view[n - 1] EXCEPT ![tagged[n].product] = Project(@, tagged[n].event)]
      /\ \A p \in Products : Mirrors(view[old][p], products[p])
  BY DEF Shown
<1>3. view[old] \in [Products -> Listing] /\ row \in Listing
  BY <1>1, <1>2
<1>4. /\ \A k \in 1 .. m : r[k] \in Listing
      /\ r[1] = Project(row, es[1])
      /\ \A k \in 2 .. m : r[k] = Project(r[k - 1], es[k])
  <2> HIDE DEF row
  <2>1. QED
    BY <1>1, <1>3, RenderingSteps
<1>5. Mirrors(r[m], products'[p0])
  <2>1. PICK now \in Times : es = ProcessCommand(products[p0], c.command, now)
    BY <1>1
  <2>2. products[p0] \in State /\ Mirrors(row, products[p0])
    BY <1>1, <1>2 DEF IInv, TypeOK
  <2> HIDE DEF row, p0
  <2>3. Mirrors(Rendering(row, es)[Len(es)], Unfold(products[p0], es)[Len(es)])
    BY <1>1, <1>3, <2>1, <2>2, BatchMirrors, ProductCommandsAssumption
  <2>4. QED
    BY <1>1, <2>3
<1> HIDE DEF p0, row, r
<1>6. \A k \in 1 .. m : /\ with(k) \in [Products -> Listing] /\ with(k)[p0] = r[k]
                        /\ \A p \in Products : p # p0 => with(k)[p] = view[old][p]
  BY <1>1, <1>3, <1>4
<1>7. with(1) = [view[old] EXCEPT ![p0] = Project(@, es[1])]
  BY <1>4 DEF row
<1>8. \A k \in 2 .. m : with(k) = [with(k - 1) EXCEPT ![p0] = Project(@, es[k])]
  <2> SUFFICES ASSUME NEW k \in 2 .. m
               PROVE  with(k) = [with(k - 1) EXCEPT ![p0] = Project(@, es[k])]
    OBVIOUS
  <2>1. k - 1 \in 1 .. m /\ r[k] = Project(r[k - 1], es[k])
    BY <1>1, <1>4
  <2>2. with(k - 1)[p0] = r[k - 1]
    BY <1>6, <2>1
  <2> DEFINE f == view[old]
             x == r[k - 1]
             y == r[k]
  <2>3. Project([f EXCEPT ![p0] = x][p0], es[k]) = y
    BY <2>1, <2>2
  <2>4. [f EXCEPT ![p0] = y] = [[f EXCEPT ![p0] = x] EXCEPT ![p0] = y]
    <3> HIDE DEF f, x, y
    <3>1. QED
      OBVIOUS
  <2>5. QED
    BY <2>3, <2>4
<1> HIDE DEF with
<1>9. /\ \A n \in 0 .. old : more[n] = view[n]
      /\ \A k \in 1 .. m : more[old + k] = with(k)
  <2>1. \A n \in 0 .. old : n \in 0 .. old + m /\ n <= old
    BY <1>1
  <2>2. \A k \in 1 .. m : old + k \in 0 .. old + m /\ ~(old + k <= old) /\ (old + k) - old = k
    BY <1>1
  <2> HIDE DEF old, m
  <2>3. QED
    BY <2>1, <2>2
<1>10. more \in [0 .. old + m -> [Products -> Listing]]
  <2>1. \A n \in 0 .. old + m : n \in 0 .. old \/ n - old \in 1 .. m
    BY <1>1
  <2>2. ASSUME NEW n \in 0 .. old + m
        PROVE  (IF n <= old THEN view[n] ELSE with(n - old)) \in [Products -> Listing]
    BY <1>1, <1>2, <1>6, <2>1
  <2> HIDE DEF old, m
  <2>3. QED
    BY <2>2
<1> HIDE DEF more
<1>11. ASSUME NEW n \in 1 .. old + m
       PROVE  more[n] = [more[n - 1] EXCEPT ![tagged'[n].product] =
                                              Project(@, tagged'[n].event)]
  <2>1. CASE n \in 1 .. old
    <3>1. n \in 0 .. old /\ n - 1 \in 0 .. old
      BY <1>1, <2>1
    <3>2. more[n] = view[n] /\ more[n - 1] = view[n - 1] /\ tagged'[n] = tagged[n]
      BY <1>1, <1>9, <2>1, <3>1
    <3>3. QED
      BY <1>2, <2>1, <3>2
  <2>2. CASE n = old + 1
    <3>1. /\ 1 \in 1 .. m /\ n - 1 = old /\ old \in 0 .. old
      BY <1>1, <2>2
    <3>2. /\ more[n] = with(1) /\ more[n - 1] = view[old]
          /\ tagged'[n].product = p0 /\ tagged'[n].event = es[1]
      BY <1>1, <1>9, <2>2, <3>1
    <3>3. QED
      BY <1>7, <3>2
  <2>3. CASE n > old + 1
    <3> DEFINE k == n - old
    <3>1. k \in 2 .. m /\ k \in 1 .. m /\ k - 1 \in 1 .. m /\ n = old + k /\ n - 1 = old + (k - 1)
      BY <1>1, <2>3
    <3> HIDE DEF k
    <3>2. /\ more[n] = with(k) /\ more[n - 1] = with(k - 1)
          /\ tagged'[n].product = p0 /\ tagged'[n].event = es[k]
      BY <1>1, <1>9, <3>1
    <3>3. QED
      BY <1>8, <3>1, <3>2
  <2>4. QED
    BY <1>1, <2>1, <2>2, <2>3
<1>12. ASSUME NEW p \in Products PROVE Mirrors(more[old + m][p], products'[p])
  <2>1. more[old + m] = with(m) /\ m \in 1 .. m
    BY <1>1, <1>9
  <2>2. CASE p = p0
    BY <1>5, <1>6, <2>1, <2>2
  <2>3. CASE p # p0
    <3>1. with(m)[p] = view[old][p] /\ products'[p] = products[p]
      BY <1>1, <1>6, <2>1, <2>3
    <3>2. QED
      BY <1>2, <2>1, <3>1
  <2>4. QED
    BY <2>2, <2>3
<1>13. more[0] = view[0]
  BY <1>1, <1>9
<1>14. PICK g : g = more
  OBVIOUS
<1>15. Shown(g)'
  <2>1. /\ g \in [0 .. Len(tagged') -> [Products -> Listing]]
        /\ g[0] = [p \in Products |-> NoRow]
        /\ \A n \in 1 .. Len(tagged') :
              g[n] = [g[n - 1] EXCEPT ![tagged'[n].product] = Project(@, tagged'[n].event)]
        /\ \A p \in Products : Mirrors(g[Len(tagged')][p], products'[p])
    BY <1>1, <1>2, <1>10, <1>11, <1>12, <1>13, <1>14
  <2>2. QED
    BY <2>1 DEF Shown
<1>16. QED
  BY <1>9, <1>14, <1>15

\* Every step leaves the rows with the events, unless it counts one twice.
LEMMA ViewStep == ASSUME IInv, IInv', ViewInv, [Next]_vars PROVE ViewInv'
<1>1. PICK view : Shown(view) /\ Follows(view)
  BY DEF ViewInv
<1>2. /\ Len(tagged) \in Nat /\ Recoverable \in 0 .. Len(tagged)
      /\ \A n \in 1 .. Len(tagged) : applied[n] \in Nat
      /\ \A n \in 1 .. Len(tagged) : applied[n] > 0 => n <= Recoverable + 1
  BY ExcessFacts
<1>3. ASSUME NEW c \in Commands, NEW es \in Seq(Event), Grown(c, es),
             Recoverable' = Recoverable
      PROVE  ViewInv'
  <2> DEFINE old == Len(tagged)
             m   == Len(es)
  <2>1. PICK more : Shown(more)' /\ \A n \in 0 .. old : more[n] = view[n]
    BY <1>1, <1>3, ViewGrows
  <2>2. /\ old \in Nat /\ m \in Nat /\ Len(tagged') = old + m
        /\ \A n \in 1 .. old : applied'[n] = applied[n]
        /\ \A k \in 1 .. m : applied'[old + k] = 0
        /\ rows' = rows
    BY <1>3 DEF Grown
  <2>3. OnceEach' => OnceEach
    <3>1. \A n \in 1 .. old : n \in 1 .. old + m
      BY <2>2
    <3>2. QED
      BY <2>2, <3>1 DEF OnceEach
  <2>4. InDoubt' <=> InDoubt
    <3>1. CASE Recoverable = old
      <4>1. ~InDoubt
        BY <1>2, <3>1 DEF InDoubt
      <4>2. ~InDoubt'
        <5>1. Recoverable + 1 \in 1 .. old + m => 1 \in 1 .. m
          BY <2>2, <3>1
        <5>2. Recoverable + 1 \in 1 .. old + m => applied'[Recoverable + 1] = 0
          BY <2>2, <3>1, <5>1
        <5>3. QED
          BY <1>3, <2>2, <5>2 DEF InDoubt
      <4>3. QED
        BY <4>1, <4>2
    <3>2. CASE Recoverable # old
      <4>1. Recoverable + 1 \in 1 .. old /\ Recoverable + 1 \in 1 .. old + m
        BY <1>2, <2>2, <3>2
      <4>2. applied'[Recoverable + 1] = applied[Recoverable + 1]
        BY <2>2, <4>1
      <4>3. QED
        BY <1>3, <2>2, <4>1, <4>2 DEF InDoubt
    <3>3. QED
      BY <3>1, <3>2
  <2>5. /\ more[Recoverable] = view[Recoverable]
        /\ InDoubt => more[Recoverable + 1] = view[Recoverable + 1]
    <3>1. \A n \in 1 .. old : n \in 0 .. old
      OBVIOUS
    <3>2. QED
      BY <1>2, <2>1, <3>1 DEF InDoubt
  <2>6. Follows(more)'
    BY <1>1, <1>3, <2>2, <2>3, <2>4, <2>5 DEF Follows
  <2>7. QED
    BY <2>1, <2>6 DEF ViewInv
<1>4. CASE Renders
  <2>0. PICK n \in 1 .. Len(tagged) : n = cursor
    BY <1>4 DEF Renders
  <2>1. /\ n = Recoverable + 1 /\ tagged' = tagged /\ products' = products
        /\ Recoverable' = Recoverable
        /\ \A k \in 1 .. Len(tagged) : k # n => applied'[k] = applied[k]
        /\ \/ applied' = applied /\ rows' = rows
           \/ /\ applied'[n] = applied[n] + 1
              /\ rows' = [rows EXCEPT ![tagged[n].product] = Project(@, tagged[n].event)]
    BY <1>4, <2>0 DEF Renders
  <2>2. Shown(view)'
    BY <1>1, <2>1 DEF Shown
  <2>3. CASE applied' = applied /\ rows' = rows
    <3>1. (InDoubt' <=> InDoubt) /\ (OnceEach' <=> OnceEach)
      BY <2>1, <2>3 DEF InDoubt, OnceEach
    <3>2. Follows(view)'
      BY <1>1, <2>1, <2>3, <3>1 DEF Follows
    <3>3. QED
      BY <2>2, <3>2 DEF ViewInv
  <2>4. CASE /\ applied'[n] = applied[n] + 1
             /\ rows' = [rows EXCEPT ![tagged[n].product] = Project(@, tagged[n].event)]
    <3>1. ASSUME OnceEach' PROVE rows' = view[Recoverable + 1] /\ InDoubt'
      <4>1. applied'[n] <= 1 /\ applied[n] = 0
        BY <1>2, <2>1, <2>4, <3>1 DEF OnceEach
      <4>2. OnceEach
        BY <2>1, <3>1, <4>1 DEF OnceEach
      <4>3. ~InDoubt
        BY <2>1, <4>1 DEF InDoubt
      <4>4. rows = view[Recoverable] /\ Recoverable = n - 1
        BY <1>1, <1>2, <2>1, <4>2, <4>3 DEF Follows
      <4>5. rows' = view[n]
        BY <1>1, <2>4, <4>4 DEF Shown
      <4>6. InDoubt'
        BY <2>1, <2>4, <4>1 DEF InDoubt
      <4>7. QED
        BY <2>1, <4>5, <4>6
    <3>2. Follows(view)'
      BY <2>1, <3>1 DEF Follows
    <3>3. QED
      BY <2>2, <3>2 DEF ViewInv
  <2>5. QED
    BY <2>1, <2>3, <2>4
<1>5. CASE Persists
  <2>0. PICK n \in 1 .. Len(tagged) : n = cursor
    BY <1>5 DEF Persists
  <2>1. /\ n = Recoverable + 1 /\ UNCHANGED << tagged, products, rows, applied >>
        /\ Recoverable' = n
        /\ Rendered(tagged[n].event) => applied[n] > 0
    BY <1>5, <2>0 DEF Persists
  <2>2. Shown(view)'
    BY <1>1, <2>1 DEF Shown
  <2>3. ~InDoubt'
    BY <1>2, <2>1 DEF InDoubt
  <2>4. OnceEach' => OnceEach
    BY <2>1 DEF OnceEach
  <2>5. ASSUME OnceEach PROVE rows = view[n]
    <3>1. CASE InDoubt
      BY <1>1, <2>1, <2>5, <3>1 DEF Follows
    <3>2. CASE ~InDoubt
      <4>1. ~Rendered(tagged[n].event)
        BY <2>1, <3>2 DEF InDoubt
      <4>2. rows = view[n - 1] /\ n - 1 \in 0 .. Len(tagged)
        BY <1>1, <1>2, <2>1, <2>5, <3>2 DEF Follows
      <4>3. /\ view[n - 1] \in [Products -> Listing]
            /\ view[n] = [view[n - 1] EXCEPT ![tagged[n].product] =
                                               Project(@, tagged[n].event)]
        BY <1>1, <4>2 DEF Shown
      <4>4. \A row : Project(row, tagged[n].event) = row
        BY <4>1 DEF Project, Rendered
      <4>5. view[n] = view[n - 1]
        BY <4>3, <4>4
      <4>6. QED
        BY <4>2, <4>5
    <3>3. QED
      BY <3>1, <3>2
  <2>6. Follows(view)'
    BY <2>1, <2>3, <2>4, <2>5 DEF Follows
  <2>7. QED
    BY <2>2, <2>6 DEF ViewInv
<1>6. CASE Waits
  <2>1. UNCHANGED << tagged, products, rows, applied >> /\ Recoverable' = Recoverable
    BY <1>6 DEF Waits
  <2>2. (InDoubt' <=> InDoubt) /\ (OnceEach' <=> OnceEach)
    BY <2>1 DEF InDoubt, OnceEach
  <2>3. Shown(view)' /\ Follows(view)'
    BY <1>1, <2>1, <2>2 DEF Shown, Follows
  <2>4. QED
    BY <2>3 DEF ViewInv
<1>7. QED
  BY <1>3, <1>4, <1>5, <1>6, StepKinds

-----------------------------------------------------------------------------
(* The theorems.                                                           *)

\* The invariant holds in every reachable state.
THEOREM Invariance == Spec => []IInv
<1>1. IInv /\ [Next]_vars => IInv'
  BY StepInvariant
<1>2. QED
  BY InitInvariant, <1>1, PTL DEF Spec

\* Every variable of the projector has its type, for all products, commands and failures.
THEOREM TypeCorrect == Spec => []TypeOK
<1>1. IInv => TypeOK
  BY DEF IInv
<1>2. QED
  BY Invariance, <1>1, PTL

\* However attempts, restarts, crashes, snapshots and deletions fall together, an event
\* that a recovery would not read again is in the rows.
THEOREM NoEventIsSkipped == Spec => []NothingSkipped
<1>1. IInv => NothingSkipped
  BY DEF IInv
<1>2. QED
  BY Invariance, <1>1, PTL

\* Only the event after the recoverable offset can have been applied without a record of it.
THEOREM OneEventInDoubt == Spec => []OnlyTheLastIsInDoubt
<1>1. IInv => OnlyTheLastIsInDoubt
  BY DEF IInv
<1>2. QED
  BY Invariance, <1>1, PTL

\* Neither a snapshot nor a deletion, in whatever order they are carried out, takes the
\* offset back from which the projector would resume.
THEOREM OffsetIsKept == Spec => OffsetNeverRegresses
<1>1. IInv /\ [Next]_vars => [Recoverable' >= Recoverable]_vars
  BY StepInvariant
<1>2. QED
  BY Invariance, <1>1, PTL DEF Spec, OffsetNeverRegresses

\* Whatever fails, in whatever phase, and however often: no event but the one in hand can be
\* counted again, and the counts that are too many are no more than the failures.
THEOREM DoubtStaysBounded == Spec => []DoubtIsBounded
<1>1. IInv /\ CostInv => DoubtIsBounded
  <2> SUFFICES ASSUME IInv, CostInv PROVE DoubtIsBounded
    OBVIOUS
  <2>1. /\ Total(Excesses, Len(tagged)) \in Int /\ Doubt \in {0, 1} /\ failures \in Nat
        /\ Total(Excesses, Len(tagged)) + Doubt <= failures
    BY ExcessFacts DEF CostInv
  <2>2. Total(Excesses, Len(tagged)) <= failures
    BY <2>1
  <2>3. QED
    BY <2>2 DEF DoubtIsBounded, DoubleCountCostsAFailure, Excesses, IInv
<1>2. Init => CostInv
  BY InitCost
<1>3. IInv /\ IInv' /\ CostInv /\ [Next]_vars => CostInv'
  BY CostStep
<1>4. QED
  BY Invariance, <1>1, <1>2, <1>3, PTL DEF Spec

\* The read side and the write side add up the totals of a product from different events. Once
\* the projector has caught up, and unless an event was counted twice, the rows and the
\* products agree, for all products, commands and failures.
THEOREM ReadSideAgrees == Spec => []ReadModelAgrees
<1>1. IInv /\ ViewInv => ReadModelAgrees
  <2> SUFFICES ASSUME IInv, ViewInv, CaughtUp, OnceEach, NEW p \in Products PROVE Shows(p)
    BY DEF ReadModelAgrees, OnceEach
  <2>1. PICK view : Shown(view) /\ Follows(view)
    BY DEF ViewInv
  <2>2. Recoverable = Len(tagged)
    BY DEF CaughtUp, IInv, ActorInv
  <2>3. ~InDoubt
    BY <2>2, ExcessFacts DEF InDoubt
  <2>4. rows = view[Len(tagged)]
    BY <2>1, <2>2, <2>3 DEF Follows
  <2>5. Mirrors(rows[p], products[p])
    BY <2>1, <2>4 DEF Shown
  <2>6. QED
    BY <2>5 DEF Mirrors, Shows, IsEmpty
<1>2. Init => ViewInv
  BY InitView
<1>3. IInv /\ IInv' /\ ViewInv /\ [Next]_vars => ViewInv'
  BY ViewStep
<1>4. QED
  BY Invariance, <1>1, <1>2, <1>3, PTL DEF Spec

\* The rows are exact once the projector has caught up, with the condition that this needs:
\* only a failure between the row and the offset makes it count an event again.
ExactUnlessItFails == failures = 0 => ReadModelIsExact

\* While nothing has failed, a read side that has caught up shows the products, for every
\* number of products and commands; and no event is ever counted more often than once and
\* once for each failure.
THEOREM OnlyAFailureCountsTwice ==
    Spec => [](ExactUnlessItFails /\ \A n \in 1 .. Len(tagged) : applied[n] <= 1 + failures)
<1>1. IInv /\ DoubtIsBounded /\ ReadModelAgrees
        => ExactUnlessItFails /\ \A n \in 1 .. Len(tagged) : applied[n] <= 1 + failures
  <2> SUFFICES ASSUME IInv, DoubtIsBounded, ReadModelAgrees
               PROVE  ExactUnlessItFails
                      /\ \A n \in 1 .. Len(tagged) : applied[n] <= 1 + failures
    OBVIOUS
  <2>1. /\ Len(tagged) \in Nat /\ failures \in Nat
        /\ \A n \in 1 .. Len(tagged) : applied[n] \in Nat
    BY ExcessFacts
  <2>2. Total(Excesses, Len(tagged)) <= failures
    BY DEF DoubtIsBounded, DoubleCountCostsAFailure, Excesses
  <2>3. \A n \in 1 .. Len(tagged) :
           /\ Excesses[n] \in Nat
           /\ Excesses[n] = IF applied[n] > 1 THEN applied[n] - 1 ELSE 0
    BY <2>1 DEF Excesses, Excess
  <2>4. /\ Total(Excesses, Len(tagged)) \in Nat
        /\ \A n \in 1 .. Len(tagged) : Excesses[n] <= Total(Excesses, Len(tagged))
    BY <2>1, <2>3, TotalOfNaturals
  <2>5. \A n \in 1 .. Len(tagged) : applied[n] <= 1 + failures
    BY <2>1, <2>2, <2>3, <2>4
  <2>6. failures = 0 => \A n \in 1 .. Len(tagged) : applied[n] <= 1
    BY <2>5
  <2>7. QED
    BY <2>5, <2>6 DEF ExactUnlessItFails, ReadModelIsExact, ReadModelAgrees
<1>2. QED
  BY Invariance, DoubtStaysBounded, ReadSideAgrees, <1>1, PTL

=============================================================================
