------------------------- MODULE ProductStateProofs -------------------------
(***************************************************************************)
(* What ProcessCommand and ProcessEvent return, for every command, event   *)
(* and state.  The proofs about the actors that use them rest on these     *)
(* lemmas and do not open the two operators again.                         *)
(***************************************************************************)
EXTENDS ProductState, TLAPS, WellFoundedInduction

\* Every event of a product, whatever the sign of its quantity, keeps the state
\* well typed, and what was sold never shrinks (ProcessEvent adds Math.Abs).
LEMMA ProcessEventType ==
    ASSUME NEW s \in State, NEW e \in Event
    PROVE  ProcessEvent(s, e) \in State /\ ProcessEvent(s, e).sold >= s.sold
<1>1. CASE e \in CreatedEvent
  <2>1. ProcessEvent(s, e) = [s EXCEPT !.created = TRUE, !.price = e.price]
    BY <1>1 DEF ProcessEvent, CreatedEvent
  <2>2. ProcessEvent(s, e) \in State
    BY <1>1, <2>1 DEF State, CreatedEvent
  <2>3. ProcessEvent(s, e).sold = s.sold /\ s.sold \in Nat
    BY <2>1 DEF State
  <2>4. QED
    BY <2>2, <2>3
<1>2. CASE e \in ChangedEvent
  <2> DEFINE sold == IF e.reason = "Fulfillment" THEN s.sold + Abs(e.qty)
                                                 ELSE s.sold
  <2>1. ProcessEvent(s, e) = [s EXCEPT !.remaining = s.remaining + e.qty,
                                       !.sold = sold,
                                       !.changes = SortedAdd(s.changes, e)]
    BY <1>2 DEF ProcessEvent, ChangedEvent, State
  <2>2. s.remaining + e.qty \in Int
    BY <1>2 DEF State, ChangedEvent
  <2>3. sold \in Nat /\ sold >= s.sold
    BY <1>2 DEF State, ChangedEvent, Abs
  <2>4. SortedAdd(s.changes, e) \in SUBSET ChangedEvent
    BY <1>2 DEF State, SortedAdd
  <2> HIDE DEF sold
  <2>5. QED
    BY <2>1, <2>2, <2>3, <2>4 DEF State
<1>3. CASE e \in WarningEvent
  <2>1. ProcessEvent(s, e) = [s EXCEPT !.warnings = SortedAdd(s.warnings, e)]
    BY <1>3 DEF ProcessEvent, WarningEvent, State
  <2>2. SortedAdd(s.warnings, e) \in SUBSET WarningEvent
    BY <1>3 DEF State, SortedAdd
  <2>3. QED
    BY <2>1, <2>2 DEF State
<1>4. CASE e \in SoldEvent
  <2>1. ProcessEvent(s, e) = [s EXCEPT !.orders = SortedAdd(s.orders, e),
                                       !.revenue = s.revenue + TotalPrice(e)]
    BY <1>4 DEF ProcessEvent, SoldEvent, State
  <2>2. SortedAdd(s.orders, e) \in SUBSET SoldEvent
    BY <1>4 DEF State, SortedAdd
  <2>3. e.qty \in Int /\ e.price \in Nat
    BY <1>4 DEF SoldEvent
  <2>4. TotalPrice(e) \in Int
    BY <2>3 DEF TotalPrice
  <2>5. s.revenue + TotalPrice(e) \in Int
    BY <2>4 DEF State
  <2>6. ProcessEvent(s, e) \in State
    BY <2>1, <2>2, <2>5 DEF State
  <2>7. ProcessEvent(s, e).sold = s.sold /\ s.sold \in Nat
    BY <2>1 DEF State
  <2>8. QED
    BY <2>6, <2>7
<1>5. QED
  BY <1>1, <1>2, <1>3, <1>4 DEF Event

\* A command gives rise to at most three events, and a purchase that gives rise
\* to any ends with the sale of its order.
LEMMA ProcessCommandType ==
    ASSUME NEW s \in State, NEW cmd \in Command, NEW now \in Times
    PROVE  /\ ProcessCommand(s, cmd, now) \in Seq(Event)
           /\ Len(ProcessCommand(s, cmd, now)) <= 3
<1> DEFINE es == ProcessCommand(s, cmd, now)
<1>1. CASE cmd.type = "create" /\ IsEmpty(s)
  <2>1. cmd.price \in Nat /\ cmd.qty \in Nat
    BY <1>1 DEF Command
  <2>2. es = << Created(cmd.price), Changed(cmd.qty, now, "SupplyIncrease") >>
    BY <1>1 DEF ProcessCommand, CreateEvents
  <2>3. Created(cmd.price) \in Event
    BY <2>1 DEF Created, Event, CreatedEvent
  <2>4. Changed(cmd.qty, now, "SupplyIncrease") \in Event
    BY <2>1 DEF Changed, Event, ChangedEvent
  <2>5. QED
    BY <2>2, <2>3, <2>4
<1>2. CASE cmd.type = "supply" /\ ~IsEmpty(s)
  <2>1. cmd.qty \in Int
    BY <1>2 DEF Command
  <2>2. es = << Changed(cmd.qty, now, "SupplyIncrease") >>
    BY <1>2 DEF ProcessCommand, SupplyEvents
  <2>3. Changed(cmd.qty, now, "SupplyIncrease") \in Event
    BY <2>1 DEF Changed, Event, ChangedEvent
  <2>4. QED
    BY <2>2, <2>3
<1>3. CASE cmd.type = "purchase" /\ ~IsEmpty(s) /\ s.price > 0
  <2> DEFINE left    == s.remaining - cmd.qty
             reason  == IF left <= 0 THEN "NoSupply" ELSE "LowSupply"
             warning == IF left <= LowInventoryWarningThreshold
                        THEN << Warning(reason, cmd.at) >> ELSE << >>
             first   == Changed(-cmd.qty, cmd.at, "Fulfillment")
             last    == Sold(cmd, s.price, left <= 0)
  <2>1. cmd.qty \in Int /\ cmd.at \in Times /\ cmd.id \in CommandIds
    BY <1>3 DEF Command
  <2>2. es = << first >> \o warning \o << last >>
    BY <1>3 DEF ProcessCommand, PurchaseEvents
  <2>3. first \in Event
    BY <2>1 DEF Changed, Event, ChangedEvent
  <2>4. warning \in Seq(Event) /\ Len(warning) \in {0, 1}
    <3>1. Warning(reason, cmd.at) \in Event
      BY <2>1 DEF Warning, Event, WarningEvent
    <3>2. QED
      BY <3>1
  <2>5. last \in Event
    BY <2>1 DEF Sold, Event, SoldEvent, State
  <2> HIDE DEF first, warning, last
  <2>6. QED
    BY <2>2, <2>3, <2>4, <2>5
<1>4. CASE es = << >>
  BY <1>4
<1>5. QED
  BY <1>1, <1>2, <1>3, <1>4 DEF ProcessCommand

\* The last event of an accepted purchase is the sale of its order.
LEMMA PurchaseEndsInSale ==
    ASSUME NEW s \in State, NEW cmd \in Command, NEW now \in Times,
           cmd.type = "purchase", ProcessCommand(s, cmd, now) # << >>
    PROVE  LET es == ProcessCommand(s, cmd, now) IN
           es[Len(es)].type = "sold" /\ es[Len(es)].order = cmd.id
<1> DEFINE left    == s.remaining - cmd.qty
           reason  == IF left <= 0 THEN "NoSupply" ELSE "LowSupply"
           warning == IF left <= LowInventoryWarningThreshold
                      THEN << Warning(reason, cmd.at) >> ELSE << >>
           first   == Changed(-cmd.qty, cmd.at, "Fulfillment")
           last    == Sold(cmd, s.price, left <= 0)
           es      == ProcessCommand(s, cmd, now)
<1>1. es = << first >> \o warning \o << last >>
  BY DEF ProcessCommand, PurchaseEvents
<1>2. last.type = "sold" /\ last.order = cmd.id
  BY DEF Sold
<1>3. warning = << >> \/ warning = << Warning(reason, cmd.at) >>
  OBVIOUS
<1> HIDE DEF first, warning, last, es
<1>4. es[Len(es)] = last
  <2>1. CASE warning = << >>
    BY <1>1, <2>1
  <2>2. CASE warning = << Warning(reason, cmd.at) >>
    BY <1>1, <2>2
  <2>3. QED
    BY <1>3, <2>1, <2>2
<1>5. QED
  BY <1>2, <1>4 DEF es

\* What a purchase's events are joined to.
LEMMA Joined ==
    ASSUME NEW a, NEW b, NEW c
    PROVE  /\ LET es == << a >> \o << >> \o << c >> IN
              Len(es) = 2 /\ es[1] = a /\ es[2] = c
           /\ LET es == << a >> \o << b >> \o << c >> IN
              Len(es) = 3 /\ es[1] = a /\ es[2] = b /\ es[3] = c
OBVIOUS

\* A sale closes its purchase: the stock it leaves was subtracted first, and a
\* warning comes between when that stock is at the threshold or below.
LEMMA SaleClosesPurchase ==
    ASSUME NEW s \in State, NEW cmd \in Command, NEW now \in Times, NEW k,
           k \in 1 .. Len(ProcessCommand(s, cmd, now)),
           ProcessCommand(s, cmd, now)[k].type = "sold"
    PROVE  LET es   == ProcessCommand(s, cmd, now)
               left == s.remaining - cmd.qty
           IN  /\ cmd.qty \in Int
               /\ es[k].backOrdered = (left <= 0)
               /\ es[1].type = "changed" /\ es[1].qty = -cmd.qty
               /\ \/ k = 2 /\ ~(left <= LowInventoryWarningThreshold)
                  \/ /\ k = 3 /\ left <= LowInventoryWarningThreshold
                     /\ es[2].type = "warning" /\ es[2].at = es[3].at
                     /\ (es[2].reason = "NoSupply") = (left <= 0)
<1> DEFINE es      == ProcessCommand(s, cmd, now)
           left    == s.remaining - cmd.qty
           reason  == IF left <= 0 THEN "NoSupply" ELSE "LowSupply"
           warning == IF left <= LowInventoryWarningThreshold
                      THEN << Warning(reason, cmd.at) >> ELSE << >>
           first   == Changed(-cmd.qty, cmd.at, "Fulfillment")
           last    == Sold(cmd, s.price, left <= 0)
<1>1. /\ \A price : Created(price).type = "created"
      /\ \A qty, at, r : Changed(qty, at, r).type = "changed"
  BY DEF Created, Changed
<1>2. cmd.type = "purchase" /\ ~IsEmpty(s) /\ s.price > 0
  <2>1. CASE cmd.type = "create" /\ IsEmpty(s)
    <3>1. es = << Created(cmd.price), Changed(cmd.qty, now, "SupplyIncrease") >>
      BY <2>1 DEF ProcessCommand, CreateEvents
    <3> HIDE DEF es
    <3>2. Len(es) = 2 /\ es[1].type = "created" /\ es[2].type = "changed"
      BY <1>1, <3>1
    <3>3. k = 1 \/ k = 2
      BY <3>2 DEF es
    <3>4. es[k].type = "sold"
      BY DEF es
    <3>5. QED
      BY <3>2, <3>3, <3>4
  <2>2. CASE cmd.type = "supply" /\ ~IsEmpty(s)
    <3>1. es = << Changed(cmd.qty, now, "SupplyIncrease") >>
      BY <2>2 DEF ProcessCommand, SupplyEvents
    <3> HIDE DEF es
    <3>2. Len(es) = 1 /\ es[1].type = "changed"
      BY <1>1, <3>1
    <3>3. k = 1 /\ es[k].type = "sold"
      BY <3>2 DEF es
    <3>4. QED
      BY <3>2, <3>3
  <2>3. CASE es = << >>
    BY <2>3
  <2>4. QED
    BY <2>1, <2>2, <2>3 DEF ProcessCommand
<1>3. es = << first >> \o warning \o << last >>
  BY <1>2 DEF ProcessCommand, PurchaseEvents
<1>4. /\ first.type = "changed" /\ first.qty = -cmd.qty
      /\ last.type = "sold" /\ last.backOrdered = (left <= 0)
      /\ last.at = cmd.at
  <2>1. first.type = "changed" /\ first.qty = -cmd.qty
    BY DEF Changed
  <2> DEFINE b == left <= 0
  <2>2. last = Sold(cmd, s.price, b)
    OBVIOUS
  <2> HIDE DEF last, b
  <2>3. last.type = "sold" /\ last.backOrdered = b /\ last.at = cmd.at
    BY Zenon, <2>2 DEF Sold
  <2>4. QED
    BY <2>1, <2>3 DEF b
<1>5. /\ Warning(reason, cmd.at).type = "warning"
      /\ Warning(reason, cmd.at).at = cmd.at
      /\ (Warning(reason, cmd.at).reason = "NoSupply") = (left <= 0)
  BY DEF Warning
<1>6. cmd.qty \in Int
  BY <1>2 DEF Command
<1>7. k \in 1 .. Len(es) /\ es[k].type = "sold"
  OBVIOUS
<1>8. CASE left <= LowInventoryWarningThreshold
  <2> DEFINE middle == Warning(reason, cmd.at)
  <2>1. warning = << middle >>
    BY <1>8
  <2>2. middle.type = "warning" /\ middle.at = cmd.at
        /\ (middle.reason = "NoSupply") = (left <= 0)
    BY <1>5
  <2> HIDE DEF es, first, last, warning, middle, left
  <2>3. es = << first >> \o << middle >> \o << last >>
    BY <1>3, <2>1
  <2>4. Len(es) = 3 /\ es[1] = first /\ es[2] = middle /\ es[3] = last
    BY <2>3, Joined
  <2>5. k = 3
    BY <1>4, <1>7, <2>2, <2>4
  <2>6. QED
    BY <1>4, <1>6, <1>8, <2>2, <2>4, <2>5 DEF es, left
<1>9. CASE ~(left <= LowInventoryWarningThreshold)
  <2>1. warning = << >>
    BY <1>9
  <2> HIDE DEF es, first, last, warning, left
  <2>2. es = << first >> \o << >> \o << last >>
    BY <1>3, <2>1
  <2>3. Len(es) = 2 /\ es[1] = first /\ es[2] = last
    BY <2>2, Joined
  <2>4. k = 2
    BY <1>4, <1>7, <2>3
  <2>5. QED
    BY <1>4, <1>6, <1>9, <2>3, <2>4 DEF es, left
<1>10. QED
  BY <1>8, <1>9

\* What an event does to the totals.
LEMMA ProcessEventTotals ==
    ASSUME NEW s \in State, NEW e \in Event
    PROVE  LET t == ProcessEvent(s, e) IN
           /\ e.type = "changed" =>
                /\ t.remaining = s.remaining + e.qty
                /\ t.sold = IF e.reason = "Fulfillment" THEN s.sold + Abs(e.qty)
                                                        ELSE s.sold
           /\ e.type # "changed" => t.remaining = s.remaining /\ t.sold = s.sold
           /\ t.revenue = IF e.type = "sold" THEN s.revenue + TotalPrice(e)
                                             ELSE s.revenue
<1>1. CASE e \in CreatedEvent
  <2>1. ProcessEvent(s, e) = [s EXCEPT !.created = TRUE, !.price = e.price]
    BY <1>1 DEF ProcessEvent, CreatedEvent
  <2>2. e.type = "created"
    BY <1>1 DEF CreatedEvent
  <2>3. QED
    BY <2>1, <2>2 DEF State
<1>2. CASE e \in ChangedEvent
  <2> DEFINE sold == IF e.reason = "Fulfillment" THEN s.sold + Abs(e.qty)
                                                 ELSE s.sold
  <2>1. ProcessEvent(s, e) = [s EXCEPT !.remaining = s.remaining + e.qty,
                                       !.sold = sold,
                                       !.changes = SortedAdd(s.changes, e)]
    BY <1>2 DEF ProcessEvent, ChangedEvent, State
  <2>2. e.type = "changed"
    BY <1>2 DEF ChangedEvent
  <2> HIDE DEF sold
  <2>3. LET t == ProcessEvent(s, e) IN
        t.remaining = s.remaining + e.qty /\ t.sold = sold /\ t.revenue = s.revenue
    BY <2>1 DEF State
  <2>4. QED
    BY <2>2, <2>3 DEF sold
<1>3. CASE e \in WarningEvent
  <2>1. ProcessEvent(s, e) = [s EXCEPT !.warnings = SortedAdd(s.warnings, e)]
    BY <1>3 DEF ProcessEvent, WarningEvent, State
  <2>2. e.type = "warning"
    BY <1>3 DEF WarningEvent
  <2>3. QED
    BY <2>1, <2>2 DEF State
<1>4. CASE e \in SoldEvent
  <2>1. ProcessEvent(s, e) = [s EXCEPT !.orders = SortedAdd(s.orders, e),
                                       !.revenue = s.revenue + TotalPrice(e)]
    BY <1>4 DEF ProcessEvent, SoldEvent, State
  <2>2. e.type = "sold"
    BY <1>4 DEF SoldEvent
  <2>3. QED
    BY <2>1, <2>2 DEF State
<1>5. QED
  BY <1>1, <1>2, <1>3, <1>4 DEF Event

\* Unfold lists the states of a batch one event after the other.
LEMMA UnfoldSteps ==
    ASSUME NEW s \in State, NEW es \in Seq(Event), es # << >>, Len(es) <= 3
    PROVE  /\ Unfold(s, es) \in Seq(State)
           /\ Len(Unfold(s, es)) = Len(es)
           /\ Unfold(s, es)[1] = ProcessEvent(s, es[1])
           /\ \A k \in 2 .. Len(es) :
                Unfold(s, es)[k] = ProcessEvent(Unfold(s, es)[k - 1], es[k])
<1> DEFINE s1 == ProcessEvent(s, es[1])
           s2 == ProcessEvent(s1, es[2])
           s3 == ProcessEvent(s2, es[3])
           u  == Unfold(s, es)
<1>0. Len(es) \in Nat /\ 1 <= Len(es) /\ Len(es) <= 3
  OBVIOUS
<1>1. u = [k \in 1 .. Len(es) |-> IF k = 1 THEN s1 ELSE IF k = 2 THEN s2 ELSE s3]
  BY DEF Unfold
<1>2. s1 \in State
  BY <1>0, ProcessEventType
<1>3. Len(es) >= 2 => s2 \in State
  BY <1>0, <1>2, ProcessEventType
<1>4. Len(es) >= 3 => s3 \in State
  BY <1>0, <1>3, ProcessEventType
<1>5. \A k \in 1 .. Len(es) : u[k] \in State
  <2> HIDE DEF s1, s2, s3, u
  <2>1. QED
    BY <1>0, <1>1, <1>2, <1>3, <1>4
<1>6. u[1] = s1 /\ (Len(es) >= 2 => u[2] = s2) /\ (Len(es) >= 3 => u[3] = s3)
  <2> HIDE DEF s1, s2, s3, u
  <2>1. QED
    BY <1>0, <1>1
<1>7. u \in Seq(State) /\ Len(u) = Len(es)
  <2> HIDE DEF s1, s2, s3
  <2>1. Len(es) \in Nat /\ u = [k \in 1 .. Len(es) |-> u[k]]
    BY <1>1
  <2> HIDE DEF u
  <2>2. QED
    BY <1>5, <2>1
<1>8. \A k \in 2 .. Len(es) : u[k] = ProcessEvent(u[k - 1], es[k])
  <2> SUFFICES ASSUME NEW k \in 2 .. Len(es)
               PROVE  u[k] = ProcessEvent(u[k - 1], es[k])
    OBVIOUS
  <2>1. k = 2 \/ k = 3
    BY <1>0
  <2>2. CASE k = 2
    <3>1. u[2] = s2 /\ u[1] = s1
      BY <1>6, <2>2
    <3>2. QED
      BY <2>2, <3>1
  <2>3. CASE k = 3
    <3>1. u[3] = s3 /\ u[2] = s2
      BY <1>6, <2>3
    <3>2. QED
      BY <2>3, <3>1
  <2>4. QED
    BY <2>1, <2>2, <2>3
<1>9. QED
  BY <1>6, <1>7, <1>8

-----------------------------------------------------------------------------
(* Sums.                                                                   *)

\* A set of natural numbers without a least element is empty: the principle of
\* induction on the natural numbers, without an operator as a parameter.
LEMMA NoLeast ==
    ASSUME NEW T, T \subseteq Nat, \A n \in T : \E m \in T : m < n
    PROVE  T = {}
<1> SUFFICES ASSUME T # {} PROVE FALSE
  OBVIOUS
<1> DEFINE R == OpToRel(<, Nat)
<1>1. IsWellFoundedOn(R, Nat)
  BY NatLessThanWellFounded
<1>2. \A m, n \in Nat : m < n => << m, n >> \in R
  BY DEF OpToRel
<1> HIDE DEF R
<1>3. PICK x \in T : \A y \in T : ~(<< y, x >> \in R)
  BY <1>1, WFMin
<1>4. PICK m \in T : m < x
  OBVIOUS
<1>5. QED
  BY <1>2, <1>3, <1>4

\* h lists the running totals of the first n amounts.
Running(h, amount, n) ==
    /\ \A k \in 0 .. n : h[k] \in Int
    /\ h[0] = 0 /\ \A k \in 1 .. n : h[k] = h[k - 1] + amount[k]

\* A running total is the sum of the amounts.
LEMMA TotalIs ==
    ASSUME NEW n \in Nat, NEW amount, NEW h, Running(h, amount, n)
    PROVE  Total(amount, n) = h[n]
<1> DEFINE Def(g) == g = [k \in 0 .. n |-> IF k = 0 THEN 0
                                           ELSE g[k - 1] + amount[k]]
           sum == CHOOSE g : Def(g)
           H   == [k \in 0 .. n |-> h[k]]
<1>0. /\ \A k \in 0 .. n : h[k] \in Int
      /\ h[0] = 0 /\ \A k \in 1 .. n : h[k] = h[k - 1] + amount[k]
  BY DEF Running
<1>1. Total(amount, n) = sum[n]
  BY DEF Total
<1>2. Def(H)
  <2> SUFFICES ASSUME NEW k \in 0 .. n
               PROVE  h[k] = IF k = 0 THEN 0 ELSE H[k - 1] + amount[k]
    BY Zenon
  <2>1. k = 0 \/ (k \in 1 .. n /\ k - 1 \in 0 .. n)
    OBVIOUS
  <2>2. QED
    BY <1>0, <2>1
<1>3. Def(sum)
  BY Zenon, <1>2
<1> HIDE DEF sum
<1>4. \A k \in 0 .. n : sum[k] = IF k = 0 THEN 0 ELSE sum[k - 1] + amount[k]
  <2> HIDE DEF Def
  <2>1. sum = [k \in 0 .. n |-> IF k = 0 THEN 0 ELSE sum[k - 1] + amount[k]]
    BY <1>3 DEF Def
  <2>2. QED
    BY Zenon, <2>1
<1> DEFINE T == {k \in 0 .. n : sum[k] # h[k]}
<1>5. \A k \in T : \E m \in T : m < k
  <2> TAKE k \in T
  <2>1. k # 0
     BY <1>0, <1>4
  <2>2. k - 1 \in 0 .. n /\ k \in 1 .. n
     BY <2>1
  <2>3. sum[k] = sum[k-1] + amount[k] /\ h[k] = h[k - 1] + amount[k]
     BY <1>0, <1>4, <2>1, <2>2
  <2>4. sum[k-1] # h[k-1]
     BY <2>3
  <2>5. k - 1 \in T /\ k - 1 < k
    BY <2>2, <2>4
  <2> QED BY <2>5
<1>6. T = {}
  <2>1. T \subseteq Nat
    OBVIOUS
  <2> HIDE DEF T
  <2>2. QED
    BY <1>5, <2>1, NoLeast
<1>7. n \in 0 .. n
  OBVIOUS
<1>8. sum[n] = h[n]
  BY <1>6, <1>7
<1>9. QED
  BY <1>1, <1>8

\* Every amount has running totals.
LEMMA TotalsExist ==
    ASSUME NEW n \in Nat, NEW amount, \A k \in 1 .. n : amount[k] \in Int
    PROVE  \E h : Running(h, amount, n)
<1> DEFINE T == {m \in 0 .. n : ~ \E h : Running(h, amount, m)}
<1>1. \E h : Running(h, amount, 0)
  <2>1. Running([k \in 0 .. 0 |-> 0], amount, 0)
    BY DEF Running
  <2>2. QED
    BY <2>1
<1>2. ASSUME NEW m \in T PROVE m - 1 \in T
  <2>0. m \in 0 .. n /\ ~ \E h : Running(h, amount, m)
    BY <1>2
  <2>1. m \in 1 .. n /\ m - 1 \in 0 .. n
    <3>1. m # 0
      BY <1>1, <2>0
    <3>2. QED
      BY <2>0, <3>1
  <2>2. ASSUME NEW h, Running(h, amount, m - 1) PROVE FALSE
    <3> DEFINE g == [k \in 0 .. m |-> IF k = m THEN h[m - 1] + amount[m] ELSE h[k]]
    <3>1. /\ \A k \in 0 .. m - 1 : h[k] \in Int
          /\ h[0] = 0 /\ \A k \in 1 .. m - 1 : h[k] = h[k - 1] + amount[k]
          /\ h[m - 1] \in Int /\ amount[m] \in Int
      BY <2>1, <2>2 DEF Running
    <3>2. (\A k \in 0 .. m : g[k] \in Int) /\ g[0] = 0
      BY <2>1, <3>1
    <3>3. ASSUME NEW k \in 1 .. m PROVE g[k] = g[k - 1] + amount[k]
      <4>1. CASE k = m
        BY <2>1, <4>1
      <4>2. CASE k # m
        <5>1. k \in 1 .. m - 1 /\ k \in 0 .. m /\ k - 1 \in 0 .. m /\ k - 1 # m
          BY <2>1, <4>2
        <5>2. h[k] = h[k - 1] + amount[k]
          BY <3>1, <5>1
        <5>3. QED
          BY <4>2, <5>1, <5>2
      <4>3. QED
        BY <4>1, <4>2
    <3> HIDE DEF g
    <3>4. Running(g, amount, m)
      BY <3>2, <3>3 DEF Running
    <3>5. QED
      BY <2>0, <3>4
  <2>3. QED
    BY <2>1, <2>2
<1>3. T = {}
  <2>1. T \subseteq Nat
    OBVIOUS
  <2>2. ASSUME NEW m \in T PROVE m - 1 \in T /\ m - 1 < m
    <3>1. m - 1 \in T /\ m \in Nat
      BY <1>2
    <3> HIDE DEF T
    <3>2. QED
      BY <3>1
  <2> HIDE DEF T
  <2>3. QED
    BY <2>1, <2>2, NoLeast
<1>4. n \in 0 .. n
  OBVIOUS
<1>5. QED
  BY <1>3, <1>4

\* The total is an integer, and that of the same amounts is the same.
LEMMA TotalOfSame ==
    ASSUME NEW n \in Nat, NEW a, NEW b, \A k \in 1 .. n : a[k] \in Int,
           \A k \in 1 .. n : b[k] = a[k]
    PROVE  Total(b, n) = Total(a, n) /\ Total(a, n) \in Int
<1>0. PICK h : Running(h, a, n)
  BY TotalsExist
<1>1. /\ \A k \in 0 .. n : h[k] \in Int
      /\ h[0] = 0 /\ \A k \in 1 .. n : h[k] = h[k - 1] + a[k]
  BY <1>0 DEF Running
<1>2. Total(a, n) = h[n]
  BY <1>0, TotalIs
<1>3. Running(h, b, n)
  BY <1>1 DEF Running
<1>4. Total(b, n) = h[n]
  BY <1>3, TotalIs
<1>5. h[n] \in Int
  BY <1>1
<1>6. QED
  BY <1>2, <1>4, <1>5

\* A change of one amount changes the total as much.
LEMMA TotalOfChange ==
    ASSUME NEW n \in Nat, NEW a, NEW b, NEW m \in 1 .. n,
           \A k \in 1 .. n : a[k] \in Int, b[m] \in Int,
           \A k \in 1 .. n : k # m => b[k] = a[k]
    PROVE  Total(b, n) = Total(a, n) + (b[m] - a[m])
<1>0. PICK h : Running(h, a, n)
  BY TotalsExist
<1>1. /\ \A k \in 0 .. n : h[k] \in Int
      /\ h[0] = 0 /\ \A k \in 1 .. n : h[k] = h[k - 1] + a[k]
  BY <1>0 DEF Running
<1>2. Total(a, n) = h[n]
  BY <1>0, TotalIs
<1> DEFINE more == b[m] - a[m]
           g    == [k \in 0 .. n |-> IF k < m THEN h[k] ELSE h[k] + more]
<1>4. more \in Int /\ a[m] \in Int /\ b[m] = a[m] + more
  OBVIOUS
<1> HIDE DEF more
<1>5. \A k \in 0 .. n : g[k] \in Int
  BY <1>1, <1>4
<1>6. g[0] = 0
  BY <1>1
<1>7. ASSUME NEW k \in 1 .. n PROVE g[k] = g[k - 1] + b[k]
  <2>1. /\ k \in 0 .. n /\ k - 1 \in 0 .. n /\ h[k] = h[k - 1] + a[k]
        /\ h[k - 1] \in Int /\ a[k] \in Int
    BY <1>1
  <2>2. CASE k = m
    <3>1. g[k] = h[k] + more /\ g[k - 1] = h[k - 1]
      BY <2>1, <2>2
    <3>2. QED
      BY <1>4, <2>1, <2>2, <3>1
  <2>3. CASE k < m
    <3>1. g[k] = h[k] /\ g[k - 1] = h[k - 1]
      BY <2>1, <2>3
    <3>2. QED
      BY <2>1, <2>3, <3>1
  <2>4. CASE k > m
    <3>1. g[k] = h[k] + more /\ g[k - 1] = h[k - 1] + more
      BY <2>1, <2>4
    <3>2. b[k] = a[k]
      BY <2>4
    <3>3. QED
      BY <1>4, <2>1, <3>1, <3>2
  <2>5. QED
    BY <2>2, <2>3, <2>4
<1> HIDE DEF g
<1>8. Total(b, n) = g[n]
  <2>1. Running(g, b, n)
    BY <1>5, <1>6, <1>7 DEF Running
  <2>2. QED
    BY <2>1, TotalIs
<1>9. g[n] = h[n] + more
  BY DEF g
<1>10. QED
  BY <1>2, <1>8, <1>9 DEF more

\* Amounts of nothing that follow leave the total as it is.
LEMMA TotalOfMore ==
    ASSUME NEW n \in Nat, NEW m \in Nat, NEW a, NEW b,
           \A k \in 1 .. n : a[k] \in Int /\ b[k] = a[k],
           \A k \in 1 .. m : b[n + k] = 0
    PROVE  Total(b, n + m) = Total(a, n)
<1>0. PICK h : Running(h, a, n)
  BY TotalsExist
<1>1. /\ \A k \in 0 .. n : h[k] \in Int
      /\ h[0] = 0 /\ \A k \in 1 .. n : h[k] = h[k - 1] + a[k]
  BY <1>0 DEF Running
<1>2. Total(a, n) = h[n]
  BY <1>0, TotalIs
<1> DEFINE N == n + m
           g == [k \in 0 .. N |-> IF k <= n THEN h[k] ELSE h[n]]
<1>4. N \in Nat /\ \A k \in 0 .. N : g[k] \in Int
  BY <1>1
<1>5. g[0] = 0 /\ g[N] = h[n]
  BY <1>1
<1>6. ASSUME NEW k \in 1 .. N PROVE g[k] = g[k - 1] + b[k]
  <2>1. CASE k \in 1 .. n
    <3>1. g[k] = h[k] /\ g[k - 1] = h[k - 1]
      BY <2>1
    <3>2. QED
      BY <1>1, <2>1, <3>1
  <2>2. CASE k > n
    <3>1. k - n \in 1 .. m /\ n + (k - n) = k
      BY <2>2
    <3>2. b[k] = 0
      BY <3>1
    <3>3. g[k] = h[n] /\ g[k - 1] = h[n] /\ h[n] \in Int
      BY <1>1, <2>2
    <3>4. QED
      BY <3>2, <3>3
  <2>3. QED
    BY <2>1, <2>2
<1> HIDE DEF N, g
<1>7. Total(b, N) = g[N]
  <2>1. Running(g, b, N)
    BY <1>4, <1>5, <1>6 DEF Running
  <2>2. QED
    BY <1>4, <2>1, TotalIs
<1>8. QED
  BY <1>2, <1>5, <1>7 DEF N

\* A sum of natural numbers is no less than any of them.
LEMMA TotalOfNaturals ==
    ASSUME NEW n \in Nat, NEW a, \A k \in 1 .. n : a[k] \in Nat
    PROVE  /\ Total(a, n) \in Nat
           /\ \A m \in 1 .. n : a[m] <= Total(a, n)
<1>0. PICK h : Running(h, a, n)
  BY TotalsExist
<1>1. /\ \A k \in 0 .. n : h[k] \in Int
      /\ h[0] = 0 /\ \A k \in 1 .. n : h[k] = h[k - 1] + a[k]
  BY <1>0 DEF Running
<1>2. Total(a, n) = h[n]
  BY <1>0, TotalIs
<1>3. \A k \in 0 .. n : h[k] >= 0
  <2> DEFINE T == {k \in 0 .. n : h[k] < 0}
  <2>1. ASSUME NEW k \in T PROVE \E m \in T : m < k
    <3>1. k # 0 /\ k \in 1 .. n
      BY <1>1
    <3>2. k - 1 \in 0 .. n /\ h[k - 1] \in Int /\ h[k] = h[k - 1] + a[k] /\ a[k] \in Nat
      BY <1>1, <3>1
    <3>3. h[k] < 0
      OBVIOUS
    <3>4. h[k - 1] < 0
      BY <3>2, <3>3
    <3>5. k - 1 \in T /\ k - 1 < k
      BY <3>1, <3>2, <3>4
    <3>6. QED
      BY <3>5
  <2>2. T \subseteq Nat
    OBVIOUS
  <2>3. T = {}
    <3> HIDE DEF T
    <3>1. QED
      BY <2>1, <2>2, NoLeast
  <2>4. QED
    BY <1>1, <2>3
<1>4. ASSUME NEW m \in 1 .. n PROVE a[m] <= h[n]
  <2> DEFINE T == {k \in m .. n : h[k] < a[m]}
  <2>1. ASSUME NEW k \in T PROVE \E j \in T : j < k
    <3>1. h[m] = h[m - 1] + a[m] /\ m - 1 \in 0 .. n /\ h[m - 1] \in Int /\ a[m] \in Nat
      BY <1>1
    <3>2. h[m - 1] >= 0 /\ h[m] >= a[m]
      BY <1>1, <1>3, <3>1
    <3>3. k # m /\ k - 1 \in m .. n /\ k \in 1 .. n /\ k - 1 \in 0 .. n
      BY <1>1, <3>1, <3>2
    <3>4. h[k] = h[k - 1] + a[k] /\ a[k] \in Nat /\ h[k - 1] \in Int /\ h[k] < a[m]
      BY <1>1, <3>3
    <3>5. h[k - 1] < a[m]
      BY <3>1, <3>4
    <3>6. k - 1 \in T /\ k - 1 < k
      BY <3>3, <3>5
    <3>7. QED
      BY <3>6
  <2>2. T \subseteq Nat
    OBVIOUS
  <2>3. T = {}
    <3> HIDE DEF T
    <3>1. QED
      BY <2>1, <2>2, NoLeast
  <2>4. n \in m .. n /\ n \notin T /\ h[n] \in Int /\ a[m] \in Nat
    BY <1>1, <2>3
  <2>5. QED
    BY <2>4
<1>5. n \in 0 .. n /\ h[n] \in Nat
  BY <1>1, <1>3
<1>6. QED
  BY <1>2, <1>4, <1>5

=============================================================================
