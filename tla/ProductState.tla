---------------------------- MODULE ProductState ----------------------------
(***************************************************************************)
(* The product of the sharding sample as a value: the commands it accepts, *)
(* the events a command gives rise to (ProcessCommand) and what an event   *)
(* does to the value (ProcessEvent).  Pure operators, no behaviour: the    *)
(* persistent actor that runs them is in ProductTotals.                    *)
(*                                                                         *)
(* A product id is implicit, since one entity is one product.  Names, tags *)
(* and message texts are left out.  A command carries `id', which is the   *)
(* OrderId of a PurchaseProduct.  Nothing here or in the handlers keeps    *)
(* the quantity of a supply or a purchase from being negative: the product *)
(* page sends what it read, while the page that creates products tests the *)
(* bounds.                                                                 *)
(***************************************************************************)
EXTENDS Integers, Sequences

CONSTANTS CommandIds,  \* identities of the commands (and of the orders)
          Times        \* values of DateTime.UtcNow; only equality is used

LowInventoryWarningThreshold == 3

-----------------------------------------------------------------------------
(* Commands.                                                               *)

Command == [id : CommandIds, type : {"create"}, price : Nat, qty : Nat]
              \cup [id : CommandIds, type : {"supply"}, qty : Int]
              \cup [id : CommandIds, type : {"purchase"}, qty : Int, at : Times]

-----------------------------------------------------------------------------
(* Events.                                                                 *)

CreatedEvent == [type : {"created"}, price : Nat]
ChangedEvent == [type : {"changed"}, qty : Int, at : Times,
                 reason : {"Fulfillment", "SupplyIncrease"}]
WarningEvent == [type : {"warning"}, reason : {"LowSupply", "NoSupply"},
                 at : Times]
SoldEvent    == [type : {"sold"}, order : CommandIds, qty : Int, at : Times,
                 price : Nat, backOrdered : BOOLEAN]
Event == CreatedEvent \cup ChangedEvent \cup WarningEvent \cup SoldEvent

Created(price)      == [type |-> "created", price |-> price]
Changed(qty, at, r) == [type |-> "changed", qty |-> qty, at |-> at, reason |-> r]
Warning(r, at)      == [type |-> "warning", reason |-> r, at |-> at]
Sold(cmd, price, b) == [type |-> "sold", order |-> cmd.id, qty |-> cmd.qty,
                        at |-> cmd.at, price |-> price, backOrdered |-> b]

\* Mutant of TotalPrice: the price of one piece.
TotalPrice_Unit(e) == e.price

\* ProductSold.TotalPrice
TotalPrice(e) == e.qty * e.price

-----------------------------------------------------------------------------
(* The state.  `created' stands for Data /= ProductData.Empty.             *)

State == [created : BOOLEAN, price : Nat, remaining : Int, sold : Nat,
          revenue : Int, orders : SUBSET SoldEvent,
          warnings : SUBSET WarningEvent, changes : SUBSET ChangedEvent]

EmptyState == [created |-> FALSE, price |-> 0, remaining |-> 0, sold |-> 0,
               revenue |-> 0, orders |-> {}, warnings |-> {}, changes |-> {}]

IsEmpty(s) == ~s.created

\* Mutant of Abs: Math.Abs forgotten.
Abs_Forgotten(n) == n

Abs(n) == IF n < 0 THEN -n ELSE n

\* ImmutableSortedSet.Add under a CompareTo that looks at the timestamp only:
\* an element that compares equal to a member is not added.
SortedAdd(S, e) == IF \E x \in S : x.at = e.at THEN S ELSE S \cup {e}

-----------------------------------------------------------------------------
(* ProcessCommand: the events of a command, none when it is refused.       *)

CreateEvents(cmd, now) ==
    << Created(cmd.price), Changed(cmd.qty, now, "SupplyIncrease") >>

SupplyEvents(cmd, now) == << Changed(cmd.qty, now, "SupplyIncrease") >>

\* Mutant of PurchaseEvents: the warning is decided on the stock before the
\* order, not on the stock that it leaves.
PurchaseEvents_Stale(s, cmd) ==
    LET left    == s.remaining - cmd.qty
        reason  == IF left <= 0 THEN "NoSupply" ELSE "LowSupply"
        warning == IF s.remaining <= LowInventoryWarningThreshold
                   THEN << Warning(reason, cmd.at) >> ELSE << >>
    IN  << Changed(-cmd.qty, cmd.at, "Fulfillment") >>
          \o warning \o << Sold(cmd, s.price, left <= 0) >>

PurchaseEvents(s, cmd) ==
    LET left    == s.remaining - cmd.qty
        reason  == IF left <= 0 THEN "NoSupply" ELSE "LowSupply"
        warning == IF left <= LowInventoryWarningThreshold
                   THEN << Warning(reason, cmd.at) >> ELSE << >>
    IN  << Changed(-cmd.qty, cmd.at, "Fulfillment") >>
          \o warning \o << Sold(cmd, s.price, left <= 0) >>

ProcessCommand(s, cmd, now) ==
    CASE cmd.type = "create" /\ IsEmpty(s) -> CreateEvents(cmd, now)
      [] cmd.type = "supply" /\ ~IsEmpty(s) -> SupplyEvents(cmd, now)
      [] cmd.type = "purchase" /\ ~IsEmpty(s) /\ s.price > 0
            -> PurchaseEvents(s, cmd)
      [] OTHER -> << >>

-----------------------------------------------------------------------------
(* ProcessEvent: the state after an event.                                 *)

ProcessEvent(s, e) ==
    CASE e.type = "created" ->
            [s EXCEPT !.created = TRUE, !.price = e.price]
      [] e.type = "changed" ->
            [s EXCEPT !.remaining = @ + e.qty,
                      !.sold = IF e.reason = "Fulfillment" THEN @ + Abs(e.qty)
                                                           ELSE @,
                      !.changes = SortedAdd(@, e)]
      [] e.type = "warning" ->
            [s EXCEPT !.warnings = SortedAdd(@, e)]
      [] e.type = "sold" ->
            [s EXCEPT !.orders = SortedAdd(@, e),
                      !.revenue = @ + TotalPrice(e)]

\* The states a batch of a command's events passes through.  A command has at
\* most three events (BatchSize).
MaxBatch == 3
Unfold(s, es) ==
    LET s1 == ProcessEvent(s, es[1])
        s2 == ProcessEvent(s1, es[2])
        s3 == ProcessEvent(s2, es[3])
    IN  [k \in 1 .. Len(es) |-> IF k = 1 THEN s1 ELSE IF k = 2 THEN s2 ELSE s3]

-----------------------------------------------------------------------------
(* For the properties.                                                     *)

\* The sum of the first n of the amounts.
Total(amount, n) ==
    LET sum[k \in 0 .. n] == IF k = 0 THEN 0 ELSE sum[k - 1] + amount[k]
    IN  sum[n]

=============================================================================
