--------------------------- MODULE MCProductTotals ---------------------------
(***************************************************************************)
(* Small instances of ProductTotals, and the mutants of its definitions.   *)
(***************************************************************************)
EXTENDS ProductTotals

\* A price above 1 tells revenue from quantity; the quantities reach the
\* warning threshold, the end of the stock and, in some orders, below it.  The two
\* orders are of one instant, and the supply takes stock away: the page lets a
\* quantity that was typed before its script was ready be negative.
MCCreate   == [id |-> "create", type |-> "create", price |-> 2, qty |-> 5]
MCSupply   == [id |-> "supply", type |-> "supply", qty |-> -4]
MCPurchase == [id |-> "order1", type |-> "purchase", qty |-> 3, at |-> "noon"]
MCReorder  == [id |-> "order2", type |-> "purchase", qty |-> 2, at |-> "noon"]

MCCommandIds == {"create", "supply", "order1", "order2"}
MCTimes      == {"noon", "later"}
MCSales      == {MCCreate, MCPurchase, MCReorder}
MCStock      == {MCCreate, MCSupply, MCPurchase}

=============================================================================
