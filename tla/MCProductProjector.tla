------------------------- MODULE MCProductProjector -------------------------
(***************************************************************************)
(* Small instances of ProductProjector.                                    *)
(***************************************************************************)
EXTENDS ProductProjector

MCCommandIds == {"create", "order"}
MCTimes      == {"noon"}

\* Two products, whose events can interleave; an order that leaves the product
\* low on supply, so that its batch has all three kinds of events.
MCCreate   == [id |-> "create", type |-> "create", price |-> 2, qty |-> 5]
MCPurchase == [id |-> "order", type |-> "purchase", qty |-> 3, at |-> "noon"]
MCTwoProducts == {[product |-> "hat", command |-> MCCreate],
                  [product |-> "hat", command |-> MCPurchase],
                  [product |-> "mug", command |-> MCCreate]}
MCOneProduct  == {[product |-> "hat", command |-> MCCreate],
                  [product |-> "hat", command |-> MCPurchase]}

=============================================================================
