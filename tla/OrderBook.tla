------------------------------ MODULE OrderBook ------------------------------
(***************************************************************************)
(* What a market order book promises: the orders by reference, and what    *)
(* each market update does to them.  An order is a record with a field     *)
(* qty; an update is a record with fields type, ref, new_ref, order and    *)
(* qty, of which each type uses some.                                      *)
(***************************************************************************)
EXTENDS Integers, Functions

NoOrders == [ref \in {} |-> 0]

Without(orders, ref) == Restrict(orders, DOMAIN orders \ {ref})

With(orders, ref, order) ==
    [r \in DOMAIN orders \cup {ref} |-> IF r = ref THEN order ELSE orders[r]]

\* An execute or a cancel of the whole quantity, or of more, ends the order.
Reduced(orders, ref, qty) ==
    IF qty >= orders[ref].qty THEN Without(orders, ref) ELSE [orders EXCEPT ![ref].qty = @ - qty]

\* The orders after an update; an update that makes no sense is ignored.
Applied(orders, u) ==
    CASE u.type = "ADD" /\ u.ref \notin DOMAIN orders -> With(orders, u.ref, u.order)
      [] u.type \in {"EXECUTE", "CANCEL"} /\ u.ref \in DOMAIN orders -> Reduced(orders, u.ref, u.qty)
      [] u.type = "DELETE" -> Without(orders, u.ref)
      [] u.type = "REPLACE" /\ u.ref \in DOMAIN orders /\ u.new_ref \notin DOMAIN orders ->
            With(Without(orders, u.ref), u.new_ref, u.order)
      [] u.type \in {"SNAPSHOT_START", "SNAPSHOT_CLEAR"} -> NoOrders
      [] OTHER -> orders

=============================================================================
