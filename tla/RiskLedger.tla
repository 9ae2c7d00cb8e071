----------------------------- MODULE RiskLedger -----------------------------
(***************************************************************************)
(* What the risk check of one ticker promises, without orders: a position, *)
(* the quantity reserved for buys and for sells, and the limit that        *)
(* canSubmit applies to their net (risk_manager.h).                        *)
(***************************************************************************)
EXTENDS Integers

CONSTANTS
    Limit,      \* max_abs_position
    OrderQty,   \* max_order_qty
    OtherSide   \* most that the other pending orders can have reserved

\* What the limits of a RiskManager are.
LedgerAssumption == Limit \in Nat /\ OrderQty \in Nat /\ OtherSide \in Nat

VARIABLES
    position,   \* net_qty of the ticker
    buys,       \* quantity reserved by pending buys
    sells       \* quantity reserved by pending sells

lvars == <<position, buys, sells>>

LInit == position = 0 /\ buys = 0 /\ sells = 0

\* canSubmit looks at the position and the net of what is pending.
WithinLimit(projected) == -Limit <= projected /\ projected <= Limit

\* canSubmit accepted and onSubmitted reserved.  What is pending on the other
\* side is at most OtherSide: the order's own entry was still free in pending_.
ReserveBuy(q) ==
    /\ sells <= OtherSide
    /\ WithinLimit(position + buys - sells + q)
    /\ buys' = buys + q
    /\ UNCHANGED <<position, sells>>

ReserveSell(q) ==
    /\ buys <= OtherSide
    /\ WithinLimit(position + buys - sells - q)
    /\ sells' = sells + q
    /\ UNCHANGED <<position, buys>>

\* A fill moves quantity from the reservation to the position.
FillBuy(q) == buys' = buys - q /\ position' = position + q /\ UNCHANGED sells

FillSell(q) == sells' = sells - q /\ position' = position - q /\ UNCHANGED buys

\* A cancel or a reject gives a reservation back.
ReleaseBuy(q) == buys' = buys - q /\ UNCHANGED <<position, sells>>

ReleaseSell(q) == sells' = sells - q /\ UNCHANGED <<position, buys>>

LNext ==
    \/ \E q \in 1..OrderQty : ReserveBuy(q) \/ ReserveSell(q)
    \/ \E q \in 1..buys : FillBuy(q) \/ ReleaseBuy(q)
    \/ \E q \in 1..sells : FillSell(q) \/ ReleaseSell(q)

LSpec == LInit /\ [][LNext]_lvars

-----------------------------------------------------------------------------
\* The type invariant of the ledger.
LTypeOK == position \in Int /\ buys \in Nat /\ sells \in Nat

\* canSubmit nets pending buys against pending sells (risk_manager.h:84), so the
\* position can pass max_abs_position when one side fills and the other is
\* cancelled, but never by more than the other side can have had reserved.
ExposureBound ==
    /\ position + buys <= Limit + OtherSide
    /\ position - sells >= -(Limit + OtherSide)

=============================================================================
