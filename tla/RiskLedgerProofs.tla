--------------------------- MODULE RiskLedgerProofs -------------------------
(***************************************************************************)
(* The bound of RiskLedger for every limit, order size and capacity.       *)
(***************************************************************************)
EXTENDS RiskLedger, TLAPS

LInv == LTypeOK /\ ExposureBound

\* One step of the ledger keeps the types and the bound.  A reservation keeps it
\* because the limit holds for the net and the other side is at most OtherSide; a
\* fill keeps position + buys, or lowers it; a release lowers it.
LEMMA LedgerStep == LedgerAssumption /\ LInv /\ [LNext]_lvars => LInv'
<1> SUFFICES ASSUME LedgerAssumption, LInv, [LNext]_lvars PROVE LInv'
    OBVIOUS
<1> USE DEF LedgerAssumption, LInv, LTypeOK, ExposureBound
<1>1. ASSUME NEW q \in 1..OrderQty, ReserveBuy(q) PROVE LInv'
    BY <1>1 DEF ReserveBuy, WithinLimit
<1>2. ASSUME NEW q \in 1..OrderQty, ReserveSell(q) PROVE LInv'
    BY <1>2 DEF ReserveSell, WithinLimit
<1>3. ASSUME NEW q \in 1..buys, FillBuy(q) PROVE LInv'
    BY <1>3 DEF FillBuy
<1>4. ASSUME NEW q \in 1..buys, ReleaseBuy(q) PROVE LInv'
    BY <1>4 DEF ReleaseBuy
<1>5. ASSUME NEW q \in 1..sells, FillSell(q) PROVE LInv'
    BY <1>5 DEF FillSell
<1>6. ASSUME NEW q \in 1..sells, ReleaseSell(q) PROVE LInv'
    BY <1>6 DEF ReleaseSell
<1>7. CASE UNCHANGED lvars
    BY <1>7 DEF lvars
<1> QED
    BY <1>1, <1>2, <1>3, <1>4, <1>5, <1>6, <1>7 DEF LNext

\* canSubmit and onOrderResponse together bound the position by the limit and what
\* the other side can have reserved, whatever the limits and capacities are.
THEOREM ExposureIsBounded ==
    ASSUME LedgerAssumption PROVE LSpec => []ExposureBound
<1>1. LInit => LInv
    BY DEF LedgerAssumption, LInit, LInv, LTypeOK, ExposureBound
<1>2. LInv => ExposureBound
    BY DEF LInv
<1>3. LInv /\ [LNext]_lvars => LInv'
    BY LedgerStep
<1> QED
    BY <1>1, <1>2, <1>3, PTL DEF LSpec

=============================================================================
