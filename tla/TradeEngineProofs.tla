-------------------------- MODULE TradeEngineProofs --------------------------
(***************************************************************************)
(* Registration and profit of TradeEngine for every number of slots,       *)
(* tickers and executions.                                                 *)
(***************************************************************************)
EXTENDS TradeEngine, TLAPS

PositionFields == {"net_qty", "realized", "unrealized", "avg", "mark"}

\* Every position is a function on its fields with a current, fitting profit.
Current(pos) ==
    /\ pos = [f \in PositionFields |-> pos[f]]
    /\ pos.unrealized = Unrealized(pos) /\ Fits(pos)

\* The tables have one row per slot; a row of pnl is a function on its tickers.
PnlInv ==
    /\ DOMAIN pnl = Slots /\ pnl = [s \in Slots |-> pnl[s]]
    /\ \A s \in Slots :
        /\ pnl[s] = [t \in DOMAIN pnl[s] |-> pnl[s][t]]
        /\ \A t \in DOMAIN pnl[s] : Current(pnl[s][t])

EngineInv ==
    /\ entries \in [Slots -> SUBSET Tickers] /\ risk \in [Slots -> SUBSET Tickers]
    /\ PnlInv /\ EntriesComplete

-----------------------------------------------------------------------------
\* A new position has no profit.
LEMMA NoPositionCurrent == Current(NoPosition)
BY PnlAssumption DEF Current, NoPosition, PositionFields, Unrealized, Fits, fitsInt64, PnlAssumption

\* updateUnrealized makes the profit that of the position it is given.
LEMMA UpdatedCurrent ==
    ASSUME NEW pos, pos = [f \in PositionFields |-> pos[f]], Fits(updateUnrealized(pos))
    PROVE  Current(updateUnrealized(pos))
BY DEF Current, PositionFields, Unrealized, updateUnrealized, Fits

\* onMark and onExecution either refuse or leave a current profit.
LEMMA OnMarkCurrent ==
    ASSUME NEW pos, NEW mark, Current(pos)
    PROVE  Current(onMark(pos, mark))
<1> DEFINE marked == [pos EXCEPT !.mark = mark]
<1>1. marked = [f \in PositionFields |-> marked[f]]
    BY DEF Current, PositionFields
<1>2. Fits(updateUnrealized(marked)) => Current(updateUnrealized(marked))
    BY <1>1, UpdatedCurrent
<1> QED
    BY <1>2 DEF onMark

LEMMA OnExecutionCurrent ==
    ASSUME NEW pos, NEW side, NEW price, NEW qty, Current(pos)
    PROVE  Current(onExecution(pos, side, price, qty))
<1>1. ASSUME NEW p, p = Averaged(pos, side, price, qty) \/ p = Closed(pos, side, price, qty)
      PROVE  p = [f \in PositionFields |-> p[f]]
    BY <1>1 DEF Current, PositionFields, Averaged, Closed
<1>2. \A p : p = Averaged(pos, side, price, qty) \/ p = Closed(pos, side, price, qty) =>
          (Fits(updateUnrealized(p)) => Current(updateUnrealized(p)))
    BY <1>1, UpdatedCurrent
<1> QED
    BY <1>2 DEF onExecution, Executed

\* Changing one position to a current one adds no ticker and keeps the others.
LEMMA PositionChanged ==
    ASSUME PnlInv, NEW s, NEW t, NEW p, pnl' = [pnl EXCEPT ![s][t] = p],
           s \in Slots /\ t \in DOMAIN pnl[s] => Current(p)
    PROVE  PnlInv' /\ \A r \in Slots : DOMAIN pnl'[r] = DOMAIN pnl[r]
<1>1. DOMAIN pnl' = Slots /\ pnl' = [r \in Slots |-> pnl'[r]]
    BY DEF PnlInv
<1>2. ASSUME NEW r \in Slots
      PROVE  /\ DOMAIN pnl'[r] = DOMAIN pnl[r]
             /\ pnl'[r] = [u \in DOMAIN pnl'[r] |-> pnl'[r][u]]
             /\ \A u \in DOMAIN pnl'[r] : pnl'[r][u] = pnl[r][u] \/ (r = s /\ u = t /\ pnl'[r][u] = p)
    BY DEF PnlInv
<1>3. ASSUME NEW r \in Slots, NEW u \in DOMAIN pnl'[r] PROVE Current(pnl'[r][u])
    BY <1>2, <1>3 DEF PnlInv
<1>4. PnlInv'
    <2>1. \A r \in Slots : \A u \in DOMAIN pnl'[r] : Current(pnl'[r][u])
        BY <1>3
    <2> QED
        BY <1>1, <1>2, <2>1 DEF PnlInv, Current, Unrealized, Fits, fitsInt64, PositionFields
<1> QED
    BY <1>2, <1>4

\* registerTicker: whichever of its steps is refused, the entry comes last.
LEMMA RegisterStep ==
    ASSUME EngineInv, NEW s \in Slots, NEW t \in Tickers, NEW limits_ok \in BOOLEAN,
           registerTicker(s, t, limits_ok)
    PROVE  EngineInv'
<1> USE DEF EngineInv
<1>1. entries' \in [Slots -> SUBSET Tickers] /\ risk' \in [Slots -> SUBSET Tickers]
    BY DEF registerTicker
<1>2. pnl' = pnl \/ (t \notin DOMAIN pnl[s] /\ pnl' = [pnl EXCEPT ![s] = With(@, t, NoPosition)])
    BY DEF registerTicker, PnlInv
<1>3. /\ DOMAIN pnl' = Slots /\ pnl' = [r \in Slots |-> pnl'[r]]
      /\ \A r \in Slots : r # s => pnl'[r] = pnl[r]
      /\ pnl'[s] = pnl[s] \/ pnl'[s] = With(pnl[s], t, NoPosition)
    BY <1>2 DEF PnlInv
<1>4. ASSUME NEW r \in Slots
      PROVE  /\ pnl'[r] = [u \in DOMAIN pnl'[r] |-> pnl'[r][u]]
             /\ \A u \in DOMAIN pnl'[r] : Current(pnl'[r][u])
    BY <1>3, NoPositionCurrent DEF PnlInv, With
<1>5. PnlInv'
    BY <1>3, <1>4 DEF PnlInv, Current, Unrealized, Fits, fitsInt64, PositionFields
<1> DEFINE tracked == t \in DOMAIN pnl[s] \/ ~Full(DOMAIN pnl[s])
           limited == tracked /\ limits_ok /\ t \notin risk[s] /\ ~Full(risk[s])
<1>6. /\ DOMAIN pnl[s] \subseteq DOMAIN pnl'[s] /\ DOMAIN pnl'[s] \subseteq DOMAIN pnl[s] \cup {t}
      /\ tracked => t \in DOMAIN pnl'[s]
    BY DEF registerTicker, PnlInv, With
<1>7. entries'[s] = risk'[s] /\ entries'[s] \subseteq DOMAIN pnl'[s]
    <2>1. CASE limited
        BY <1>6, <2>1 DEF registerTicker, EntriesComplete
    <2>2. CASE ~limited
        BY <1>6, <2>2 DEF registerTicker, EntriesComplete
    <2> QED
        BY <2>1, <2>2
<1>8. \A r \in Slots : r # s => entries'[r] = entries[r] /\ risk'[r] = risk[r]
    BY DEF registerTicker
<1>9. EntriesComplete'
    <2>1. books' = books \cup {t}
        BY DEF registerTicker
    <2> QED
        BY <1>3, <1>6, <1>7, <1>8, <2>1 DEF EntriesComplete
<1> QED
    BY <1>1, <1>5, <1>9

\* A step that leaves the registry alone and changes at most one position.
LEMMA ProfitStep ==
    ASSUME EngineInv, UNCHANGED registryVars, NEW s, NEW t, NEW p,
           pnl' = pnl \/ pnl' = [pnl EXCEPT ![s][t] = p],
           s \in Slots /\ t \in DOMAIN pnl[s] => Current(p)
    PROVE  EngineInv'
<1>1. PnlInv' /\ \A r \in Slots : DOMAIN pnl'[r] = DOMAIN pnl[r]
    <2>1. CASE pnl' = pnl
        BY <2>1 DEF EngineInv, PnlInv, Current, Unrealized, Fits, fitsInt64, PositionFields
    <2>2. CASE pnl' = [pnl EXCEPT ![s][t] = p]
        BY <2>2, PositionChanged DEF EngineInv
    <2> QED
        BY <2>1, <2>2
<1> QED
    BY <1>1 DEF EngineInv, EntriesComplete, registryVars

\* Every step of the engine keeps the invariant.
LEMMA EngineStep == EngineInv /\ [Next]_vars => EngineInv'
<1> SUFFICES ASSUME EngineInv, [Next]_vars PROVE EngineInv'
    OBVIOUS
<1>1. ASSUME NEW s \in Slots, NEW t \in Tickers, NEW limits_ok \in BOOLEAN, registerTicker(s, t, limits_ok)
      PROVE  EngineInv'
    BY <1>1, RegisterStep
<1>2. ASSUME UNCHANGED <<registryVars, pnl>> PROVE EngineInv'
    BY <1>2, ProfitStep, NoPositionCurrent
<1>3. CASE start
    BY <1>2, <1>3 DEF start
<1>4. ASSUME NEW t, NEW bbo, NEW in_snapshot, processBookUpdate(t, bbo, in_snapshot) PROVE EngineInv'
    BY <1>2, <1>4 DEF processBookUpdate
<1>5. CASE processSlotUpdate
    <2> DEFINE s == update.slot
               t == update.ticker
               mark == MktPrice(update.bbo)
    <2>1. UNCHANGED registryVars /\ (pnl' = pnl \/ pnl' = [pnl EXCEPT ![s][t] = onMark(pnl[s][t], mark)])
        BY <1>5 DEF processSlotUpdate
    <2>2. s \in Slots /\ t \in DOMAIN pnl[s] => Current(onMark(pnl[s][t], mark))
        BY OnMarkCurrent DEF EngineInv, PnlInv
    <2> HIDE DEF s, t, mark
    <2> QED
        BY <2>1, <2>2, ProfitStep
<1>6. ASSUME NEW id, drainCanceled(id) PROVE EngineInv'
    BY <1>2, <1>6 DEF drainCanceled
<1>7. ASSUME NEW id, NEW price, NEW qty, drainExecution(id, price, qty) PROVE EngineInv'
    <2> DEFINE s == ownerOf(id)
               t == working[id].ticker
               p == onExecution(pnl[s][t], working[id].side, price, qty)
    <2>1. UNCHANGED registryVars /\ (pnl' = pnl \/ pnl' = [pnl EXCEPT ![s][t] = p])
        BY <1>7 DEF drainExecution
    <2>2. s \in Slots /\ t \in DOMAIN pnl[s] => Current(p)
        BY OnExecutionCurrent DEF EngineInv, PnlInv
    <2> HIDE DEF s, t, p
    <2> QED
        BY <2>1, <2>2, ProfitStep
<1>8. CASE UNCHANGED vars
    BY <1>2, <1>8 DEF vars
<1> QED
    BY <1>1, <1>3, <1>4, <1>5, <1>6, <1>7, <1>8 DEF Next

\* The constructor's tables are empty.
LEMMA EngineStart == Init => EngineInv
BY DEF Init, EngineInv, PnlInv, EntriesComplete, NoOrders

\* registerTicker, refused at any of its steps and for any capacities: what a slot may
\* trade has a book, a position and limits, and limits are given to nothing else.
THEOREM RegistrationComplete == Spec => []EntriesComplete
<1>1. EngineInv => EntriesComplete
    BY DEF EngineInv
<1> QED
    BY <1>1, EngineStart, EngineStep, PTL DEF Spec

\* onExecution and onMark, for any prices, quantities and range of the profit fields:
\* the unrealized profit is that of the position and mark held, and both profits fit.
THEOREM ProfitNeverStale == Spec => []UnrealizedCurrent
<1>1. EngineInv => UnrealizedCurrent
    BY DEF EngineInv, PnlInv, Current, UnrealizedCurrent
<1> QED
    BY <1>1, EngineStart, EngineStep, PTL DEF Spec

=============================================================================
