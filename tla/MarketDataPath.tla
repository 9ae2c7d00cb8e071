--------------------------- MODULE MarketDataPath ---------------------------
(***************************************************************************)
(* The market-data thread composed with the bounded queue to the trade     *)
(* engine, the gate the engine polls, and the engine's order book.         *)
(*                                                                         *)
(* A live update is pushed by the handler that decodes it.  The two finish *)
(* functions push many updates and open the gate after the last one; they  *)
(* are pushed one at a time from outbox, while the engine goes on.         *)
(***************************************************************************)
EXTENDS MarketDataConsumer, OrderBook, SequencesExt

CONSTANT QueueCapacity      \* capacity of md_queue

ASSUME PathAssumption == QueueCapacity \in Nat \ {0}

VARIABLES
    outbox,     \* what a finish function has still to push
    md_queue,   \* the queue to the engine
    draining,   \* the engine is in drainMarketUpdates
    book,       \* the orders of the engine's book, by reference
    in_snapshot,\* the book is between SNAPSHOT_START and SNAPSHOT_END
    shown,      \* the message the book has come to
    based_book, \* the engine has applied a complete snapshot
    aborted     \* an ASSERT on a full queue has ended the process

engineVars == <<draining, book, in_snapshot, shown, based_book>>
pathVars == <<vars, outbox, md_queue, engineVars, aborted>>

-----------------------------------------------------------------------------
(***************************************************************************)
(* What is pushed: updates as the book takes them, with the message each   *)
(* one brings the book to.                                                 *)
(***************************************************************************)
Item(type, ref, new_ref, qty, n) ==
    [type |-> type, ref |-> ref, new_ref |-> new_ref, order |-> [qty |-> qty], qty |-> qty, n |-> n]

Frame(n) == Item(feed[n].type, feed[n].ref, feed[n].new_ref, feed[n].qty, n)

Frames(first, last) == [i \in 1..(last - first + 1) |-> Frame(first + i - 1)]

\* Mutant: the snapshot's START marker is not kept.
SnapshotItems_NoStart ==
    LET refs == SetToSeq(snapshot_queued)
    IN  [i \in DOMAIN refs |-> Item("ADD", refs[i], 0, tcp.orders[refs[i]], 0)]
        \o <<Item("SNAPSHOT_END", 0, 0, 0, tcp.last)>>

\* snapshot_queued_updates_ of a snapshot: START, the orders, END.  SNAPSHOT_CLEAR,
\* which clears the book that START has just cleared, is left out.
SnapshotItems ==
    LET refs == SetToSeq(snapshot_queued)
    IN  <<Item("SNAPSHOT_START", 0, 0, 0, 0)>>
        \o [i \in DOMAIN refs |-> Item("ADD", refs[i], 0, tcp.orders[refs[i]], 0)]
        \o <<Item("SNAPSHOT_END", 0, 0, 0, tcp.last)>>

\* Mutant: the incrementals queued behind the recovered state are not pushed.
FinishItems_NoQueued ==
    IF recovery_mode = "Snapshot" THEN SnapshotItems ELSE Frames(next_exp_inc_seq_num, replay_last_applied)

\* What finishSnapshotSync or finishReplaySync pushes when it succeeds.
FinishItems ==
    IF recovery_mode = "Snapshot"
    THEN SnapshotItems \o Frames(tcp.last + 1, next_exp_inc_seq_num' - 1)
    ELSE Frames(next_exp_inc_seq_num, next_exp_inc_seq_num' - 1)

Finishes == in_recovery /\ market_data_synchronized'

\* processIncremental pushes the frame it accepts: the baseline or the expected one.
Accepts == ~in_recovery /\ next_exp_inc_seq_num' # next_exp_inc_seq_num

Push(item) ==
    IF Len(md_queue) < QueueCapacity
    THEN md_queue' = Append(md_queue, item) /\ UNCHANGED aborted
    ELSE aborted' = TRUE /\ UNCHANGED md_queue

\* A step of the market-data thread or of the exchange.  The thread does nothing else
\* while it pushes, and what the exchange does meanwhile is not seen until it is done.
Consumes(step) ==
    /\ ~aborted /\ outbox = << >>
    /\ step
    /\ outbox' = IF Finishes THEN FinishItems ELSE << >>
    /\ IF Accepts
       THEN Push(Frame(next_exp_inc_seq_num' - 1))
       ELSE UNCHANGED <<md_queue, aborted>>
    /\ UNCHANGED engineVars

ConsumerStep == Consumes(Next)

PushRecovered ==
    /\ ~aborted /\ outbox # << >>
    /\ Push(Head(outbox))
    /\ outbox' = Tail(outbox)
    /\ UNCHANGED <<vars, engineVars>>

-----------------------------------------------------------------------------
(***************************************************************************)
(* TradeEngine::run, drainMarketUpdates and the book                       *)
(***************************************************************************)
\* The gate is stored after everything has been pushed.
GateOpen == market_data_synchronized /\ outbox = << >>

EngineEnters ==
    /\ ~aborted /\ ~draining /\ GateOpen
    /\ draining' = TRUE
    /\ UNCHANGED <<vars, outbox, md_queue, book, in_snapshot, shown, based_book, aborted>>

EngineDrains ==
    /\ ~aborted /\ draining
    /\ IF md_queue = << >>
       THEN draining' = FALSE /\ UNCHANGED <<md_queue, book, in_snapshot, shown, based_book>>
       ELSE LET u == Head(md_queue)
            IN  /\ md_queue' = Tail(md_queue)
                /\ book' = Applied(book, u)
                /\ in_snapshot' = CASE u.type = "SNAPSHOT_START" -> TRUE
                                    [] u.type = "SNAPSHOT_END" -> FALSE
                                    [] OTHER -> in_snapshot
                /\ shown' = u.n
                /\ based_book' = (based_book \/ u.type = "SNAPSHOT_END")
                /\ UNCHANGED draining
    /\ UNCHANGED <<vars, outbox, aborted>>

PathInit ==
    /\ Init
    /\ outbox = << >> /\ md_queue = << >>
    /\ draining = FALSE /\ book = NoOrders /\ in_snapshot = FALSE /\ shown = 0 /\ based_book = FALSE
    /\ aborted = FALSE

PathNext == ConsumerStep \/ PushRecovered \/ EngineEnters \/ EngineDrains

PathSpec == PathInit /\ [][PathNext]_pathVars

\* Both threads loop for ever, a finish function pushes to its end, and the server
\* answers every request.
FairPathSpec ==
    /\ PathSpec
    /\ WF_pathVars(Consumes(ReadTcp)) /\ WF_pathVars(Consumes(ServerAnswers))
    /\ WF_pathVars(PushRecovered) /\ WF_pathVars(EngineEnters) /\ WF_pathVars(EngineDrains)

-----------------------------------------------------------------------------
\* The engine's book is the exchange's book as of the message it has come to,
\* whenever the strategy is called on it: nothing is lost, repeated or reordered
\* between the network and the book, through gaps, replays and snapshots, and
\* although the engine goes on draining while the next recovery is under way.
EngineBookExact ==
    based_book /\ ~in_snapshot =>
        book = [r \in Live(shown) |-> [qty |-> Book(shown)[r]]]

\* Both finish functions and processIncremental: what is on its way to the book continues
\* what the book has, number by number or with a whole snapshot, and ends just below
\* next_exp_inc_seq_num_, so the next live frame continues it too.
PipelineContiguous ==
    LET items == md_queue \o outbox
        before(i) == IF i = 1 THEN shown ELSE items[i - 1].n
        recovered(u) == u.n = 0 \/ u.type = "SNAPSHOT_END"
    IN  based_book /\ ~aborted =>
            /\ \A i \in DOMAIN items : recovered(items[i]) \/ items[i].n = before(i) + 1
            /\ next_exp_inc_seq_num = before(Len(items) + 1) + 1

\* drainMarketUpdates pops until the queue is empty, and run() comes back to it while
\* the gate is open: the book comes to every message that was pushed, unless a new
\* recovery closes the gate or a full queue ends the process.
EngineCatchesUp == GateOpen ~> (shown = next_exp_inc_seq_num - 1 \/ ~GateOpen \/ aborted)

=============================================================================
