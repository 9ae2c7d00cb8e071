-------------------------- MODULE SequencedStream ---------------------------
(***************************************************************************)
(* What the market-data thread promises the trade engine, without UDP,     *)
(* TCP, queues or decoder: the messages handed over are consecutive, a     *)
(* snapshot may replace them by a prefix of the feed, and the gate         *)
(* market_data_synchronized opens only together with recovered data.       *)
(***************************************************************************)
EXTENDS Integers

VARIABLES
    applied,    \* messages handed over
    next,       \* next expected number, 0 when there is none yet
    gate        \* market_data_synchronized

svars == <<applied, next, gate>>

SInit == applied = {} /\ next = 0 /\ gate = FALSE

\* The first live frame when no snapshot was obtained.
Adopt ==
    /\ next = 0 /\ ~gate
    /\ next' > 1
    /\ applied' = {next' - 1}
    /\ UNCHANGED gate

\* The expected live frame, whether or not the gate is open.
Advance ==
    /\ next # 0
    /\ next' = next + 1
    /\ applied' = applied \cup {next}
    /\ UNCHANGED gate

\* A gap closes the gate.
Suspend ==
    /\ gate' = FALSE
    /\ UNCHANGED <<applied, next>>

\* A replay fills the gap.
CatchUp ==
    /\ ~gate /\ next # 0
    /\ next' >= next
    /\ applied' = applied \cup (next..(next' - 1))
    /\ gate' = TRUE

\* A snapshot restarts the stream from message 1.
Rebase ==
    /\ ~gate
    /\ next' >= 1
    /\ applied' = 1..(next' - 1)
    /\ gate' = TRUE

SNext == Adopt \/ Advance \/ Suspend \/ CatchUp \/ Rebase

SSpec == SInit /\ [][SNext]_svars

=============================================================================
