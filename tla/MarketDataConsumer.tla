------------------------- MODULE MarketDataConsumer -------------------------
(***************************************************************************)
(* The market-data thread: sequence checking of the UDP feed and the       *)
(* snapshot / replay recovery over TCP (market_data.h,                     *)
(* market_data_consumer.cpp, market_data_incremental.cpp and               *)
(* market_data_recovery.cpp), with the decoder it calls on every frame.    *)
(*                                                                         *)
(* Updates are named by their sequence number.  The std::map of queued     *)
(* incrementals is the set of its keys.  The vector                        *)
(* snapshot_queued_updates_ holds snapshot orders in Snapshot mode         *)
(* (snapshot_queued: their references) and replayed frames in Replay mode  *)
(* (replay_queued: their sequence numbers, always in increasing order).    *)
(*                                                                         *)
(* UDP may lose, duplicate and reorder: any published frame may arrive at  *)
(* any time, any number of times, or never.                                *)
(***************************************************************************)
EXTENDS ExchangeFeed

CONSTANTS
    REPLAY_CAPACITY,    \* largest gap a replay is requested for
    ServerLag,          \* how far the recovery server may be behind the feed
    MaxCuts,            \* bound on broken TCP connections
    FaultyServer        \* the server may answer outside the protocol

ASSUME CapacityAssumption == REPLAY_CAPACITY \in Nat
ASSUME MaxCutsAssumption == MaxCuts \in Nat

VARIABLES
    next_exp_inc_seq_num,
    in_recovery,
    market_data_synchronized,
    snapshot_have_start,
    recovery_mode,
    replay_status_read,
    replay_last_applied,
    incremental_queued,     \* keys of incremental_queued_updates_
    snapshot_queued,        \* references in snapshot_queued_updates_ (Snapshot)
    replay_queued,          \* sequence numbers in it (Replay)
    slot,                   \* the decoder's order_ref_map_ entry
    tcp,                    \* the recovery connection
    cuts,                   \* TCP connections broken so far
    applied,                \* messages whose effect was pushed to md_queue
    based                   \* a complete snapshot was pushed to md_queue

seqVars == <<next_exp_inc_seq_num, in_recovery, market_data_synchronized>>
recoveryVars == <<snapshot_have_start, recovery_mode, replay_status_read, replay_last_applied>>
queueVars == <<incremental_queued, snapshot_queued, replay_queued>>
pushedVars == <<applied, based>>
exchangeVars == <<feed, books>>
vars == <<exchangeVars, seqVars, recoveryVars, queueVars, slot, tcp, cuts, pushedVars>>

-----------------------------------------------------------------------------
(***************************************************************************)
(* The recovery connection.  stage is what the client reads next:          *)
(*   closed          snapshot_tcp_fd_ is -1                                *)
(*   asked           request sent, not yet answered                        *)
(*   R N C other     the status byte of a replay                           *)
(*   frames          replayed frames up to `last`                          *)
(*   START ADDS END  the snapshot as of message `last`                     *)
(*   eof             the peer is gone, recv returns 0 or an error          *)
(* rcvd is the last frame received in full; a frame that does not decode   *)
(* stays in snapshot_tcp_buffer_, as does the fragment of a cut frame.     *)
(***************************************************************************)
Stages == {"closed", "asked", "R", "N", "C", "other", "frames", "START", "ADDS", "END", "eof"}

NoConnection ==
    [stage |-> "closed", last |-> 0, orders |-> <<>>, todo |-> {}, rcvd |-> 0, fragment |-> FALSE]

Requested(client_seq) == [NoConnection EXCEPT !.stage = "asked", !.rcvd = client_seq]

Eof == [tcp EXCEPT !.stage = "eof", !.last = 0, !.orders = <<>>, !.todo = {}]

\* Bytes left in snapshot_tcp_buffer_ by processReplay.
BufferEmpty == tcp.rcvd = replay_last_applied /\ ~tcp.fragment

\* The recovery server answers as of a message it already knows of.
AnswerPoints == {n \in 0..Len(feed) : n + ServerLag >= Len(feed)}

ServerAnswersSnapshot ==
    /\ tcp.stage = "asked" /\ recovery_mode = "Snapshot"
    /\ \E n \in AnswerPoints :
         tcp' = [tcp EXCEPT !.stage = "START", !.last = n, !.orders = Book(n), !.todo = Live(n)]
    /\ UNCHANGED <<exchangeVars, seqVars, recoveryVars, queueVars, slot, cuts, pushedVars>>

\* 'C' when the server has nothing newer than the client; otherwise 'R', or 'N'
\* when it no longer holds the frames.
ServerAnswersReplay(status) ==
    /\ tcp.stage = "asked" /\ recovery_mode = "Replay"
    /\ \E n \in AnswerPoints :
         /\ \/ status = "C" /\ n <= tcp.rcvd
            \/ status \in {"R", "N"} /\ n > tcp.rcvd
            \/ status = "other" /\ FaultyServer
         /\ tcp' = [tcp EXCEPT !.stage = status, !.last = n]
    /\ UNCHANGED <<exchangeVars, seqVars, recoveryVars, queueVars, slot, cuts, pushedVars>>

\* The connection breaks, possibly in the middle of a replayed frame.
ConnectionCut(fragment) ==
    /\ tcp.stage \notin {"closed", "eof"} /\ cuts < MaxCuts
    /\ fragment => tcp.stage = "frames"
    /\ tcp' = [Eof EXCEPT !.fragment = fragment]
    /\ cuts' = cuts + 1
    /\ UNCHANGED <<exchangeVars, seqVars, recoveryVars, queueVars, slot, pushedVars>>

ExchangePublishes ==
    /\ \E msg \in LegalMessages : Publish(msg)
    /\ UNCHANGED <<seqVars, recoveryVars, queueVars, slot, tcp, cuts, pushedVars>>

-----------------------------------------------------------------------------
(***************************************************************************)
(* Entering and leaving recovery.  `kept` is what incremental_queued       *)
(* holds at the end of the handler.                                        *)
(***************************************************************************)
StartSnapshotSync(kept) ==
    /\ market_data_synchronized' = FALSE
    /\ in_recovery' = TRUE
    /\ recovery_mode' = "Snapshot"
    /\ snapshot_have_start' = FALSE
    /\ incremental_queued' = kept
    /\ snapshot_queued' = {}
    /\ replay_queued' = {}
    /\ tcp' = Requested(0)

\* Mutant: a resumed replay also starts with empty queues.
StartReplaySync_AlwaysClears(client_seq, fresh, kept) ==
    /\ market_data_synchronized' = FALSE
    /\ in_recovery' = TRUE
    /\ recovery_mode' = "Replay"
    /\ replay_status_read' = FALSE
    /\ replay_last_applied' = client_seq
    /\ incremental_queued' = kept
    /\ snapshot_queued' = {}
    /\ replay_queued' = {}
    /\ tcp' = Requested(client_seq)

\* Mutant: the replay is requested from one message too early.
StartReplaySync_OneTooEarly(client_seq, fresh, kept) ==
    /\ market_data_synchronized' = FALSE
    /\ in_recovery' = TRUE
    /\ recovery_mode' = "Replay"
    /\ replay_status_read' = FALSE
    /\ replay_last_applied' = client_seq - 1
    /\ incremental_queued' = kept
    /\ snapshot_queued' = IF fresh THEN {} ELSE snapshot_queued
    /\ replay_queued' = IF fresh THEN {} ELSE replay_queued
    /\ tcp' = Requested(client_seq - 1)

\* fresh is FALSE when a replay that was cut short is resumed.
StartReplaySync(client_seq, fresh, kept) ==
    /\ market_data_synchronized' = FALSE
    /\ in_recovery' = TRUE
    /\ recovery_mode' = "Replay"
    /\ replay_status_read' = FALSE
    /\ replay_last_applied' = client_seq
    /\ incremental_queued' = kept
    /\ snapshot_queued' = IF fresh THEN {} ELSE snapshot_queued
    /\ replay_queued' = IF fresh THEN {} ELSE replay_queued
    /\ tcp' = Requested(client_seq)

\* Mutant: the queued incrementals survive the abort.
AbortSnapshotSync_KeepsQueue ==
    /\ snapshot_have_start' = FALSE
    /\ snapshot_queued' = {}
    /\ replay_queued' = {}
    /\ in_recovery' = FALSE
    /\ market_data_synchronized' = FALSE
    /\ recovery_mode' = "None"
    /\ tcp' = NoConnection
    /\ UNCHANGED <<incremental_queued, next_exp_inc_seq_num, replay_last_applied, pushedVars>>

AbortSnapshotSync ==
    /\ snapshot_have_start' = FALSE
    /\ incremental_queued' = {}
    /\ snapshot_queued' = {}
    /\ replay_queued' = {}
    /\ in_recovery' = FALSE
    /\ market_data_synchronized' = FALSE
    /\ recovery_mode' = "None"
    /\ tcp' = NoConnection
    /\ UNCHANGED <<next_exp_inc_seq_num, replay_last_applied, pushedVars>>

\* Mutant: the loop goes on past a hole.
QueueContiguous_SkipsHoles(resume_seq, expected) ==
    /\ \A s \in incremental_queued : s < expected
    /\ expected = resume_seq \/ expected - 1 \in incremental_queued

\* The loop over incremental_queued_updates_ that both finish functions start
\* with ends at `expected`: the queued frames from resume_seq on have no hole.
QueueContiguous(resume_seq, expected) ==
    {s \in incremental_queued : s >= resume_seq} = resume_seq..(expected - 1)

QueueEnds(resume_seq) == resume_seq..(Len(feed) + 1)

\* Mutant: the queued frames are pushed but not counted.
Synchronize_ForgetsQueue(recovered, complete, resume_seq, expected) ==
    /\ applied' = recovered \cup {s \in incremental_queued : s >= resume_seq}
    /\ based' = complete
    /\ next_exp_inc_seq_num' = resume_seq
    /\ in_recovery' = FALSE
    /\ market_data_synchronized' = TRUE
    /\ recovery_mode' = "None"
    /\ incremental_queued' = {}
    /\ snapshot_queued' = {}
    /\ replay_queued' = {}
    /\ tcp' = NoConnection

\* What both finish functions do once the queue is known to be contiguous:
\* push what was recovered, then the queued frames, and declare the book good.
Synchronize(recovered, complete, resume_seq, expected) ==
    /\ applied' = recovered \cup {s \in incremental_queued : s >= resume_seq}
    /\ based' = complete
    /\ next_exp_inc_seq_num' = expected
    /\ in_recovery' = FALSE
    /\ market_data_synchronized' = TRUE
    /\ recovery_mode' = "None"
    /\ incremental_queued' = {}
    /\ snapshot_queued' = {}
    /\ replay_queued' = {}
    /\ tcp' = NoConnection

FinishReplaySync ==
    LET resume_seq == replay_last_applied + 1
    IN  \/ \E expected \in QueueEnds(resume_seq) :
             /\ QueueContiguous(resume_seq, expected)
             /\ Synchronize(applied \cup replay_queued, based, resume_seq, expected)
             /\ UNCHANGED <<snapshot_have_start, replay_last_applied>>
        \/ /\ \A expected \in QueueEnds(resume_seq) : ~QueueContiguous(resume_seq, expected)
           /\ AbortSnapshotSync

\* A snapshot whose queued frames have a hole is thrown away; the client stays
\* in recovery until the server closes the connection.
FinishSnapshotSync(resume_seq) ==
    \/ \E expected \in QueueEnds(resume_seq) :
         LET complete == snapshot_queued = {r \in DOMAIN tcp.orders : tcp.orders[r] # 0}
         IN  /\ QueueContiguous(resume_seq, expected)
             /\ Synchronize(IF complete THEN 1..(resume_seq - 1) ELSE {}, complete, resume_seq, expected)
             /\ UNCHANGED <<replay_status_read, replay_last_applied>>
    \/ /\ \A expected \in QueueEnds(resume_seq) : ~QueueContiguous(resume_seq, expected)
       /\ snapshot_queued' = {}
       /\ tcp' = Eof
       /\ UNCHANGED <<seqVars, recovery_mode, replay_status_read, replay_last_applied,
                      incremental_queued, replay_queued, pushedVars>>

-----------------------------------------------------------------------------
(***************************************************************************)
(* recvCallback and processIncremental: one UDP frame.  A frame that does  *)
(* not decode is skipped byte by byte and changes nothing.                 *)
(***************************************************************************)
DecodeFrame(seq, moved) ==
    /\ Decodes(slot, feed[seq])
    /\ slot' = Decoded(slot, feed[seq], moved)

\* In recovery: queueIncremental.
RecvInRecovery(seq, moved) ==
    /\ in_recovery
    /\ DecodeFrame(seq, moved)
    /\ incremental_queued' = incremental_queued \cup {seq}
    /\ UNCHANGED <<exchangeVars, seqVars, recoveryVars, snapshot_queued, replay_queued, tcp, cuts, pushedVars>>

\* No expected number yet: the frame becomes the baseline.
RecvBaseline(seq, moved) ==
    /\ ~in_recovery /\ next_exp_inc_seq_num = 0
    /\ DecodeFrame(seq, moved)
    /\ next_exp_inc_seq_num' = seq + 1
    /\ applied' = applied \cup {seq}
    /\ UNCHANGED <<exchangeVars, in_recovery, market_data_synchronized, recoveryVars, queueVars,
                   tcp, cuts, based>>

RecvExpected(seq, moved) ==
    /\ ~in_recovery /\ next_exp_inc_seq_num # 0 /\ seq = next_exp_inc_seq_num
    /\ DecodeFrame(seq, moved)
    /\ next_exp_inc_seq_num' = next_exp_inc_seq_num + 1
    /\ applied' = applied \cup {seq}
    /\ UNCHANGED <<exchangeVars, in_recovery, market_data_synchronized, recoveryVars, queueVars,
                   tcp, cuts, based>>

\* detectGap, then queueIncremental of the frame that showed the gap.
RecvGap(seq, moved) ==
    /\ ~in_recovery /\ next_exp_inc_seq_num # 0 /\ seq > next_exp_inc_seq_num
    /\ DecodeFrame(seq, moved)
    /\ IF seq - next_exp_inc_seq_num <= REPLAY_CAPACITY
       THEN /\ StartReplaySync(next_exp_inc_seq_num - 1, TRUE, {seq})
            /\ UNCHANGED snapshot_have_start
       ELSE /\ StartSnapshotSync({seq})
            /\ UNCHANGED <<replay_status_read, replay_last_applied>>
    /\ UNCHANGED <<exchangeVars, next_exp_inc_seq_num, cuts, pushedVars>>

\* An old frame only changes the decoder.
RecvStale(seq, moved) ==
    /\ ~in_recovery /\ seq < next_exp_inc_seq_num
    /\ DecodeFrame(seq, moved)
    /\ UNCHANGED <<exchangeVars, seqVars, recoveryVars, queueVars, tcp, cuts, pushedVars>>

-----------------------------------------------------------------------------
(***************************************************************************)
(* readSnapshotTcp: one item of the recovery stream.  run() calls it only  *)
(* while in_recovery.  A recv that returns several items is several of     *)
(* these steps with no UDP frame between them.                             *)
(***************************************************************************)
ReadSnapshotStart ==
    /\ in_recovery /\ tcp.stage = "START"
    /\ snapshot_have_start' = TRUE
    /\ slot' = <<>>
    /\ snapshot_queued' = {}
    /\ tcp' = [tcp EXCEPT !.stage = IF tcp.todo = {} THEN "END" ELSE "ADDS"]
    /\ UNCHANGED <<exchangeVars, seqVars, recovery_mode, replay_status_read, replay_last_applied,
                   incremental_queued, replay_queued, cuts, pushedVars>>

ReadSnapshotOrder(ref) ==
    /\ in_recovery /\ tcp.stage = "ADDS" /\ ref \in tcp.todo
    /\ slot' = DecodeAddOrder(slot, Message("ADD", ref, 0, tcp.orders[ref]))
    /\ snapshot_queued' = IF snapshot_have_start THEN snapshot_queued \cup {ref} ELSE snapshot_queued
    /\ tcp' = [tcp EXCEPT !.todo = @ \ {ref}, !.stage = IF tcp.todo = {ref} THEN "END" ELSE "ADDS"]
    /\ UNCHANGED <<exchangeVars, seqVars, recoveryVars, incremental_queued, replay_queued, cuts, pushedVars>>

ReadSnapshotEnd ==
    /\ in_recovery /\ tcp.stage = "END" /\ snapshot_have_start
    /\ snapshot_have_start' = FALSE
    /\ FinishSnapshotSync(tcp.last + 1)
    /\ UNCHANGED <<exchangeVars, slot, cuts>>

ReadReplayGranted ==
    /\ in_recovery /\ tcp.stage = "R"
    /\ replay_status_read' = TRUE
    /\ tcp' = [tcp EXCEPT !.stage = "frames"]
    /\ UNCHANGED <<exchangeVars, seqVars, snapshot_have_start, recovery_mode, replay_last_applied,
                   queueVars, slot, cuts, pushedVars>>

ReadReplayDenied ==
    /\ in_recovery /\ tcp.stage = "N"
    /\ replay_status_read' = TRUE
    /\ StartSnapshotSync({})
    /\ UNCHANGED <<exchangeVars, next_exp_inc_seq_num, replay_last_applied, slot, cuts, pushedVars>>

ReadReplayCurrent ==
    /\ in_recovery /\ tcp.stage = "C"
    /\ replay_status_read' = TRUE
    /\ FinishReplaySync
    /\ UNCHANGED <<exchangeVars, slot, cuts>>

ReadReplayUnexpected ==
    /\ in_recovery /\ tcp.stage = "other"
    /\ replay_status_read' = TRUE
    /\ AbortSnapshotSync
    /\ UNCHANGED <<exchangeVars, slot, cuts>>

\* The decoder's state after decoding as many of the buffered frames as decode.
DecodeBuffered(from, to, moved) ==
    LET run[n \in from..to] ==
            IF n = from
            THEN [upto |-> from, slot |-> slot]
            ELSE LET prev == run[n - 1]
                 IN  IF prev.upto = n - 1 /\ Decodes(prev.slot, feed[n])
                     THEN [upto |-> n, slot |-> Decoded(prev.slot, feed[n], moved)]
                     ELSE prev
    IN  run[to]

\* One more frame arrives; the loop of processReplay goes on from the first
\* buffered frame and stops at one that does not decode.
ReadReplayFrame(moved) ==
    /\ in_recovery /\ tcp.stage = "frames"
    /\ LET received == tcp.rcvd + 1
           result   == DecodeBuffered(replay_last_applied, received, moved)
       IN  \E upto \in replay_last_applied..received :
             /\ upto = result.upto
             /\ slot' = result.slot
             /\ replay_last_applied' = upto
             /\ replay_queued' = replay_queued \cup ((replay_last_applied + 1)..upto)
             /\ tcp' = IF received = tcp.last
                       THEN [Eof EXCEPT !.rcvd = received]
                       ELSE [tcp EXCEPT !.rcvd = received]
    /\ UNCHANGED <<exchangeVars, seqVars, snapshot_have_start, recovery_mode, replay_status_read,
                   incremental_queued, snapshot_queued, cuts, pushedVars>>

\* A frame that decodes but skips a number: the decoder has already seen it.
ReadReplayOutOfOrder(moved) ==
    /\ FaultyServer
    /\ in_recovery /\ tcp.stage = "frames" /\ BufferEmpty /\ tcp.rcvd + 2 <= tcp.last
    /\ DecodeFrame(tcp.rcvd + 2, moved)
    /\ AbortSnapshotSync
    /\ UNCHANGED <<exchangeVars, replay_status_read, cuts>>

\* Mutant: a connection that closes without an answer is ignored.
TcpEof_NoAbort ==
    /\ in_recovery /\ tcp.stage = "eof"
    /\ recovery_mode = "Replay" /\ replay_status_read
    /\ \/ /\ BufferEmpty
          /\ FinishReplaySync
          /\ UNCHANGED replay_status_read
       \/ /\ ~BufferEmpty
          /\ StartReplaySync(replay_last_applied, FALSE, incremental_queued)
          /\ UNCHANGED <<next_exp_inc_seq_num, snapshot_have_start, pushedVars>>
    /\ UNCHANGED <<exchangeVars, slot, cuts>>

\* onSnapshotTcpEof.
TcpEof ==
    /\ in_recovery /\ tcp.stage = "eof"
    /\ \/ /\ recovery_mode = "Replay" /\ replay_status_read /\ BufferEmpty
          /\ FinishReplaySync
          /\ UNCHANGED replay_status_read
       \/ /\ recovery_mode = "Replay" /\ replay_status_read /\ ~BufferEmpty
          /\ StartReplaySync(replay_last_applied, FALSE, incremental_queued)
          /\ UNCHANGED <<next_exp_inc_seq_num, snapshot_have_start, pushedVars>>
       \/ /\ ~(recovery_mode = "Replay" /\ replay_status_read)
          /\ AbortSnapshotSync
          /\ UNCHANGED replay_status_read
    /\ UNCHANGED <<exchangeVars, slot, cuts>>

-----------------------------------------------------------------------------
\* The constructor, then start(): the boot snapshot has been requested.
Init ==
    /\ FeedInit
    /\ next_exp_inc_seq_num = 0
    /\ in_recovery = TRUE
    /\ market_data_synchronized = FALSE
    /\ snapshot_have_start = FALSE
    /\ recovery_mode = "Snapshot"
    /\ replay_status_read = FALSE
    /\ replay_last_applied = 0
    /\ incremental_queued = {}
    /\ snapshot_queued = {}
    /\ replay_queued = {}
    /\ slot = <<>>
    /\ tcp = Requested(0)
    /\ cuts = 0
    /\ applied = {}
    /\ based = FALSE

RecvFrame(seq, moved) ==
    \/ RecvInRecovery(seq, moved)
    \/ RecvBaseline(seq, moved)
    \/ RecvExpected(seq, moved)
    \/ RecvGap(seq, moved)
    \/ RecvStale(seq, moved)

ReadTcp ==
    \/ ReadSnapshotStart
    \/ \E ref \in tcp.todo : ReadSnapshotOrder(ref)
    \/ ReadSnapshotEnd
    \/ ReadReplayGranted
    \/ ReadReplayDenied
    \/ ReadReplayCurrent
    \/ ReadReplayUnexpected
    \/ \E moved \in BOOLEAN : ReadReplayFrame(moved)
    \/ \E moved \in BOOLEAN : ReadReplayOutOfOrder(moved)
    \/ TcpEof

ServerAnswers ==
    \/ ServerAnswersSnapshot
    \/ \E status \in {"R", "N", "C", "other"} : ServerAnswersReplay(status)

Next ==
    \/ ExchangePublishes
    \/ \E seq \in 1..Len(feed), moved \in BOOLEAN : RecvFrame(seq, moved)
    \/ ReadTcp
    \/ ServerAnswers
    \/ \E fragment \in BOOLEAN : ConnectionCut(fragment)

Spec == Init /\ [][Next]_vars

\* run() polls the connection for ever, and the server answers every request.
FairSpec == Spec /\ WF_vars(ReadTcp) /\ WF_vars(ServerAnswers)

-----------------------------------------------------------------------------
MessageType == [type : MsgTypes, ref : Nat, new_ref : Nat, qty : Nat]

TcpType ==
    [stage : Stages, last : Nat, orders : Seq(Nat), todo : SUBSET Nat, rcvd : Nat, fragment : BOOLEAN]

\* The type invariant of the market-data thread: nothing is queued or applied that
\* was not published.  The decoder's vector is left out: every operator is defined
\* on every value it can take.
TypeOK ==
    /\ feed \in Seq(MessageType) /\ books \in Seq(Seq(Nat)) /\ Len(books) = Len(feed)
    /\ next_exp_inc_seq_num \in 0..(Len(feed) + 1)
    /\ in_recovery \in BOOLEAN
    /\ market_data_synchronized \in BOOLEAN
    /\ snapshot_have_start \in BOOLEAN
    /\ recovery_mode \in {"None", "Snapshot", "Replay"}
    /\ replay_status_read \in BOOLEAN
    /\ replay_last_applied \in 0..Len(feed)
    /\ incremental_queued \subseteq 1..Len(feed)
    /\ snapshot_queued \subseteq Nat
    /\ replay_queued \subseteq 1..Len(feed)
    /\ tcp \in TcpType
    /\ cuts \in 0..MaxCuts
    /\ applied \subseteq 1..Len(feed)
    /\ based \in BOOLEAN

\* processIncremental and both finish functions: the frames handed to the trade
\* engine form one run of consecutive numbers that ends just below
\* next_exp_inc_seq_num_, starting at 1 once a snapshot was handed over.
NoGapReachesEngine ==
    /\ \E first \in 1..(Len(feed) + 1) : applied = first..(next_exp_inc_seq_num - 1)
    /\ based => applied = 1..(next_exp_inc_seq_num - 1)

\* The recovery state machine is never half left: outside recovery the mode is
\* None, the socket is closed, nothing is queued; inside it a request is open.
RecoveryStateConsistent ==
    /\ in_recovery <=> recovery_mode # "None"
    /\ in_recovery <=> tcp.stage # "closed"
    /\ ~in_recovery => incremental_queued = {} /\ snapshot_queued = {} /\ replay_queued = {}
    /\ market_data_synchronized => ~in_recovery

\* What the trade engine is promised, see SequencedStream.
Stream == INSTANCE SequencedStream WITH
    applied <- applied, next <- next_exp_inc_seq_num, gate <- market_data_synchronized

\* Every behaviour of the market-data thread is one of the abstract stream: live
\* frames extend it by one, a replay by exactly the gap, and only a complete
\* snapshot may restart it.
ImplementsStream == Stream!SSpec

\* A replay that was cut short and resumed, any number of times, has collected
\* each missing frame exactly from the expected one to the last applied one.
ReplayQueueExact ==
    recovery_mode = "Replay" =>
        /\ next_exp_inc_seq_num # 0
        /\ replay_queued = next_exp_inc_seq_num..replay_last_applied

\* What the recovery connection may hold in each mode, and how far it has got.
\* With the properties above this is inductive.
ConnectionInv ==
    /\ tcp.stage \in {"R", "N", "C", "other", "frames"} => recovery_mode = "Replay"
    /\ tcp.stage \in {"START", "ADDS", "END"} => recovery_mode = "Snapshot"
    /\ tcp.last <= Len(feed) /\ tcp.rcvd <= Len(feed)
    /\ tcp.stage \in {"R", "frames"} => tcp.rcvd < tcp.last
    /\ recovery_mode = "Replay" =>
         replay_last_applied <= tcp.rcvd /\ next_exp_inc_seq_num - 1 <= replay_last_applied
    /\ recovery_mode = "Snapshot" => replay_queued = {}
    /\ based \/ market_data_synchronized => next_exp_inc_seq_num # 0

\* A snapshot is read whole: what has been queued and what is still to come are
\* the orders on the book.
SnapshotInv ==
    LET live == {r \in DOMAIN tcp.orders : tcp.orders[r] # 0}
    IN  /\ tcp.stage = "START" => tcp.todo = live
        /\ tcp.stage \in {"ADDS", "END"} =>
             snapshot_have_start /\ tcp.todo \subseteq live /\ snapshot_queued = live \ tcp.todo
        /\ tcp.stage = "END" => tcp.todo = {}

RecoveryInv ==
    /\ TypeOK /\ RecoveryStateConsistent /\ ReplayQueueExact /\ NoGapReachesEngine
    /\ ConnectionInv /\ SnapshotInv

\* onSnapshotTcpEof, abort and the finish functions: every recovery ends.
RecoveryEnds == in_recovery ~> ~in_recovery

\* The next frame of the replay is one the decoder does not take.
ReplayWedged ==
    /\ recovery_mode = "Replay" /\ replay_last_applied < Len(feed)
    /\ ~Decodes(slot, feed[replay_last_applied + 1])

\* onSnapshotTcpEof, abort and the finish functions: wherever a connection is cut and
\* however a request is answered, a recovery ends, or comes to a replayed frame that
\* processReplay cannot decode; there is no other way to stay in recovery.
RecoveryEndsOrWedges == in_recovery ~> (~in_recovery \/ ReplayWedged)

\* market_data.h:19: the gate opens only on an authoritative snapshot.
SynchronizedOnSnapshot == market_data_synchronized => based

=============================================================================
