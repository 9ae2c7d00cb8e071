-------------------------- MODULE MarketDataProofs --------------------------
(***************************************************************************)
(* The market-data thread for every feed, every capacity and any number of *)
(* broken connections: RecoveryInv is inductive, and every step is one of  *)
(* the abstract stream of SequencedStream.                                 *)
(***************************************************************************)
EXTENDS MarketDataConsumer, TLAPS

-----------------------------------------------------------------------------
(***************************************************************************)
(* The exchange                                                            *)
(***************************************************************************)

\* Appending to a sequence: its length and its elements.
LEMMA AppendFacts ==
    ASSUME NEW S, NEW s \in Seq(S), NEW x \in S
    PROVE  /\ Append(s, x) \in Seq(S)
           /\ Len(Append(s, x)) = Len(s) + 1
  OBVIOUS

\* Changing one element of a sequence.
LEMMA UpdateFacts ==
    ASSUME NEW S, NEW s \in Seq(S), NEW i \in DOMAIN s, NEW x \in S
    PROVE  [s EXCEPT ![i] = x] \in Seq(S)
<1>1. DOMAIN [s EXCEPT ![i] = x] = 1..Len(s)
  OBVIOUS
<1>2. \A j \in 1..Len(s) : [s EXCEPT ![i] = x][j] \in S
  OBVIOUS
<1>3. [s EXCEPT ![i] = x] = [j \in 1..Len(s) |-> [s EXCEPT ![i] = x][j]]
  OBVIOUS
<1> QED
  BY <1>1, <1>2, <1>3

\* The exchange's book is a sequence of quantities.
LEMMA BookTyped ==
    ASSUME TypeOK, NEW n \in 0..Len(feed)
    PROVE  /\ Book(n) \in Seq(Nat)
           /\ Live(n) = {r \in DOMAIN Book(n) : Book(n)[r] # 0}
           /\ Live(n) \in SUBSET Nat
<1>1. Book(n) \in Seq(Nat)
  <2>1. CASE n = 0
    BY <2>1 DEF Book
  <2>2. CASE n # 0
    <3>1. n \in 1..Len(books)
      BY <2>2 DEF TypeOK
    <3> QED
      BY <3>1, <2>2 DEF TypeOK, Book
  <2> QED
    BY <2>1, <2>2
<1>2. DOMAIN Book(n) \subseteq Nat
  BY <1>1
<1> QED
  BY <1>1, <1>2 DEF Live

\* A message the exchange publishes is well typed.
LEMMA LegalTyped ==
    ASSUME TypeOK, NEW m \in LegalMessages
    PROVE  /\ m \in MessageType
           /\ m.type \in {"EXECUTE", "CANCEL", "DELETE", "REPLACE"} => m.ref \in DOMAIN Book(Len(feed))
           /\ m.type \in {"EXECUTE", "CANCEL"} => m.qty <= Book(Len(feed))[m.ref]
<1> DEFINE book == Book(Len(feed))
           live == Live(Len(feed))
<1>1. book \in Seq(Nat) /\ live \subseteq DOMAIN book /\ DOMAIN book \subseteq Nat /\ Len(book) + 1 \in Nat
  <2>1. Len(feed) \in 0..Len(feed)
    BY DEF TypeOK
  <2>2. book \in Seq(Nat) /\ live = {r \in DOMAIN book : book[r] # 0}
    BY <2>1, BookTyped
  <2> QED
    BY <2>2
<1>2. m.type \in MsgTypes
  BY DEF LegalMessages
<1>3. m.type \in {"EXECUTE", "CANCEL"} => m.qty <= book[m.ref]
  BY DEF LegalMessages
<1>4. CASE \E q \in 1..MaxQty : m = Message("ADD", Len(book) + 1, 0, q)
  BY <1>1, <1>2, <1>4, FeedAssumption DEF Message, MessageType
<1>5. CASE \E t \in {"EXECUTE", "CANCEL"}, r \in live, q \in 1..MaxQty : m = Message(t, r, 0, q)
  BY <1>1, <1>2, <1>3, <1>5, FeedAssumption DEF Message, MessageType
<1>6. CASE \E r \in live : m = Message("DELETE", r, 0, 0)
  BY <1>1, <1>2, <1>6 DEF Message, MessageType
<1>7. CASE \E r \in live, q \in 1..MaxQty : m = Message("REPLACE", r, Len(book) + 1, q)
  BY <1>1, <1>2, <1>7, FeedAssumption DEF Message, MessageType
<1> QED
  BY <1>4, <1>5, <1>6, <1>7 DEF LegalMessages

\* The exchange's book stays a sequence of quantities.
LEMMA BookAfterTyped ==
    ASSUME NEW book \in Seq(Nat), NEW m \in MessageType,
           m.type \in {"EXECUTE", "CANCEL", "DELETE", "REPLACE"} => m.ref \in DOMAIN book,
           m.type \in {"EXECUTE", "CANCEL"} => m.qty <= book[m.ref]
    PROVE  BookAfter(book, m) \in Seq(Nat)
<1>1. m.qty \in Nat
  BY DEF MessageType
<1>2. CASE m.type \in {"EXECUTE", "CANCEL"}
  <2>1. book[m.ref] - m.qty \in Nat
    BY <1>1, <1>2
  <2>2. [book EXCEPT ![m.ref] = book[m.ref] - m.qty] \in Seq(Nat)
    BY <1>2, <2>1, UpdateFacts
  <2> QED
    BY <1>2, <2>2 DEF BookAfter
<1>3. CASE m.type = "DELETE"
  <2>1. [book EXCEPT ![m.ref] = 0] \in Seq(Nat)
    BY <1>3, UpdateFacts
  <2> QED
    BY <1>3, <2>1 DEF BookAfter
<1>4. CASE m.type = "REPLACE"
  <2>1. [book EXCEPT ![m.ref] = 0] \in Seq(Nat)
    BY <1>4, UpdateFacts
  <2>2. Append([book EXCEPT ![m.ref] = 0], m.qty) \in Seq(Nat)
    BY <2>1, <1>1
  <2> QED
    BY <1>4, <2>2 DEF BookAfter
<1>5. CASE m.type \notin {"EXECUTE", "CANCEL", "DELETE", "REPLACE"}
  <2>1. Append(book, m.qty) \in Seq(Nat)
    BY <1>1
  <2> QED
    BY <1>5, <2>1 DEF BookAfter
<1> QED
  BY <1>2, <1>3, <1>4, <1>5

-----------------------------------------------------------------------------
(***************************************************************************)
(* The recovery connection                                                 *)
(***************************************************************************)

\* snapshot_tcp_fd_ is -1.
LEMMA ClosedFacts ==
    /\ NoConnection \in TcpType
    /\ NoConnection.stage = "closed" /\ NoConnection.last = 0 /\ NoConnection.rcvd = 0
  BY DEF NoConnection, TcpType, Stages

\* A connection on which a request was sent and not answered.
LEMMA RequestedFacts ==
    ASSUME NEW n \in Nat
    PROVE  /\ Requested(n) \in TcpType
           /\ Requested(n).stage = "asked" /\ Requested(n).last = 0 /\ Requested(n).rcvd = n
  BY ClosedFacts DEF Requested, TcpType, Stages

\* A connection that the peer has closed.
LEMMA EofFacts ==
    ASSUME tcp \in TcpType
    PROVE  Eof \in TcpType /\ Eof.stage = "eof" /\ Eof.last = 0 /\ Eof.rcvd = tcp.rcvd
<1>1. <<>> \in Seq(Nat) /\ {} \in SUBSET Nat
  OBVIOUS
<1> QED
  BY <1>1 DEF Eof, TcpType, Stages

-----------------------------------------------------------------------------
(***************************************************************************)
(* Entering and leaving recovery                                           *)
(***************************************************************************)

\* abortSnapshotSync, from any state of a recovery.
LEMMA AbortInv ==
    ASSUME RecoveryInv, AbortSnapshotSync, UNCHANGED <<exchangeVars, cuts>>,
           replay_status_read' \in BOOLEAN
    PROVE  RecoveryInv'
<1> USE DEF RecoveryInv, AbortSnapshotSync, exchangeVars, pushedVars
<1>1. tcp' \in TcpType /\ tcp'.stage = "closed" /\ tcp'.last = 0 /\ tcp'.rcvd = 0
  BY ClosedFacts
<1>2. TypeOK'
  BY <1>1 DEF TypeOK
<1>3. RecoveryStateConsistent' /\ ReplayQueueExact' /\ SnapshotInv'
  BY <1>1 DEF RecoveryStateConsistent, ReplayQueueExact, SnapshotInv
<1>4. NoGapReachesEngine'
  BY DEF NoGapReachesEngine
<1>5. ConnectionInv'
  BY <1>1 DEF ConnectionInv, TypeOK
<1> QED
  BY <1>2, <1>3, <1>4, <1>5

\* startSnapshotSync.
LEMMA SnapshotStartInv ==
    ASSUME RecoveryInv, NEW kept \in SUBSET (1..Len(feed)), StartSnapshotSync(kept),
           UNCHANGED <<exchangeVars, cuts, pushedVars, next_exp_inc_seq_num, replay_last_applied>>,
           replay_status_read' \in BOOLEAN
    PROVE  RecoveryInv'
<1> USE DEF RecoveryInv, StartSnapshotSync, exchangeVars, pushedVars
<1>1. tcp' \in TcpType /\ tcp'.stage = "asked" /\ tcp'.last = 0 /\ tcp'.rcvd = 0
  BY RequestedFacts
<1>2. TypeOK'
  BY <1>1 DEF TypeOK
<1>3. RecoveryStateConsistent' /\ ReplayQueueExact' /\ SnapshotInv'
  BY <1>1 DEF RecoveryStateConsistent, ReplayQueueExact, SnapshotInv
<1>4. NoGapReachesEngine'
  BY DEF NoGapReachesEngine
<1>5. ConnectionInv'
  BY <1>1 DEF ConnectionInv, TypeOK
<1> QED
  BY <1>2, <1>3, <1>4, <1>5

\* startReplaySync, for a new gap (nothing replayed yet) or to resume a replay.
LEMMA ReplayStartInv ==
    ASSUME RecoveryInv, NEW client_seq \in 0..Len(feed), NEW fresh \in BOOLEAN,
           NEW kept \in SUBSET (1..Len(feed)),
           StartReplaySync(client_seq, fresh, kept),
           UNCHANGED <<exchangeVars, cuts, pushedVars, next_exp_inc_seq_num, snapshot_have_start>>,
           next_exp_inc_seq_num # 0,
           IF fresh THEN client_seq = next_exp_inc_seq_num - 1
                    ELSE recovery_mode = "Replay" /\ client_seq = replay_last_applied
    PROVE  RecoveryInv'
<1> USE DEF RecoveryInv, StartReplaySync, exchangeVars, pushedVars
<1>1. tcp' \in TcpType /\ tcp'.stage = "asked" /\ tcp'.last = 0 /\ tcp'.rcvd = client_seq
  BY RequestedFacts
<1>2. TypeOK'
  BY <1>1 DEF TypeOK
<1>3. RecoveryStateConsistent' /\ SnapshotInv'
  BY <1>1 DEF RecoveryStateConsistent, SnapshotInv
<1>4. ReplayQueueExact'
  <2>1. CASE fresh
    BY <2>1 DEF ReplayQueueExact, TypeOK
  <2>2. CASE ~fresh
    BY <2>2 DEF ReplayQueueExact, TypeOK
  <2> QED
    BY <2>1, <2>2
<1>5. NoGapReachesEngine'
  BY DEF NoGapReachesEngine
<1>6. ConnectionInv'
  BY <1>1 DEF ConnectionInv, TypeOK
<1> QED
  BY <1>2, <1>3, <1>4, <1>5, <1>6

\* A run of numbers that is extended by the numbers after it is a run.
LEMMA RunExtends ==
    ASSUME NEW n \in Nat, NEW a \in 1..(n + 1), NEW b \in 1..(n + 1), NEW c \in b..(n + 1)
    PROVE  \E first \in 1..(n + 1) : (a..(b - 1)) \cup (b..(c - 1)) = first..(c - 1)
<1>1. CASE a <= b
  <2>1. (a..(b - 1)) \cup (b..(c - 1)) = a..(c - 1)
    BY <1>1
  <2> QED
    BY <2>1
<1>2. CASE a > b
  <2>1. (a..(b - 1)) \cup (b..(c - 1)) = b..(c - 1)
    BY <1>2
  <2> QED
    BY <2>1
<1> QED
  BY <1>1, <1>2

\* Where a successful recovery leaves the thread, whatever it handed over.
LEMMA SynchronizedInv ==
    ASSUME RecoveryInv, UNCHANGED <<exchangeVars, cuts, replay_last_applied>>,
           NEW recovered, NEW complete \in BOOLEAN, NEW resume_seq \in 1..(Len(feed) + 1),
           NEW expected \in resume_seq..(Len(feed) + 1),
           Synchronize(recovered, complete, resume_seq, expected),
           snapshot_have_start' \in BOOLEAN, replay_status_read' \in BOOLEAN,
           \E first \in 1..(Len(feed) + 1) : applied' = first..(expected - 1),
           complete => applied' = 1..(expected - 1)
    PROVE  RecoveryInv'
<1> USE DEF RecoveryInv, exchangeVars
<1>1. tcp' \in TcpType /\ tcp'.stage = "closed" /\ tcp'.last = 0 /\ tcp'.rcvd = 0
  BY ClosedFacts DEF Synchronize
<1>2. Len(feed) \in Nat
  BY DEF TypeOK
<1>3. next_exp_inc_seq_num' = expected /\ based' = complete /\ feed' = feed
  BY DEF Synchronize
<1>4. TypeOK'
  <2>1. applied' \subseteq 1..Len(feed)
    BY <1>2
  <2>2. next_exp_inc_seq_num' \in 0..(Len(feed) + 1)
    BY <1>2, <1>3
  <2>3. /\ in_recovery' = FALSE /\ market_data_synchronized' = TRUE /\ recovery_mode' = "None"
        /\ incremental_queued' = {} /\ snapshot_queued' = {} /\ replay_queued' = {}
    BY DEF Synchronize
  <2> QED
    BY <1>1, <1>3, <2>1, <2>2, <2>3 DEF TypeOK
<1>5. RecoveryStateConsistent' /\ ReplayQueueExact' /\ SnapshotInv'
  BY <1>1 DEF RecoveryStateConsistent, ReplayQueueExact, SnapshotInv, Synchronize
<1>6. NoGapReachesEngine'
  BY <1>3 DEF NoGapReachesEngine
<1>7. ConnectionInv'
  BY <1>1, <1>2, <1>3 DEF ConnectionInv, Synchronize
<1> QED
  BY <1>4, <1>5, <1>6, <1>7

\* finishReplaySync hands over exactly the numbers from the expected one on.
LEMMA ReplayHandsOver ==
    ASSUME RecoveryInv, recovery_mode = "Replay",
           NEW expected \in QueueEnds(replay_last_applied + 1),
           QueueContiguous(replay_last_applied + 1, expected),
           Synchronize(applied \cup replay_queued, based, replay_last_applied + 1, expected)
    PROVE  /\ replay_last_applied + 1 \in 1..(Len(feed) + 1)
           /\ expected \in (replay_last_applied + 1)..(Len(feed) + 1)
           /\ next_exp_inc_seq_num \in 1..expected
           /\ applied' = applied \cup (next_exp_inc_seq_num..(expected - 1))
<1> DEFINE last == replay_last_applied
           next == next_exp_inc_seq_num
<1>1. /\ Len(feed) \in Nat /\ last \in 0..Len(feed) /\ next \in 1..(Len(feed) + 1) /\ next - 1 <= last
      /\ replay_queued = next..last
  BY DEF RecoveryInv, TypeOK, ReplayQueueExact, ConnectionInv
<1>2. expected \in (last + 1)..(Len(feed) + 1)
  BY DEF QueueEnds
<1>3. applied' = (applied \cup (next..last)) \cup ((last + 1)..(expected - 1))
  BY <1>1 DEF Synchronize, QueueContiguous
<1>4. (next..last) \cup ((last + 1)..(expected - 1)) = next..(expected - 1)
  BY <1>1, <1>2
<1>5. applied' = applied \cup (next..(expected - 1))
  BY <1>3, <1>4
<1> QED
  BY <1>1, <1>2, <1>5

\* finishReplaySync keeps the invariant, whether it synchronizes or aborts.
LEMMA FinishReplayInv ==
    ASSUME RecoveryInv, recovery_mode = "Replay", FinishReplaySync,
           UNCHANGED <<exchangeVars, cuts>>, replay_status_read' \in BOOLEAN
    PROVE  RecoveryInv'
<1> DEFINE resume_seq == replay_last_applied + 1
<1>1. ASSUME NEW expected \in QueueEnds(resume_seq), QueueContiguous(resume_seq, expected),
             Synchronize(applied \cup replay_queued, based, resume_seq, expected),
             UNCHANGED <<snapshot_have_start, replay_last_applied>>
      PROVE  RecoveryInv'
  <2> DEFINE next == next_exp_inc_seq_num
  <2>1. /\ resume_seq \in 1..(Len(feed) + 1) /\ expected \in resume_seq..(Len(feed) + 1)
        /\ next \in 1..expected
        /\ applied' = applied \cup (next..(expected - 1))
    BY <1>1, ReplayHandsOver
  <2>2. Len(feed) \in Nat /\ snapshot_have_start' \in BOOLEAN /\ based \in BOOLEAN
    BY <1>1 DEF RecoveryInv, TypeOK
  <2>3. next \in 1..(Len(feed) + 1) /\ expected \in next..(Len(feed) + 1)
    BY <2>1, <2>2
  <2>4. PICK first \in 1..(Len(feed) + 1) : applied = first..(next - 1)
    BY DEF RecoveryInv, NoGapReachesEngine
  <2>5. \E f \in 1..(Len(feed) + 1) : applied' = f..(expected - 1)
    BY <2>1, <2>2, <2>3, <2>4, RunExtends
  <2>6. based => applied' = 1..(expected - 1)
    <3>1. (1..(next - 1)) \cup (next..(expected - 1)) = 1..(expected - 1)
      BY <2>2, <2>3
    <3> QED
      BY <2>1, <3>1 DEF RecoveryInv, NoGapReachesEngine
  <2> HIDE DEF resume_seq, next
  <2> QED
    BY <1>1, <2>1, <2>2, <2>5, <2>6, SynchronizedInv
<1>2. CASE AbortSnapshotSync
  BY <1>2, AbortInv
<1> QED
  BY <1>1, <1>2 DEF FinishReplaySync

-----------------------------------------------------------------------------
(***************************************************************************)
(* Frames                                                                  *)
(***************************************************************************)

\* A longer feed leaves everything that was received as it is.
LEMMA PublishInv == RecoveryInv /\ ExchangePublishes => RecoveryInv'
<1> SUFFICES ASSUME RecoveryInv, NEW msg \in LegalMessages, Publish(msg),
                    UNCHANGED <<seqVars, recoveryVars, queueVars, slot, tcp, cuts, pushedVars>>
             PROVE  RecoveryInv'
  BY DEF ExchangePublishes
<1> USE DEF RecoveryInv, seqVars, recoveryVars, queueVars, pushedVars
<1>1. msg \in MessageType /\ Book(Len(feed)) \in Seq(Nat) /\ BookAfter(Book(Len(feed)), msg) \in Seq(Nat)
  <2>1. Len(feed) \in 0..Len(feed)
    BY DEF TypeOK
  <2> QED
    BY <2>1, LegalTyped, BookTyped, BookAfterTyped
<1>2. /\ feed' \in Seq(MessageType) /\ books' \in Seq(Seq(Nat))
      /\ Len(feed') = Len(feed) + 1 /\ Len(books') = Len(books) + 1 /\ Len(feed) \in Nat
  <2>1. feed \in Seq(MessageType) /\ books \in Seq(Seq(Nat)) /\ Len(feed) \in Nat
    BY DEF TypeOK
  <2>2. feed' = Append(feed, msg) /\ books' = Append(books, BookAfter(Book(Len(feed)), msg))
    BY DEF Publish
  <2>3. Append(feed, msg) \in Seq(MessageType) /\ Len(Append(feed, msg)) = Len(feed) + 1
    BY <1>1, <2>1, AppendFacts
  <2>4. \A b \in Seq(Nat) : Append(books, b) \in Seq(Seq(Nat)) /\ Len(Append(books, b)) = Len(books) + 1
    BY <2>1, AppendFacts
  <2> QED
    BY <1>1, <2>1, <2>2, <2>3, <2>4
<1>3. TypeOK'
  BY <1>2 DEF TypeOK
<1>4. RecoveryStateConsistent' /\ ReplayQueueExact' /\ SnapshotInv'
  BY DEF RecoveryStateConsistent, ReplayQueueExact, SnapshotInv
<1>5. NoGapReachesEngine'
  BY <1>2 DEF NoGapReachesEngine
<1>6. ConnectionInv'
  <2>1. tcp.last \in Nat /\ tcp.rcvd \in Nat
    BY DEF TypeOK, TcpType
  <2> QED
    BY <1>2, <2>1 DEF ConnectionInv
<1> QED
  BY <1>3, <1>4, <1>5, <1>6

\* One UDP frame: queued, made the baseline, handed over, or the sign of a gap.
LEMMA RecvFrameInv ==
    ASSUME RecoveryInv, NEW seq \in 1..Len(feed), NEW moved \in BOOLEAN, RecvFrame(seq, moved)
    PROVE  RecoveryInv'
<1> DEFINE next == next_exp_inc_seq_num
<1> USE DEF RecoveryInv, exchangeVars, seqVars, recoveryVars, queueVars, pushedVars
<1>1. Len(feed) \in Nat /\ next \in 0..(Len(feed) + 1)
  BY DEF TypeOK
<1>2. PICK first \in 1..(Len(feed) + 1) : applied = first..(next - 1)
  BY DEF NoGapReachesEngine
<1>3. CASE RecvInRecovery(seq, moved)
  <2> USE <1>3 DEF RecvInRecovery
  <2>1. TypeOK'
    BY DEF TypeOK
  <2>2. RecoveryStateConsistent' /\ ReplayQueueExact' /\ SnapshotInv' /\ NoGapReachesEngine' /\ ConnectionInv'
    BY DEF RecoveryStateConsistent, ReplayQueueExact, SnapshotInv, NoGapReachesEngine, ConnectionInv
  <2> QED
    BY <2>1, <2>2
<1>4. CASE RecvBaseline(seq, moved)
  <2> USE <1>4 DEF RecvBaseline
  <2>1. TypeOK'
    BY DEF TypeOK
  <2>2. NoGapReachesEngine' /\ ConnectionInv'
    <3>1. applied' = seq..seq /\ ~based'
      BY <1>1, <1>2 DEF ConnectionInv
    <3>2. applied' = seq..(next_exp_inc_seq_num' - 1)
      BY <1>1, <3>1
    <3>3. NoGapReachesEngine'
      BY <1>1, <3>1, <3>2 DEF NoGapReachesEngine
    <3> QED
      BY <3>1, <3>3 DEF ConnectionInv, RecoveryStateConsistent
  <2>3. RecoveryStateConsistent' /\ ReplayQueueExact' /\ SnapshotInv'
    BY DEF RecoveryStateConsistent, ReplayQueueExact, SnapshotInv
  <2> QED
    BY <2>1, <2>2, <2>3
<1>5. CASE RecvExpected(seq, moved)
  <2> USE <1>5 DEF RecvExpected
  <2>1. TypeOK'
    BY DEF TypeOK
  <2>2. NoGapReachesEngine'
    <3>1. applied' = applied \cup (next..((next + 1) - 1)) /\ next + 1 \in next..(Len(feed) + 1)
      BY <1>1
    <3>2. \E f \in 1..(Len(feed) + 1) : applied' = f..((next + 1) - 1)
      BY <1>1, <1>2, <3>1, RunExtends
    <3>3. based => applied' = 1..((next + 1) - 1)
      BY <1>1, <3>1 DEF NoGapReachesEngine
    <3> QED
      BY <3>2, <3>3 DEF NoGapReachesEngine
  <2>3. ConnectionInv'
    BY <1>1 DEF ConnectionInv, RecoveryStateConsistent
  <2>4. RecoveryStateConsistent' /\ ReplayQueueExact' /\ SnapshotInv'
    BY DEF RecoveryStateConsistent, ReplayQueueExact, SnapshotInv
  <2> QED
    BY <2>1, <2>2, <2>3, <2>4
<1>6. CASE RecvGap(seq, moved)
  <2>1. next # 0 /\ next - 1 \in 0..Len(feed) /\ {seq} \in SUBSET (1..Len(feed))
    BY <1>1, <1>6 DEF RecvGap
  <2>2. CASE seq - next <= REPLAY_CAPACITY
    BY <1>6, <2>1, <2>2, ReplayStartInv DEF RecvGap
  <2>3. CASE ~(seq - next <= REPLAY_CAPACITY)
    <3>1. replay_status_read' \in BOOLEAN
      BY <1>6, <2>3 DEF RecvGap, TypeOK
    <3> QED
      BY <1>6, <2>1, <2>3, <3>1, SnapshotStartInv DEF RecvGap
  <2> QED
    BY <2>2, <2>3
<1>7. CASE RecvStale(seq, moved)
  <2> USE <1>7 DEF RecvStale
  <2>1. TypeOK'
    BY DEF TypeOK
  <2>2. RecoveryStateConsistent' /\ ReplayQueueExact' /\ SnapshotInv' /\ NoGapReachesEngine' /\ ConnectionInv'
    BY DEF RecoveryStateConsistent, ReplayQueueExact, SnapshotInv, NoGapReachesEngine, ConnectionInv
  <2> QED
    BY <2>1, <2>2
<1> QED
  BY <1>3, <1>4, <1>5, <1>6, <1>7 DEF RecvFrame

-----------------------------------------------------------------------------
(***************************************************************************)
(* The recovery stream                                                     *)
(***************************************************************************)

\* A connection after the server's answer to a replay request.
LEMMA ReplayAnswered ==
    ASSUME tcp \in TcpType, NEW stage \in Stages, NEW n \in Nat,
           tcp' = [tcp EXCEPT !.stage = stage, !.last = n]
    PROVE  tcp' \in TcpType /\ tcp'.stage = stage /\ tcp'.last = n /\ tcp'.rcvd = tcp.rcvd
  BY DEF TcpType

\* A connection after the server's answer to a snapshot request.
LEMMA SnapshotAnswered ==
    ASSUME tcp \in TcpType, NEW n \in Nat, NEW o \in Seq(Nat), NEW d \in SUBSET Nat,
           tcp' = [tcp EXCEPT !.stage = "START", !.last = n, !.orders = o, !.todo = d]
    PROVE  /\ tcp' \in TcpType /\ tcp'.stage = "START" /\ tcp'.last = n /\ tcp'.rcvd = tcp.rcvd
           /\ tcp'.orders = o /\ tcp'.todo = d
  BY DEF TcpType, Stages

\* The server answers, or the connection breaks.
LEMMA ServerInv ==
    ASSUME RecoveryInv, ServerAnswers \/ \E fragment \in BOOLEAN : ConnectionCut(fragment)
    PROVE  RecoveryInv'
<1> USE DEF RecoveryInv, exchangeVars, seqVars, recoveryVars, queueVars, pushedVars
<1>1. tcp \in TcpType /\ Len(feed) \in Nat
  BY DEF TypeOK
<1>2. CASE ServerAnswersSnapshot
  <2>1. PICK n \in AnswerPoints :
          tcp' = [tcp EXCEPT !.stage = "START", !.last = n, !.orders = Book(n), !.todo = Live(n)]
    BY <1>2 DEF ServerAnswersSnapshot
  <2>2. n \in 0..Len(feed)
    BY <2>1 DEF AnswerPoints
  <2>3. /\ Book(n) \in Seq(Nat) /\ Live(n) \in SUBSET Nat
        /\ Live(n) = {r \in DOMAIN Book(n) : Book(n)[r] # 0}
    BY <2>2, BookTyped
  <2>4. /\ tcp' \in TcpType /\ tcp'.stage = "START" /\ tcp'.last = n /\ tcp'.orders = Book(n)
        /\ tcp'.todo = Live(n) /\ tcp'.rcvd = tcp.rcvd
    <3>1. n \in Nat
      BY <1>1, <2>2
    <3> QED
      BY <1>1, <2>1, <2>3, <3>1, SnapshotAnswered
  <2> USE <1>2 DEF ServerAnswersSnapshot
  <2>5. TypeOK'
    BY <2>4 DEF TypeOK
  <2>6. RecoveryStateConsistent' /\ ReplayQueueExact' /\ NoGapReachesEngine' /\ ConnectionInv'
    BY <2>2, <2>4 DEF RecoveryStateConsistent, ReplayQueueExact, NoGapReachesEngine, ConnectionInv
  <2>7. SnapshotInv'
    BY <2>3, <2>4 DEF SnapshotInv
  <2> QED
    BY <2>5, <2>6, <2>7
<1>3. ASSUME NEW status \in {"R", "N", "C", "other"}, ServerAnswersReplay(status)
      PROVE  RecoveryInv'
  <2>1. PICK n \in AnswerPoints :
          /\ status \in {"R", "N"} => n > tcp.rcvd
          /\ tcp' = [tcp EXCEPT !.stage = status, !.last = n]
    BY <1>3 DEF ServerAnswersReplay
  <2>2. n \in 0..Len(feed)
    BY <2>1 DEF AnswerPoints
  <2>3. tcp' \in TcpType /\ tcp'.stage = status /\ tcp'.last = n /\ tcp'.rcvd = tcp.rcvd /\ tcp.rcvd \in Nat
    <3>1. status \in Stages /\ n \in Nat
      BY <1>1, <1>3, <2>2 DEF Stages
    <3>2. tcp.rcvd \in Nat
      BY <1>1 DEF TcpType
    <3> QED
      BY <1>1, <2>1, <3>1, <3>2, ReplayAnswered
  <2> USE <1>3 DEF ServerAnswersReplay
  <2>4. TypeOK'
    BY <2>3 DEF TypeOK
  <2>5. RecoveryStateConsistent' /\ ReplayQueueExact' /\ NoGapReachesEngine' /\ SnapshotInv'
    BY <2>3 DEF RecoveryStateConsistent, ReplayQueueExact, NoGapReachesEngine, SnapshotInv
  <2>6. ConnectionInv'
    BY <1>1, <2>1, <2>2, <2>3 DEF ConnectionInv
  <2> QED
    BY <2>4, <2>5, <2>6
<1>4. ASSUME NEW fragment \in BOOLEAN, ConnectionCut(fragment)
      PROVE  RecoveryInv'
  <2>1. Eof \in TcpType /\ Eof.stage = "eof" /\ Eof.last = 0 /\ Eof.rcvd = tcp.rcvd
    BY <1>1, EofFacts
  <2>2. tcp' \in TcpType /\ tcp'.stage = "eof" /\ tcp'.last = 0 /\ tcp'.rcvd = tcp.rcvd
    BY <1>4, <2>1 DEF ConnectionCut, TcpType
  <2> USE <1>4 DEF ConnectionCut
  <2>3. TypeOK'
    BY <2>2, MaxCutsAssumption DEF TypeOK
  <2>4. RecoveryStateConsistent' /\ ReplayQueueExact' /\ NoGapReachesEngine' /\ SnapshotInv' /\ ConnectionInv'
    BY <1>1, <2>2 DEF RecoveryStateConsistent, ReplayQueueExact, NoGapReachesEngine, SnapshotInv, ConnectionInv
  <2> QED
    BY <2>3, <2>4
<1> QED
  BY <1>2, <1>3, <1>4 DEF ServerAnswers

\* The snapshot is queued order by order.
LEMMA ReadSnapshotInv ==
    ASSUME RecoveryInv, ReadSnapshotStart \/ \E ref \in tcp.todo : ReadSnapshotOrder(ref)
    PROVE  RecoveryInv'
<1> USE DEF RecoveryInv, exchangeVars, seqVars, recoveryVars, queueVars, pushedVars
<1>1. tcp \in TcpType /\ tcp.todo \in SUBSET Nat
  BY DEF TypeOK, TcpType
<1>2. CASE ReadSnapshotStart
  <2> USE <1>2 DEF ReadSnapshotStart
  <2>1. /\ tcp' \in TcpType /\ tcp'.stage = (IF tcp.todo = {} THEN "END" ELSE "ADDS")
        /\ tcp'.last = tcp.last /\ tcp'.rcvd = tcp.rcvd
        /\ tcp'.orders = tcp.orders /\ tcp'.todo = tcp.todo
    BY <1>1 DEF TcpType, Stages
  <2>2. TypeOK'
    BY <2>1 DEF TypeOK
  <2>3. RecoveryStateConsistent' /\ ReplayQueueExact' /\ NoGapReachesEngine' /\ ConnectionInv'
    BY <2>1 DEF RecoveryStateConsistent, ReplayQueueExact, NoGapReachesEngine, ConnectionInv
  <2>4. SnapshotInv'
    BY <2>1 DEF SnapshotInv
  <2> QED
    BY <2>2, <2>3, <2>4
<1>3. ASSUME NEW ref \in tcp.todo, ReadSnapshotOrder(ref)
      PROVE  RecoveryInv'
  <2> USE <1>3 DEF ReadSnapshotOrder
  <2>1. /\ tcp' \in TcpType /\ tcp'.stage = (IF tcp.todo = {ref} THEN "END" ELSE "ADDS")
        /\ tcp'.last = tcp.last /\ tcp'.rcvd = tcp.rcvd
        /\ tcp'.orders = tcp.orders /\ tcp'.todo = tcp.todo \ {ref}
    <3>1. tcp.todo \ {ref} \in SUBSET Nat
      BY <1>1
    <3> QED
      BY <1>1, <3>1 DEF TcpType, Stages
  <2>2. snapshot_have_start /\ snapshot_queued' = snapshot_queued \cup {ref}
    BY DEF SnapshotInv
  <2>3. TypeOK'
    BY <1>1, <2>1, <2>2 DEF TypeOK
  <2>4. tcp'.stage \in {"ADDS", "END"} /\ (tcp'.stage = "END" => tcp'.todo = {})
    BY <2>1
  <2>5. RecoveryStateConsistent' /\ ReplayQueueExact' /\ NoGapReachesEngine'
    BY <2>4 DEF RecoveryStateConsistent, ReplayQueueExact, NoGapReachesEngine
  <2>6. ConnectionInv'
    BY <2>1, <2>4 DEF ConnectionInv
  <2>7. SnapshotInv'
    <3> DEFINE live == {r \in DOMAIN tcp.orders : tcp.orders[r] # 0}
    <3>1. tcp.todo \subseteq live /\ snapshot_queued = live \ tcp.todo
      BY DEF SnapshotInv
    <3>2. tcp.todo \ {ref} \subseteq live /\ snapshot_queued' = live \ (tcp.todo \ {ref})
      <4>1. ref \in tcp.todo /\ snapshot_queued' = snapshot_queued \cup {ref}
        BY <1>3, <2>2
      <4> HIDE DEF live, ReadSnapshotOrder
      <4>2. tcp.todo \subseteq live
        BY <3>1
      <4>3. /\ tcp.todo \ {ref} \subseteq live
            /\ (live \ tcp.todo) \cup {ref} = live \ (tcp.todo \ {ref})
        BY ONLY <4>1, <4>2
      <4> QED
        BY <3>1, <4>1, <4>3
    <3>3. {r \in DOMAIN tcp'.orders : tcp'.orders[r] # 0} = live
      BY <2>1
    <3>4. snapshot_have_start' /\ tcp'.stage # "START" /\ tcp'.todo = tcp.todo \ {ref}
      BY <2>1, <2>2, <2>4
    <3> HIDE DEF live, ReadSnapshotOrder
    <3> QED
      BY <2>4, <3>2, <3>3, <3>4 DEF SnapshotInv
  <2> QED
    BY <2>3, <2>5, <2>6, <2>7
<1> QED
  BY <1>2, <1>3

\* A snapshot whose queued frames are contiguous hands over a prefix of the feed.
LEMMA SnapshotHandsOver ==
    ASSUME RecoveryInv, tcp.stage = "END",
           NEW expected \in QueueEnds(tcp.last + 1),
           QueueContiguous(tcp.last + 1, expected),
           NEW complete,
           complete <=> snapshot_queued = {r \in DOMAIN tcp.orders : tcp.orders[r] # 0},
           Synchronize(IF complete THEN 1..((tcp.last + 1) - 1) ELSE {}, complete, tcp.last + 1, expected)
    PROVE  /\ tcp.last + 1 \in 1..(Len(feed) + 1)
           /\ expected \in (tcp.last + 1)..(Len(feed) + 1)
           /\ complete
           /\ applied' = 1..(expected - 1)
<1>1. Len(feed) \in Nat /\ tcp.last \in 0..Len(feed)
  BY DEF RecoveryInv, TypeOK, TcpType, ConnectionInv
<1>2. expected \in (tcp.last + 1)..(Len(feed) + 1)
  BY DEF QueueEnds
<1>3. complete
  BY DEF RecoveryInv, SnapshotInv
<1>4. applied' = (1..tcp.last) \cup ((tcp.last + 1)..(expected - 1))
  BY <1>1, <1>3 DEF Synchronize, QueueContiguous
<1>5. applied' = 1..(expected - 1)
  BY <1>1, <1>2, <1>4
<1> QED
  BY <1>1, <1>2, <1>3, <1>5

\* SNAPSHOT_END: synchronized, or the snapshot is thrown away.
LEMMA ReadSnapshotEndInv == RecoveryInv /\ ReadSnapshotEnd => RecoveryInv'
<1> SUFFICES ASSUME RecoveryInv, ReadSnapshotEnd
             PROVE  RecoveryInv'
  OBVIOUS
<1> DEFINE resume_seq == tcp.last + 1
           complete == snapshot_queued = {r \in DOMAIN tcp.orders : tcp.orders[r] # 0}
<1> USE DEF RecoveryInv, exchangeVars, seqVars, recoveryVars, queueVars, pushedVars
<1>1. tcp.stage = "END" /\ UNCHANGED <<exchangeVars, cuts>> /\ snapshot_have_start' = FALSE
  BY DEF ReadSnapshotEnd
<1>2. ASSUME NEW expected \in QueueEnds(resume_seq), QueueContiguous(resume_seq, expected),
             Synchronize(IF complete THEN 1..(resume_seq - 1) ELSE {}, complete, resume_seq, expected),
             UNCHANGED <<replay_status_read, replay_last_applied>>
      PROVE  RecoveryInv'
  <2>1. /\ resume_seq \in 1..(Len(feed) + 1) /\ expected \in resume_seq..(Len(feed) + 1)
        /\ complete = TRUE /\ applied' = 1..(expected - 1)
    <3>1. complete \in BOOLEAN
      OBVIOUS
    <3> QED
      BY <1>1, <1>2, <3>1, SnapshotHandsOver
  <2>2. 1 \in 1..(Len(feed) + 1) /\ replay_status_read' \in BOOLEAN
    BY <1>2 DEF TypeOK
  <2>3. \E first \in 1..(Len(feed) + 1) : applied' = first..(expected - 1)
    BY <2>1, <2>2
  <2>4. complete \in BOOLEAN /\ snapshot_have_start' \in BOOLEAN
    BY <1>1
  <2> HIDE DEF resume_seq, complete
  <2> QED
    BY <1>1, <1>2, <2>1, <2>2, <2>3, <2>4, SynchronizedInv
<1>3. CASE /\ snapshot_queued' = {} /\ tcp' = Eof
           /\ UNCHANGED <<seqVars, recovery_mode, replay_status_read, replay_last_applied,
                          incremental_queued, replay_queued, pushedVars>>
  <2>1. tcp' \in TcpType /\ tcp'.stage = "eof" /\ tcp'.last = 0 /\ tcp'.rcvd = tcp.rcvd
    BY <1>3, EofFacts DEF TypeOK
  <2>2. TypeOK'
    BY <1>1, <1>3, <2>1 DEF TypeOK
  <2>3. RecoveryStateConsistent' /\ ReplayQueueExact' /\ NoGapReachesEngine' /\ SnapshotInv'
    BY <1>1, <1>3, <2>1 DEF RecoveryStateConsistent, ReplayQueueExact, NoGapReachesEngine, SnapshotInv
  <2>4. ConnectionInv'
    BY <1>1, <1>3, <2>1 DEF ConnectionInv, TypeOK
  <2> QED
    BY <2>2, <2>3, <2>4
<1> QED
  BY <1>2, <1>3 DEF ReadSnapshotEnd, FinishSnapshotSync

\* The status byte of a replay.
LEMMA ReadStatusInv ==
    ASSUME RecoveryInv,
           ReadReplayGranted \/ ReadReplayDenied \/ ReadReplayCurrent \/ ReadReplayUnexpected
    PROVE  RecoveryInv'
<1> USE DEF RecoveryInv, exchangeVars, seqVars, recoveryVars, queueVars, pushedVars
<1>1. CASE ReadReplayGranted
  <2> USE <1>1 DEF ReadReplayGranted
  <2>1. tcp' \in TcpType /\ tcp'.stage = "frames" /\ tcp'.last = tcp.last /\ tcp'.rcvd = tcp.rcvd
    BY DEF TypeOK, TcpType, Stages
  <2>2. TypeOK'
    BY <2>1 DEF TypeOK
  <2>3. RecoveryStateConsistent' /\ ReplayQueueExact' /\ NoGapReachesEngine' /\ SnapshotInv' /\ ConnectionInv'
    BY <2>1 DEF RecoveryStateConsistent, ReplayQueueExact, NoGapReachesEngine, SnapshotInv, ConnectionInv
  <2> QED
    BY <2>2, <2>3
<1>2. CASE ReadReplayDenied
  <2>1. {} \in SUBSET (1..Len(feed)) /\ replay_status_read' \in BOOLEAN
    BY <1>2 DEF ReadReplayDenied
  <2> QED
    BY <1>2, <2>1, SnapshotStartInv DEF ReadReplayDenied
<1>3. CASE ReadReplayCurrent
  <2>1. recovery_mode = "Replay" /\ replay_status_read' \in BOOLEAN
    BY <1>3 DEF ReadReplayCurrent, ConnectionInv
  <2> QED
    BY <1>3, <2>1, FinishReplayInv DEF ReadReplayCurrent
<1>4. CASE ReadReplayUnexpected
  BY <1>4, AbortInv DEF ReadReplayUnexpected
<1> QED
  BY <1>1, <1>2, <1>3, <1>4

\* One more replayed frame.
LEMMA ReadFrameInv ==
    ASSUME RecoveryInv, NEW moved \in BOOLEAN, ReadReplayFrame(moved)
    PROVE  RecoveryInv'
<1> DEFINE last == replay_last_applied
           received == tcp.rcvd + 1
<1> USE DEF RecoveryInv, exchangeVars, seqVars, recoveryVars, queueVars, pushedVars
<1>1. PICK upto \in last..received :
        /\ replay_last_applied' = upto
        /\ replay_queued' = replay_queued \cup ((last + 1)..upto)
        /\ tcp' = IF received = tcp.last
                  THEN [Eof EXCEPT !.rcvd = received]
                  ELSE [tcp EXCEPT !.rcvd = received]
  BY DEF ReadReplayFrame
<1>2. /\ tcp.stage = "frames" /\ recovery_mode = "Replay" /\ tcp \in TcpType
      /\ UNCHANGED <<exchangeVars, seqVars, snapshot_have_start, recovery_mode, replay_status_read,
                     incremental_queued, snapshot_queued, cuts, pushedVars>>
  BY DEF ReadReplayFrame, ConnectionInv, TypeOK
<1>3. /\ Len(feed) \in Nat /\ tcp.rcvd \in Nat /\ tcp.last \in Nat /\ last \in Nat
      /\ received <= tcp.last /\ tcp.last <= Len(feed) /\ last <= tcp.rcvd
      /\ next_exp_inc_seq_num \in Nat \ {0} /\ next_exp_inc_seq_num - 1 <= last
      /\ replay_queued = next_exp_inc_seq_num..last
  BY <1>2 DEF ConnectionInv, TypeOK, TcpType, ReplayQueueExact
<1>4. /\ tcp' \in TcpType /\ tcp'.rcvd = received
      /\ tcp'.stage = (IF received = tcp.last THEN "eof" ELSE "frames")
      /\ tcp'.last = (IF received = tcp.last THEN 0 ELSE tcp.last)
  <2>1. Eof \in TcpType /\ Eof.stage = "eof" /\ Eof.last = 0
    BY <1>2, EofFacts
  <2>2. received \in Nat
    BY <1>3
  <2>3. CASE received = tcp.last
    BY <1>1, <2>1, <2>2, <2>3 DEF TcpType
  <2>4. CASE received # tcp.last
    BY <1>1, <1>2, <2>2, <2>4 DEF TcpType
  <2> QED
    BY <2>3, <2>4
<1>5. replay_queued' = next_exp_inc_seq_num..upto
  BY <1>1, <1>3
<1>6. upto \in 0..Len(feed) /\ last <= upto /\ upto <= received
  BY <1>1, <1>3
<1> HIDE DEF received, last
<1>7. TypeOK'
  <2>1. replay_queued' \subseteq 1..Len(feed)
    BY <1>3, <1>5, <1>6
  <2>2. feed' = feed /\ books' = books
    BY <1>2
  <2> QED
    BY <1>1, <1>2, <1>4, <1>6, <2>1, <2>2 DEF TypeOK
<1>8. RecoveryStateConsistent' /\ ReplayQueueExact' /\ NoGapReachesEngine' /\ SnapshotInv'
  BY <1>1, <1>2, <1>3, <1>4, <1>5 DEF RecoveryStateConsistent, ReplayQueueExact, NoGapReachesEngine, SnapshotInv
<1>9. ConnectionInv'
  <2>1. tcp'.last <= Len(feed) /\ tcp'.rcvd <= Len(feed)
    BY <1>3, <1>4 DEF received
  <2>2. tcp'.stage \in {"eof", "frames"} /\ (tcp'.stage = "frames" => tcp'.rcvd < tcp'.last)
    BY <1>3, <1>4 DEF received
  <2>3. replay_last_applied' <= tcp'.rcvd /\ next_exp_inc_seq_num - 1 <= replay_last_applied'
    BY <1>1, <1>3, <1>4, <1>6 DEF received
  <2>4. /\ feed' = feed /\ next_exp_inc_seq_num' = next_exp_inc_seq_num /\ recovery_mode' = "Replay"
        /\ based' = based /\ market_data_synchronized' = market_data_synchronized
    BY <1>2
  <2>5. based \/ market_data_synchronized => next_exp_inc_seq_num # 0
    BY DEF ConnectionInv
  <2> QED
    BY ONLY <2>1, <2>2, <2>3, <2>4, <2>5 DEF ConnectionInv
<1> QED
  BY <1>7, <1>8, <1>9

\* onSnapshotTcpEof: finish, resume or abort.
LEMMA TcpEofInv == RecoveryInv /\ TcpEof => RecoveryInv'
<1> SUFFICES ASSUME RecoveryInv, TcpEof
             PROVE  RecoveryInv'
  OBVIOUS
<1>1. /\ UNCHANGED <<exchangeVars, cuts>> /\ replay_status_read \in BOOLEAN
      /\ replay_last_applied \in 0..Len(feed) /\ incremental_queued \in SUBSET (1..Len(feed))
      /\ recovery_mode = "Replay" => next_exp_inc_seq_num # 0
  BY DEF TcpEof, RecoveryInv, TypeOK, ReplayQueueExact
<1>2. CASE recovery_mode = "Replay" /\ FinishReplaySync /\ UNCHANGED replay_status_read
  BY <1>1, <1>2, FinishReplayInv
<1>3. CASE /\ recovery_mode = "Replay"
           /\ StartReplaySync(replay_last_applied, FALSE, incremental_queued)
           /\ UNCHANGED <<next_exp_inc_seq_num, snapshot_have_start, pushedVars>>
  BY <1>1, <1>3, ReplayStartInv
<1>4. CASE AbortSnapshotSync /\ UNCHANGED replay_status_read
  BY <1>1, <1>4, AbortInv
<1> QED
  BY <1>2, <1>3, <1>4 DEF TcpEof

-----------------------------------------------------------------------------
(***************************************************************************)
(* The invariant and the properties that follow from it                    *)
(***************************************************************************)

\* The boot snapshot has just been requested.
LEMMA InitInv == Init => RecoveryInv
<1> SUFFICES ASSUME Init
             PROVE  RecoveryInv
  OBVIOUS
<1>1. tcp \in TcpType /\ tcp.stage = "asked" /\ tcp.last = 0 /\ tcp.rcvd = 0
  BY RequestedFacts DEF Init
<1>2. feed = <<>> /\ books = <<>> /\ Len(feed) = 0 /\ Len(books) = 0
  BY DEF Init, FeedInit
<1>3. TypeOK
  <2>1. feed \in Seq(MessageType) /\ books \in Seq(Seq(Nat))
    BY <1>2
  <2>2. next_exp_inc_seq_num \in 0..(Len(feed) + 1) /\ replay_last_applied \in 0..Len(feed)
    BY <1>2 DEF Init
  <2>3. cuts \in 0..MaxCuts
    BY MaxCutsAssumption DEF Init
  <2>4. Len(books) = Len(feed)
    BY <1>2
  <2> QED
    BY <1>1, <2>1, <2>2, <2>3, <2>4 DEF Init, TypeOK
<1>4. RecoveryStateConsistent /\ ReplayQueueExact /\ SnapshotInv /\ ConnectionInv
  BY <1>1, <1>2 DEF Init, RecoveryStateConsistent, ReplayQueueExact, SnapshotInv, ConnectionInv
<1>5. NoGapReachesEngine
  BY <1>2 DEF Init, NoGapReachesEngine
<1> QED
  BY <1>3, <1>4, <1>5 DEF RecoveryInv

\* Every step of the thread, the exchange and the network keeps the invariant.
LEMMA StepInv == RecoveryInv /\ [Next]_vars => RecoveryInv'
<1> SUFFICES ASSUME RecoveryInv, [Next]_vars
             PROVE  RecoveryInv'
  OBVIOUS
<1>1. CASE ExchangePublishes
  BY <1>1, PublishInv
<1>2. CASE \E seq \in 1..Len(feed), moved \in BOOLEAN : RecvFrame(seq, moved)
  BY <1>2, RecvFrameInv
<1>3. CASE ReadTcp
  <2>1. CASE ReadSnapshotStart \/ \E ref \in tcp.todo : ReadSnapshotOrder(ref)
    BY <2>1, ReadSnapshotInv
  <2>2. CASE ReadSnapshotEnd
    BY <2>2, ReadSnapshotEndInv
  <2>3. CASE ReadReplayGranted \/ ReadReplayDenied \/ ReadReplayCurrent \/ ReadReplayUnexpected
    BY <2>3, ReadStatusInv
  <2>4. CASE \E moved \in BOOLEAN : ReadReplayFrame(moved)
    BY <2>4, ReadFrameInv
  <2>5. ASSUME NEW moved \in BOOLEAN, ReadReplayOutOfOrder(moved)
        PROVE  RecoveryInv'
    <3>1. replay_status_read' \in BOOLEAN
      BY <2>5 DEF ReadReplayOutOfOrder, RecoveryInv, TypeOK
    <3> QED
      BY <2>5, <3>1, AbortInv DEF ReadReplayOutOfOrder
  <2>6. CASE TcpEof
    BY <2>6, TcpEofInv
  <2> QED
    BY <1>3, <2>1, <2>2, <2>3, <2>4, <2>5, <2>6 DEF ReadTcp
<1>4. CASE ServerAnswers \/ \E fragment \in BOOLEAN : ConnectionCut(fragment)
  BY <1>4, ServerInv
<1>5. CASE UNCHANGED vars
  BY <1>5 DEF vars, exchangeVars, seqVars, recoveryVars, queueVars, pushedVars, RecoveryInv, TypeOK,
       RecoveryStateConsistent, ReplayQueueExact, SnapshotInv, ConnectionInv, NoGapReachesEngine
<1> QED
  BY <1>1, <1>2, <1>3, <1>4, <1>5 DEF Next

\* The invariant holds in every reachable state.
LEMMA InvHolds == Spec => []RecoveryInv
  BY InitInv, StepInv, PTL DEF Spec

\* Nothing is queued or applied that was not published.
THEOREM RecoveryTypeCorrect == Spec => []TypeOK
<1>1. RecoveryInv => TypeOK
  BY DEF RecoveryInv
<1> QED
  BY <1>1, InvHolds, PTL

\* What processIncremental and the finish functions hand over has no gap, for
\* every feed, loss, duplication and reordering.
THEOREM NoGapEver == Spec => []NoGapReachesEngine
<1>1. RecoveryInv => NoGapReachesEngine
  BY DEF RecoveryInv
<1> QED
  BY <1>1, InvHolds, PTL

\* The recovery state machine is never half left.
THEOREM RecoveryConsistent == Spec => []RecoveryStateConsistent
<1>1. RecoveryInv => RecoveryStateConsistent
  BY DEF RecoveryInv
<1> QED
  BY <1>1, InvHolds, PTL

\* A replay resumed any number of times collects each missing frame once.
THEOREM ReplayExact == Spec => []ReplayQueueExact
<1>1. RecoveryInv => ReplayQueueExact
  BY DEF RecoveryInv
<1> QED
  BY <1>1, InvHolds, PTL

-----------------------------------------------------------------------------
(***************************************************************************)
(* Refinement                                                              *)
(***************************************************************************)

\* Each step of the thread is a step of the abstract stream or leaves it alone.
LEMMA StreamStep == RecoveryInv /\ [Next]_vars => [Stream!SNext]_(Stream!svars)
<1> SUFFICES ASSUME RecoveryInv, [Next]_vars
             PROVE  Stream!SNext \/ UNCHANGED Stream!svars
  OBVIOUS
<1> DEFINE next == next_exp_inc_seq_num
           idle == UNCHANGED <<applied, next_exp_inc_seq_num, market_data_synchronized>>
           closing == market_data_synchronized' = FALSE /\ UNCHANGED <<applied, next_exp_inc_seq_num>>
<1> USE DEF exchangeVars, seqVars, recoveryVars, queueVars, pushedVars
<1>1. idle => UNCHANGED Stream!svars
  BY DEF Stream!svars
<1>2. closing => Stream!SNext
  BY DEF Stream!SNext, Stream!Suspend
<1>3. in_recovery => ~market_data_synchronized
  BY DEF RecoveryInv, RecoveryStateConsistent
<1>4. recovery_mode # "None" => in_recovery
  BY DEF RecoveryInv, RecoveryStateConsistent
<1>5. Len(feed) \in Nat /\ next \in Nat
  BY DEF RecoveryInv, TypeOK
<1>6. ASSUME recovery_mode = "Replay", FinishReplaySync
      PROVE  Stream!SNext
  <2>1. ASSUME NEW expected \in QueueEnds(replay_last_applied + 1),
               QueueContiguous(replay_last_applied + 1, expected),
               Synchronize(applied \cup replay_queued, based, replay_last_applied + 1, expected)
        PROVE  Stream!SNext
    <3>1. /\ next \in 1..expected /\ applied' = applied \cup (next..(expected - 1))
          /\ expected \in (replay_last_applied + 1)..(Len(feed) + 1)
      BY <1>6, <2>1, ReplayHandsOver
    <3>2. next_exp_inc_seq_num' = expected /\ market_data_synchronized' = TRUE
      BY <2>1 DEF Synchronize
    <3>3. ~market_data_synchronized /\ next # 0 /\ expected >= next
      BY <1>3, <1>4, <1>6, <3>1
    <3> QED
      BY <3>1, <3>2, <3>3 DEF Stream!SNext, Stream!CatchUp
  <2>2. CASE AbortSnapshotSync
    BY <1>2, <2>2 DEF AbortSnapshotSync
  <2> QED
    BY <1>6, <2>1, <2>2 DEF FinishReplaySync
<1>7. CASE ExchangePublishes \/ ServerAnswers \/ \E fragment \in BOOLEAN : ConnectionCut(fragment)
  BY <1>1, <1>7 DEF ExchangePublishes, ServerAnswers, ServerAnswersSnapshot, ServerAnswersReplay, ConnectionCut
<1>8. ASSUME NEW seq \in 1..Len(feed), NEW moved \in BOOLEAN, RecvFrame(seq, moved)
      PROVE  Stream!SNext \/ UNCHANGED Stream!svars
  <2>1. CASE RecvInRecovery(seq, moved) \/ RecvStale(seq, moved)
    BY <1>1, <2>1 DEF RecvInRecovery, RecvStale
  <2>2. CASE RecvBaseline(seq, moved)
    <3>1. applied = {}
      BY <1>5, <2>2 DEF RecvBaseline, RecoveryInv, NoGapReachesEngine
    <3>2. ~market_data_synchronized
      BY <2>2 DEF RecvBaseline, RecoveryInv, ConnectionInv
    <3>3. next = 0 /\ next_exp_inc_seq_num' = seq + 1 /\ applied' = {(seq + 1) - 1} /\ seq + 1 > 1
      BY <1>5, <2>2, <3>1 DEF RecvBaseline
    <3> QED
      BY <2>2, <3>2, <3>3 DEF RecvBaseline, Stream!SNext, Stream!Adopt
  <2>3. CASE RecvExpected(seq, moved)
    BY <2>3 DEF RecvExpected, Stream!SNext, Stream!Advance
  <2>4. CASE RecvGap(seq, moved)
    BY <1>2, <2>4 DEF RecvGap, StartReplaySync, StartSnapshotSync
  <2> QED
    BY <1>8, <2>1, <2>2, <2>3, <2>4 DEF RecvFrame
<1>9. CASE ReadTcp
  <2>1. CASE ReadSnapshotStart \/ \E ref \in tcp.todo : ReadSnapshotOrder(ref)
    BY <1>1, <2>1 DEF ReadSnapshotStart, ReadSnapshotOrder
  <2>2. CASE ReadSnapshotEnd
    <3> DEFINE complete == snapshot_queued = {r \in DOMAIN tcp.orders : tcp.orders[r] # 0}
    <3>1. ASSUME NEW expected \in QueueEnds(tcp.last + 1), QueueContiguous(tcp.last + 1, expected),
                 Synchronize(IF complete THEN 1..((tcp.last + 1) - 1) ELSE {}, complete, tcp.last + 1, expected)
          PROVE  Stream!SNext
      <4>1. /\ tcp.last + 1 \in 1..(Len(feed) + 1) /\ expected \in (tcp.last + 1)..(Len(feed) + 1)
            /\ applied' = 1..(expected - 1)
        BY <2>2, <3>1, SnapshotHandsOver DEF ReadSnapshotEnd
      <4>2. next_exp_inc_seq_num' = expected /\ market_data_synchronized' = TRUE
        BY <3>1 DEF Synchronize
      <4>3. ~market_data_synchronized /\ expected >= 1
        BY <1>3, <1>5, <2>2, <4>1 DEF ReadSnapshotEnd
      <4> QED
        BY <4>1, <4>2, <4>3 DEF Stream!SNext, Stream!Rebase
    <3>2. CASE UNCHANGED <<seqVars, pushedVars>>
      BY <1>1, <3>2
    <3> QED
      BY <2>2, <3>1, <3>2 DEF ReadSnapshotEnd, FinishSnapshotSync
  <2>3. CASE ReadReplayGranted \/ \E moved \in BOOLEAN : ReadReplayFrame(moved)
    BY <1>1, <2>3 DEF ReadReplayGranted, ReadReplayFrame
  <2>4. CASE ReadReplayDenied
    BY <1>2, <2>4 DEF ReadReplayDenied, StartSnapshotSync
  <2>5. CASE ReadReplayCurrent
    BY <1>6, <2>5 DEF ReadReplayCurrent, RecoveryInv, ConnectionInv
  <2>6. CASE ReadReplayUnexpected \/ \E moved \in BOOLEAN : ReadReplayOutOfOrder(moved)
    BY <1>2, <2>6 DEF ReadReplayUnexpected, ReadReplayOutOfOrder, AbortSnapshotSync
  <2>7. CASE TcpEof
    BY <1>2, <1>6, <2>7 DEF TcpEof, StartReplaySync, AbortSnapshotSync
  <2> QED
    BY <1>9, <2>1, <2>2, <2>3, <2>4, <2>5, <2>6, <2>7 DEF ReadTcp
<1>10. CASE UNCHANGED vars
  BY <1>1, <1>10 DEF vars
<1> QED
  BY <1>7, <1>8, <1>9, <1>10 DEF Next

\* The market-data thread implements the abstract stream.
THEOREM StreamImplemented == Spec => ImplementsStream
<1>1. Init => Stream!SInit
  BY DEF Init, Stream!SInit
<1> QED
  BY <1>1, StreamStep, InvHolds, PTL DEF Spec, ImplementsStream, Stream!SSpec

=============================================================================
