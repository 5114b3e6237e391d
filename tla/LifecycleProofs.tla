---------------------------- MODULE LifecycleProofs ----------------------------
(***************************************************************************)
(* The invariants of Lifecycle, for any number of requests, assets, users, *)
(* handlers, dispatchers and consumer instances: every step of the whole   *)
(* is a step of one component, seen by the others as a step of their       *)
(* environment that their invariants allow for.                            *)
(***************************************************************************)
EXTENDS Lifecycle, WorkflowProofs

ObP == INSTANCE OutboxDispatcherProofs WITH
  PartitionOf <- PartitionOfEvent, MaxRows <- 0

AsP == INSTANCE AssetServiceProofs WITH PartitionOf <- PartitionOfEvent

-------------------------------------------------------------------------------
(***************************************************************************)
(* The components' assumptions hold of the constants they are given        *)
(***************************************************************************)
LEMMA PartitionOfEventType == PartitionOfEvent \in [Event -> Partition]
BY KeyAssumption DEF PartitionOfEvent, Event

LEMMA AsAssumptions ==
  /\ AsP!NobodyAssumption /\ AsP!NoDeptAssumption
  /\ AsP!EventAssumption /\ AsP!PartitionAssumption /\ AsP!VisibleAssumption
  /\ AsP!SeedAssumption /\ AsP!BoundAssumption
<1>1. AsP!NobodyAssumption /\ AsP!NoDeptAssumption
  BY NobodyAssumption, NoDeptAssumption DEF AsP!NobodyAssumption, AsP!NoDeptAssumption
<1>2. AsP!EventAssumption
  BY DEF AsP!EventAssumption, Event, AsP!AssetStatus, AssetStatus, AsP!InStock, InStock,
         AsP!InUse, InUse, AsP!InRepair, InRepair, AsP!Scrapped, Scrapped
<1>3. AsP!PartitionAssumption
  BY PartitionOfEventType DEF AsP!PartitionAssumption
<1>4. AsP!VisibleAssumption
  BY VisibleAssumption DEF AsP!VisibleAssumption, AsP!DeptId, DeptId
<1>5. AsP!SeedAssumption
  BY SeedAssumption DEF AsP!SeedAssumption, AsP!LedgerRow, LedgerRow, AsP!DeptId, DeptId,
    AsP!AssetStatus, AssetStatus, AsP!InStock, InStock,
    AsP!InUse, InUse, AsP!InRepair, InRepair, AsP!Scrapped, Scrapped
<1>6. AsP!BoundAssumption
  BY BoundAssumption DEF AsP!BoundAssumption
<1>. QED
  BY <1>1, <1>2, <1>3, <1>4, <1>5, <1>6

LEMMA ObAssumptions ==
  /\ ObP!PartitionAssumption /\ ObP!RetryAssumption /\ ObP!BatchAssumption
  /\ ObP!BoundAssumption
BY PartitionOfEventType, DispatcherAssumption, BoundAssumption
DEF ObP!PartitionAssumption, ObP!RetryAssumption, ObP!BatchAssumption, ObP!BoundAssumption

-------------------------------------------------------------------------------
(***************************************************************************)
(* The components' steps, as Lifecycle names them, are the steps the       *)
(* lemmas of the components' proofs are about                              *)
(***************************************************************************)
LEMMA SameAsInit == As!AsInit => AsP!AsInit
BY DEF As!AsInit, AsP!AsInit, As!Idle, AsP!Idle

LEMMA SameFetch ==
  ASSUME NEW c, NEW p, As!Fetch(c, p)
  PROVE  AsP!Fetch(c, p)
BY DEF As!Fetch, AsP!Fetch, As!Idle, AsP!Idle, As!apiVars, AsP!apiVars

LEMMA SameAccepts ==
  ASSUME NEW ev
  PROVE  As!Accepts(ev) <=> AsP!Accepts(ev)
BY DEF As!Accepts, AsP!Accepts, As!Allowed, AsP!Allowed, As!AssetStatus, AsP!AssetStatus,
       As!InStock, AsP!InStock, As!InUse, AsP!InUse, As!InRepair, AsP!InRepair,
       As!Scrapped, AsP!Scrapped

LEMMA SameWorkerStep ==
  ASSUME NEW c, As!WorkerStep(c)
  PROVE  AsP!WorkerStep(c)
<1>. USE DEF As!Message, AsP!Message, As!WorkerTo, AsP!WorkerTo, As!Idle, AsP!Idle,
             As!apiVars, AsP!apiVars, As!offsets, AsP!offsets, As!groupVars, AsP!groupVars
<1>1. As!Dedup(c) => AsP!Dedup(c)
  BY DEF As!Dedup, AsP!Dedup, As!IsDuplicate, AsP!IsDuplicate
<1>2. As!ReadAsset(c) => AsP!ReadAsset(c)
  BY SameAccepts DEF As!ReadAsset, AsP!ReadAsset
<1>3. As!ChangeStatus(c) => AsP!ChangeStatus(c)
  BY DEF As!ChangeStatus, AsP!ChangeStatus, As!Changed, AsP!Changed
<1>4. As!Ack(c) => AsP!Ack(c)
  BY DEF As!Ack, AsP!Ack
<1>. QED
  BY <1>1, <1>2, <1>3, <1>4 DEF As!WorkerStep, AsP!WorkerStep

LEMMA SameConsumerFault ==
  ASSUME NEW c, As!ConsumerFault(c)
  PROVE  AsP!ConsumerFault(c)
<1>. USE DEF As!Fault, AsP!Fault, As!StatementFails, AsP!StatementFails, As!WorkerTo, AsP!WorkerTo, As!Idle, AsP!Idle,
             As!apiVars, AsP!apiVars, As!offsets, AsP!offsets
<1>1. As!DedupFails(c) => AsP!DedupFails(c)
  BY DEF As!DedupFails, AsP!DedupFails
<1>2. As!ChangeFails(c) => AsP!ChangeFails(c)
  BY DEF As!ChangeFails, AsP!ChangeFails
<1>3. As!AckFails(c) => AsP!AckFails(c)
  BY DEF As!AckFails, AsP!AckFails
<1>4. As!Crash(c) => AsP!Crash(c)
  BY DEF As!Crash, AsP!Crash
<1>5. \A p \in Partition : As!Rebalance(p, c) => AsP!Rebalance(p, c)
  BY DEF As!Rebalance, AsP!Rebalance, As!InHand, AsP!InHand, As!Message, AsP!Message
<1>. QED
  BY <1>1, <1>2, <1>3, <1>4, <1>5 DEF As!ConsumerFault, AsP!ConsumerFault

LEMMA SameApiStep == As!ApiStep => AsP!ApiStep
<1>. USE DEF As!Idle, AsP!Idle, As!InScope, AsP!InScope,
             As!offsets, AsP!offsets, As!groupVars, AsP!groupVars
<1>1. \A a, d : As!CreateAsset(a, d) => AsP!CreateAsset(a, d)
  BY DEF As!CreateAsset, AsP!CreateAsset, As!NewAsset, AsP!NewAsset, As!InStock, AsP!InStock
<1>2. \A u, a : As!ReadForDelete(u, a) => AsP!ReadForDelete(u, a)
  BY DEF As!ReadForDelete, AsP!ReadForDelete
<1>3. \A u, a, d : As!ReadForUpdate(u, a, d) => AsP!ReadForUpdate(u, a, d)
  BY DEF As!ReadForUpdate, AsP!ReadForUpdate
<1>4. \A u : As!WriteAsset(u) => AsP!WriteAsset(u)
  BY DEF As!WriteAsset, AsP!WriteAsset, As!RowPresent, AsP!RowPresent
<1>5. \A u : As!AbandonSession(u) => AsP!AbandonSession(u)
  BY DEF As!AbandonSession, AsP!AbandonSession
<1>. HIDE DEF As!Idle, AsP!Idle, As!InScope, AsP!InScope,
             As!offsets, AsP!offsets, As!groupVars, AsP!groupVars
<1>. QED
  BY <1>1, <1>2, <1>3, <1>4, <1>5
  DEF As!ApiStep, AsP!ApiStep, As!DeptId, AsP!DeptId

LEMMA SameObInit == Ob!ObInit => ObP!ObInit
BY DEF Ob!ObInit, ObP!ObInit, Ob!NoTx, ObP!NoTx, Ob!NoOutcome, ObP!NoOutcome,
       Ob!Pending, ObP!Pending, Ob!NoFailures, ObP!NoFailures

LEMMA SameDispatcherStep ==
  ASSUME NEW d, Ob!DispatcherStep(d)
  PROVE  ObP!DispatcherStep(d)
<1>. USE DEF Ob!NoTx, ObP!NoTx, Ob!NoOutcome, ObP!NoOutcome,
             Ob!Pending, ObP!Pending, Ob!Sent, ObP!Sent, Ob!Dead, ObP!Dead,
             Ob!obHistory, ObP!obHistory
<1>1. Ob!Poll(d) => ObP!Poll(d)
  <2>1. Ob!Due = ObP!Due
    BY DEF Ob!Due, ObP!Due
  <2>2. \A S, n : Ob!FirstOf(S, n) = ObP!FirstOf(S, n)
    BY DEF Ob!FirstOf, ObP!FirstOf, Ob!Cardinality, ObP!Cardinality
  <2>. QED
    BY <2>1, <2>2 DEF Ob!Poll, ObP!Poll
<1>2. \A i : Ob!Send(d, i) => ObP!Send(d, i)
  BY DEF Ob!Send, ObP!Send, Ob!IsNext, ObP!IsNext, Ob!Unhandled, ObP!Unhandled,
         Ob!Publish, ObP!Publish, Ob!Outcome, ObP!Outcome,
         Ob!Kept, ObP!Kept, Ob!Lost, ObP!Lost, Ob!Cardinality, ObP!Cardinality
<1>3. \A i : Ob!SendFails(d, i) => ObP!SendFails(d, i)
  BY DEF Ob!SendFails, ObP!SendFails, Ob!IsNext, ObP!IsNext, Ob!Unhandled, ObP!Unhandled,
         Ob!Publish, ObP!Publish, Ob!Outcome, ObP!Outcome,
         Ob!StatusAfterFailure, ObP!StatusAfterFailure, Ob!Failures, ObP!Failures
<1>4. Ob!Commit(d) => ObP!Commit(d)
  BY DEF Ob!Commit, ObP!Commit
<1>. QED
  BY <1>1, <1>2, <1>3, <1>4
  DEF Ob!DispatcherStep, ObP!DispatcherStep, Ob!Attempt, ObP!Attempt

LEMMA SameRollback ==
  ASSUME NEW d, Ob!Rollback(d)
  PROVE  ObP!Rollback(d)
BY DEF Ob!Rollback, ObP!Rollback, Ob!NoTx, ObP!NoTx, Ob!NoOutcome, ObP!NoOutcome,
       Ob!Pending, ObP!Pending, Ob!obHistory, ObP!obHistory

LEMMA SameHistory ==
  /\ As!LegalUnlessTakenOver <=> AsP!LegalUnlessTakenOver
  /\ \A a : As!AppliedTo(a) = AsP!AppliedTo(a)
BY DEF As!LegalUnlessTakenOver, AsP!LegalUnlessTakenOver, As!StatusBefore, AsP!StatusBefore,
       As!AppliedTo, AsP!AppliedTo, As!Allowed, AsP!Allowed, As!AssetStatus, AsP!AssetStatus,
       As!InStock, AsP!InStock, As!InUse, AsP!InUse, As!InRepair, AsP!InRepair,
       As!Scrapped, AsP!Scrapped

-------------------------------------------------------------------------------
(***************************************************************************)
(* The inductive invariant                                                 *)
(***************************************************************************)
QueuedEvent(ev) == \E i \in DOMAIN outbox : outbox[i].event = ev

\* What travels through the topic, and what has reached the ledger, was queued by
\* workflow-api.
OnlyQueued ==
  /\ \A p \in Partition : \A n \in DOMAIN topic[p] : QueuedEvent(topic[p][n])
  /\ \A a \in Asset : \A k \in DOMAIN applied[a] : QueuedEvent(applied[a][k])

LcInv ==
  /\ WfInv
  /\ ObP!TxInv
  /\ AsP!Shape
  /\ AsP!LedgerInv
  /\ OnlyQueued

LEMMA LcInvInit == LcInit => LcInv
<1>. SUFFICES ASSUME LcInit
              PROVE  LcInv
  OBVIOUS
<1>1. WfInv
  BY WfInvInit DEF LcInit
<1>2. ObP!TxInv
  BY SameObInit, ObAssumptions, ObP!TxInvInit DEF LcInit
<1>3. AsP!Shape /\ AsP!LedgerInv
  BY SameAsInit, AsAssumptions, AsP!ShapeInit, AsP!LedgerInit DEF LcInit
<1>4. OnlyQueued
  BY SameAsInit DEF LcInit, AsP!AsInit, OnlyQueued
<1>. QED
  BY <1>1, <1>2, <1>3, <1>4 DEF LcInv

LEMMA SameRow == ObP!Row = OutboxRow
<1>1. {ObP!Pending, ObP!Sent, ObP!Dead} = 0 .. 2
  BY DEF ObP!Pending, ObP!Sent, ObP!Dead
<1>. QED
  BY <1>1 DEF ObP!Row, OutboxRow

\* The dispatcher's updates mean nothing to the workflow service: it never reads
\* the columns they change.
LEMMA WfInvKept ==
  ASSUME WfInv, UNCHANGED <<request, log, handler, wfHistory>>,
         outbox' \in Seq(OutboxRow), DOMAIN outbox' = DOMAIN outbox,
         \A i \in DOMAIN outbox : outbox'[i].event = outbox[i].event
  PROVE  WfInv'
<1>1. WfTypeOK'
  BY DEF WfInv, WfTypeOK, wfHistory
<1>2. InsertsFresh' /\ StageThreeArchived'
  BY DEF WfInv, InsertsFresh, StageThreeArchived
<1>3. HandlersTruthful'
  BY DEF WfInv, HandlersTruthful, Reviewing, SnapshotAgrees, PendingAgrees, SameSubmission,
         Truthful, Signed, OfCollege, IsReject, MayReject, MayApprove, wfHistory
<1>4. LogIsTrue' /\ NothingMissing' /\ SignedByAuthority'
  BY DEF WfInv, LogIsTrue, NothingMissing, Accounted, Entries, AboutToLog, SignedByAuthority,
         Truthful, Signed, OfCollege, IsReject, wfHistory
<1>5. EventIffArchived'
  BY DEF WfInv, EventIffArchived, EventMatches
<1>. QED
  BY <1>1, <1>2, <1>3, <1>4, <1>5 DEF WfInv

\* A step of workflow-api leaves the outbox alone or queues one event.
LEMMA WorkflowQueues ==
  ASSUME WfInv, NEW h \in Handler, WorkflowStep(h)
  PROVE  /\ [WfNext]_wfVars
         /\ UNCHANGED outbox \/ \E ev \in Event : ObP!Queues(ev)
<1>1. WfNext
  BY DEF WorkflowStep, WfNext
<1>2. ASSUME NEW g \in Handler, ApproveStage2AndArchive(g)
      PROVE  \E ev \in Event : ObP!Queues(ev)
  <2>. DEFINE st == handler[g]
              ev == EventOf(st.id, st.uid, st.wf)
  <2>1. /\ st.id \in DOMAIN request /\ st.uid \in User /\ st.wf \in RequestRow
        /\ request[st.id] \in RequestRow /\ st.id \in Request
    BY <1>2, HandlerCases DEF WfInv, WfTypeOK, ApproveStage2AndArchive, Reviewing
  <2>2. ev \in Event
    BY <2>1, EventType
  <2>3. outbox' = Append(outbox, [event |-> ev, status |-> 0, retry |-> 0])
    BY <1>2 DEF ApproveStage2AndArchive
  <2>4. ObP!Queues(ev)
    BY <2>3 DEF ObP!Queues, ObP!Pending
  <2>. QED
    BY <2>2, <2>4
<1>. QED
  BY <1>1, <1>2, OnlyArchiveQueues

\* A step of the dispatcher changes no event, and appends at most one that is
\* queued to the partition of its key.
LEMMA DispatcherSends ==
  ASSUME ObP!TxInv, NEW d \in Dispatcher, DispatcherStep(d)
  PROVE  /\ [ObP!ObNext]_(ObP!obVars)
         /\ outbox' \in Seq(OutboxRow) /\ DOMAIN outbox' = DOMAIN outbox
         /\ \A i \in DOMAIN outbox : outbox'[i].event = outbox[i].event
         /\ \/ UNCHANGED topic
            \/ \E i \in DOMAIN outbox : outbox[i].event \in Event /\ ObP!Publish(i)
<1>1. ObP!DispatcherStep(d) \/ ObP!Rollback(d)
  BY SameDispatcherStep, SameRollback DEF DispatcherStep
<1>2. ObP!ObNext
  BY <1>1 DEF ObP!ObNext
<1>3. CASE ObP!Commit(d)
  BY <1>2, <1>3, ObAssumptions, ObP!CommitEffect, SameRow DEF ObP!Commit
<1>4. CASE ObP!Poll(d) \/ ObP!Rollback(d)
  BY <1>2, <1>4, SameRow DEF ObP!Poll, ObP!Rollback, ObP!TxInv, ObP!ObTypeOK
<1>5. CASE ObP!Attempt(d)
  <2>1. PICK i \in DOMAIN outbox : ObP!Send(d, i) \/ ObP!SendFails(d, i)
    BY <1>5 DEF ObP!Attempt
  <2>2. UNCHANGED outbox /\ (ObP!Publish(i) \/ UNCHANGED topic)
    BY <2>1, ObAssumptions, ObP!AttemptCases
  <2>3. outbox[i].event \in Event
    BY ObAssumptions, ObP!RowType DEF ObP!TxInv
  <2>. QED
    BY <1>2, <2>2, <2>3, SameRow DEF ObP!TxInv, ObP!ObTypeOK
<1>. QED
  BY <1>1, <1>3, <1>4, <1>5 DEF ObP!DispatcherStep
-------------------------------------------------------------------------------
(***************************************************************************)
(* Every step of the whole is a step of each component or a stutter of it  *)
(***************************************************************************)
\* The asset service sees the dispatcher's sends as messages that arrive.
LEMMA PublishArrives ==
  ASSUME NEW i \in DOMAIN outbox, outbox[i].event \in Event, ObP!Publish(i),
         AsP!Shape, TopicHasRoom', UNCHANGED asOwn
  PROVE  AsP!Arrive(outbox[i].event)
<1>. PICK ev \in Event : ev = outbox[i].event
  OBVIOUS
<1>. DEFINE p == PartitionOfEvent[ev]
<1>1. p \in Partition /\ topic \in [Partition -> Seq(Event)] /\ topic[p] \in Seq(Event)
  BY PartitionOfEventType DEF AsP!Shape
<1>2. topic' = [topic EXCEPT ![p] = Append(@, ev)]
  BY DEF ObP!Publish
<1>3. topic'[p] = Append(topic[p], ev)
  BY <1>1, <1>2
<1>4. Len(topic'[p]) <= MaxTopic
  BY <1>1 DEF TopicHasRoom
<1>5. Len(topic[p]) < MaxTopic
  <2>. PICK q : q = topic[p]
    OBVIOUS
  <2>1. Len(Append(q, ev)) = Len(q) + 1 /\ Len(q) \in Nat
    BY <1>1
  <2>. QED
    BY <1>3, <1>4, <2>1, BoundAssumption
<1>. QED
  BY <1>2, <1>5 DEF AsP!Arrive, AsP!apiVars, AsP!groupVars, AsP!offsets, asOwn

LEMMA AssetServiceStep == LcInv /\ [LcNext]_lcVars => [AsP!AsNext]_(AsP!asVars)
<1>. SUFFICES ASSUME LcInv, [LcNext]_lcVars
              PROVE  AsP!AsNext \/ UNCHANGED AsP!asVars
  OBVIOUS
<1>1. CASE UNCHANGED <<topic, asOwn>>
  BY <1>1 DEF AsP!asVars, asOwn
<1>2. ASSUME NEW h \in Handler, WorkflowStep(h)
      PROVE  UNCHANGED <<topic, asOwn>>
  BY <1>2 DEF WorkflowStep
<1>3. ASSUME NEW d \in Dispatcher, DispatcherStep(d)
      PROVE  AsP!AsNext \/ UNCHANGED <<topic, asOwn>>
  <2>1. UNCHANGED asOwn /\ TopicHasRoom'
    BY <1>3 DEF DispatcherStep
  <2>2. ASSUME NEW i \in DOMAIN outbox, outbox[i].event \in Event, ObP!Publish(i)
        PROVE  AsP!AsNext
    BY <2>1, <2>2, PublishArrives DEF LcInv, AsP!AsNext
  <2>. QED
    BY <1>3, <2>1, <2>2, DispatcherSends DEF LcInv
<1>4. ASSUME NEW c \in Consumer, ConsumerStep(c)
      PROVE  AsP!AsNext
  BY <1>4, SameFetch, SameWorkerStep, SameConsumerFault DEF ConsumerStep, AsP!AsNext
<1>5. AssetApiStep => AsP!AsNext
  BY SameApiStep DEF AssetApiStep, AsP!AsNext
<1>. QED
  BY <1>1, <1>2, <1>3, <1>4, <1>5 DEF LcNext, lcVars

\* For the workflow service, a step of anything else changes columns of the outbox
\* that it does not read, or nothing.
LEMMA WorkflowServiceStep == LcInv /\ [LcNext]_lcVars => WfInv'
<1>. SUFFICES ASSUME LcInv, [LcNext]_lcVars
              PROVE  WfInv'
  OBVIOUS
<1>1. CASE UNCHANGED wfVars
  BY <1>1, WfInvStep DEF LcInv
<1>2. ASSUME NEW h \in Handler, WorkflowStep(h)
      PROVE  WfInv'
  BY <1>2, WorkflowQueues, WfInvStep DEF LcInv
<1>3. ASSUME NEW d \in Dispatcher, DispatcherStep(d)
      PROVE  WfInv'
  <2>1. UNCHANGED <<request, log, handler, wfHistory>>
    BY <1>3 DEF DispatcherStep
  <2>. QED
    BY <1>3, <2>1, DispatcherSends, WfInvKept DEF LcInv
<1>4. (\E c \in Consumer : ConsumerStep(c)) \/ AssetApiStep => UNCHANGED wfVars
  BY DEF ConsumerStep, AssetApiStep
<1>. QED
  BY <1>1, <1>2, <1>3, <1>4 DEF LcNext, lcVars

\* The asset service only reads the topic and has no access to the outbox.
LEMMA AssetServiceReads ==
  ASSUME (\E c \in Consumer : ConsumerStep(c)) \/ AssetApiStep
  PROVE  UNCHANGED <<outbox, topic, obOwn>>
<1>1. UNCHANGED <<outbox, obOwn>>
  BY DEF ConsumerStep, AssetApiStep, wfVars
<1>2. CASE AssetApiStep
  <2>1. AsP!ApiStep
    BY <1>2, SameApiStep DEF AssetApiStep
  <2>. QED
    BY <1>1, <2>1 DEF AsP!ApiStep, AsP!CreateAsset, AsP!ReadForDelete, AsP!ReadForUpdate,
      AsP!WriteAsset, AsP!AbandonSession
<1>3. ASSUME NEW c \in Consumer, ConsumerStep(c)
      PROVE  UNCHANGED topic
  <2>1. (\E p \in Partition : AsP!Fetch(c, p)) \/ AsP!WorkerStep(c) \/ AsP!ConsumerFault(c)
    BY <1>3, SameFetch, SameWorkerStep, SameConsumerFault DEF ConsumerStep
  <2>. QED
    BY <2>1 DEF AsP!Fetch, AsP!WorkerStep, AsP!Dedup, AsP!ReadAsset, AsP!ChangeStatus, AsP!Ack,
      AsP!ConsumerFault, AsP!DedupFails, AsP!ChangeFails, AsP!AckFails, AsP!Crash, AsP!Rebalance
<1>. QED
  BY <1>1, <1>2, <1>3

\* The dispatcher sees rows being queued, and nothing else of the others.
LEMMA OutboxStep == LcInv /\ [LcNext]_lcVars => ObP!TxInv'
<1>. SUFFICES ASSUME LcInv, [LcNext]_lcVars
              PROVE  ObP!TxInv'
  OBVIOUS
<1>1. CASE UNCHANGED <<outbox, topic, obOwn>>
  BY <1>1, ObAssumptions, ObP!TxInvStep DEF LcInv, ObP!obVars, ObP!obHistory, obOwn
<1>2. ASSUME NEW h \in Handler, WorkflowStep(h)
      PROVE  ObP!TxInv'
  <2>1. UNCHANGED <<topic, obOwn>>
    BY <1>2 DEF WorkflowStep
  <2>2. UNCHANGED outbox \/ \E ev \in Event : ObP!Queues(ev)
    BY <1>2, WorkflowQueues DEF LcInv
  <2>. QED
    BY <1>1, <2>1, <2>2, ObAssumptions, ObP!TxInvQueues DEF LcInv, ObP!obHistory, obOwn
<1>3. ASSUME NEW d \in Dispatcher, DispatcherStep(d)
      PROVE  ObP!TxInv'
  BY <1>3, DispatcherSends, ObAssumptions, ObP!TxInvStep DEF LcInv
<1>4. (\E c \in Consumer : ConsumerStep(c)) \/ AssetApiStep
        => UNCHANGED <<outbox, topic, obOwn>>
  BY AssetServiceReads
<1>. QED
  BY <1>1, <1>2, <1>3, <1>4 DEF LcNext, lcVars, wfVars

LEMMA OneMore ==
  ASSUME NEW s \in Seq(Event), NEW ev \in Event, NEW k \in DOMAIN Append(s, ev)
  PROVE  Append(s, ev)[k] = ev \/ (k \in DOMAIN s /\ Append(s, ev)[k] = s[k])
OBVIOUS

\* Rows of the outbox keep their events and are never removed.
LEMMA QueuedKept ==
  ASSUME LcInv, [LcNext]_lcVars, NEW ev, QueuedEvent(ev)
  PROVE  QueuedEvent(ev)'
<1>. SUFFICES \A i \in DOMAIN outbox : i \in DOMAIN outbox' /\ outbox'[i].event = outbox[i].event
  BY DEF QueuedEvent
<1>1. CASE UNCHANGED outbox
  BY <1>1
<1>2. ASSUME NEW e \in Event, ObP!Queues(e)
      PROVE  \A i \in DOMAIN outbox : i \in DOMAIN outbox' /\ outbox'[i].event = outbox[i].event
  BY <1>2, ObAssumptions, ObP!QueuesEffect DEF LcInv
<1>. QED
  BY <1>1, <1>2, WorkflowQueues, DispatcherSends, AssetServiceReads
  DEF LcInv, LcNext, lcVars, wfVars

LEMMA OnlyQueuedStep == LcInv /\ [LcNext]_lcVars => OnlyQueued'
<1>. SUFFICES ASSUME LcInv, [LcNext]_lcVars
              PROVE  OnlyQueued'
  OBVIOUS
<1>a. AsP!Shape /\ OnlyQueued
  BY DEF LcInv
<1>b. CASE UNCHANGED <<topic, applied>>
  BY <1>a, <1>b, QueuedKept DEF OnlyQueued
<1>1. ASSUME NEW h \in Handler, WorkflowStep(h)
      PROVE  UNCHANGED <<topic, applied>>
  BY <1>1 DEF WorkflowStep, asOwn
<1>2. ASSUME NEW i \in DOMAIN outbox, outbox[i].event \in Event, ObP!Publish(i), UNCHANGED applied
      PROVE  OnlyQueued'
  <2>. PICK ev \in Event : ev = outbox[i].event
    BY <1>2
  <2>. DEFINE p == PartitionOfEvent[ev]
  <2>1. p \in Partition /\ topic \in [Partition -> Seq(Event)] /\ topic[p] \in Seq(Event)
    BY <1>a, PartitionOfEventType DEF AsP!Shape
  <2>2. topic' = [topic EXCEPT ![p] = Append(topic[p], ev)]
    BY <1>2 DEF ObP!Publish
  <2>3. /\ topic'[p] = Append(topic[p], ev)
        /\ \A q \in Partition : q # p => topic'[q] = topic[q]
    BY <2>1, <2>2
  <2>4. \A n \in DOMAIN topic'[p] : topic'[p][n] = ev \/ (n \in DOMAIN topic[p] /\ topic'[p][n] = topic[p][n])
    BY <2>1, <2>3, OneMore
  <2>5. QueuedEvent(ev)
    BY DEF QueuedEvent
  <2>6. \A q \in Partition : \A n \in DOMAIN topic'[q] : QueuedEvent(topic'[q][n])
    BY <1>a, <2>3, <2>4, <2>5 DEF OnlyQueued
  <2>. QED
    BY <1>2, <1>a, <2>6, QueuedKept DEF OnlyQueued
<1>3. ASSUME NEW d \in Dispatcher, DispatcherStep(d)
      PROVE  OnlyQueued'
  <2>1. UNCHANGED applied
    BY <1>3 DEF DispatcherStep, asOwn
  <2>. QED
    BY <1>b, <1>2, <1>3, <2>1, DispatcherSends DEF LcInv
<1>4. ASSUME NEW c \in Consumer, AsP!ChangeStatus(c), UNCHANGED topic
      PROVE  OnlyQueued'
  <2>. PICK ev : ev = AsP!Message(c)
    OBVIOUS
  <2>1. worker[c] # AsP!Idle
    BY <1>4 DEF AsP!ChangeStatus, AsP!Idle
  <2>2. /\ worker[c].part \in Partition /\ worker[c].at \in DOMAIN topic[worker[c].part]
        /\ ev \in Event /\ ev.asset \in Asset
    BY <1>a, <2>1, AsAssumptions, AsP!MessageFacts
  <2>3. QueuedEvent(ev)
    BY <1>a, <2>2 DEF OnlyQueued, AsP!Message
  <2>4. applied' = [applied EXCEPT ![ev.asset] = Append(applied[ev.asset], ev)]
    BY <1>4 DEF AsP!ChangeStatus
  <2>5. applied \in [Asset -> Seq(Event)]
    BY <1>a DEF AsP!Shape
  <2>6. \A a \in Asset : \A k \in DOMAIN applied'[a] :
          applied'[a][k] = ev \/ (k \in DOMAIN applied[a] /\ applied'[a][k] = applied[a][k])
    <3>1. /\ applied'[ev.asset] = Append(applied[ev.asset], ev)
          /\ \A a \in Asset : a # ev.asset => applied'[a] = applied[a]
      BY <2>2, <2>4, <2>5
    <3>2. applied[ev.asset] \in Seq(Event)
      BY <2>2, <2>5
    <3>. SUFFICES ASSUME NEW a \in Asset, NEW k \in DOMAIN applied'[a]
                  PROVE  applied'[a][k] = ev \/ (k \in DOMAIN applied[a] /\ applied'[a][k] = applied[a][k])
      OBVIOUS
    <3>3. CASE a = ev.asset
      <4>. PICK s \in Seq(Event) : s = applied[a]
        BY <3>2, <3>3
      <4>1. applied'[a] = Append(s, ev) /\ k \in DOMAIN Append(s, ev)
        BY <3>1, <3>3
      <4>2. Append(s, ev)[k] = ev \/ (k \in DOMAIN s /\ Append(s, ev)[k] = s[k])
        BY <2>2, <4>1, OneMore
      <4>. QED
        BY <4>1, <4>2
    <3>. QED
      BY <3>1, <3>3
  <2>7. \A a \in Asset : \A k \in DOMAIN applied'[a] : QueuedEvent(applied'[a][k])
    BY <1>a, <2>3, <2>6 DEF OnlyQueued
  <2>. QED
    BY <1>a, <1>4, <2>7, QueuedKept DEF OnlyQueued
<1>5. ASSUME NEW c \in Consumer, ConsumerStep(c)
      PROVE  OnlyQueued'
  <2>1. (\E p \in Partition : AsP!Fetch(c, p)) \/ AsP!WorkerStep(c) \/ AsP!ConsumerFault(c)
    BY <1>5, SameFetch, SameWorkerStep, SameConsumerFault DEF ConsumerStep
  <2>2. UNCHANGED topic
    BY <1>5, AssetServiceReads
  <2>3. CASE UNCHANGED applied
    BY <1>b, <2>2, <2>3
  <2>. QED
    BY <1>4, <2>1, <2>2, <2>3
    DEF AsP!Fetch, AsP!WorkerStep, AsP!Dedup, AsP!ReadAsset, AsP!Ack, AsP!apiVars,
        AsP!ConsumerFault, AsP!DedupFails, AsP!ChangeFails, AsP!AckFails, AsP!Crash, AsP!Rebalance
<1>6. CASE AssetApiStep
  <2>1. AsP!ApiStep /\ UNCHANGED topic
    BY <1>6, SameApiStep, AssetServiceReads DEF AssetApiStep
  <2>2. UNCHANGED applied
    BY <2>1 DEF AsP!ApiStep, AsP!CreateAsset, AsP!ReadForDelete, AsP!ReadForUpdate,
      AsP!WriteAsset, AsP!AbandonSession
  <2>. QED
    BY <1>b, <2>1, <2>2
<1>. QED
  BY <1>b, <1>1, <1>3, <1>5, <1>6 DEF LcNext, lcVars, asOwn

LEMMA LcInvStep == LcInv /\ [LcNext]_lcVars => LcInv'
<1>. SUFFICES ASSUME LcInv, [LcNext]_lcVars
              PROVE  LcInv'
  OBVIOUS
<1>1. [AsP!AsNext]_(AsP!asVars)
  BY AssetServiceStep
<1>2. AsP!Shape' /\ AsP!LedgerInv'
  BY <1>1, AsAssumptions, AsP!ShapeStep, AsP!LedgerStep DEF LcInv
<1>. QED
  BY <1>2, WorkflowServiceStep, OutboxStep, OnlyQueuedStep DEF LcInv

LEMMA LcInvHolds == LcSpec => []LcInv
BY LcInvInit, LcInvStep, PTL DEF LcSpec

-------------------------------------------------------------------------------
(***************************************************************************)
(* What holds of the whole                                                 *)
(***************************************************************************)
\* Seen from the ledger, the workflow service, the outbox and its dispatchers are one
\* of the environments AssetService allows for: what holds of it with any messages in
\* the topic holds here.
THEOREM LifecycleImplementsAssetService == LcSpec => AsP!AsSpec
<1>1. LcInit => AsP!AsInit
  BY SameAsInit DEF LcInit
<1>. QED
  BY <1>1, AssetServiceStep, LcInvHolds, PTL DEF LcSpec, AsP!AsSpec

\* Every event that ever changed the ledger is that of a request that is archived,
\* about that asset, with the target and the user the request asked for: no message,
\* duplicate, crash or rebalance brings anything else into the ledger.
THEOREM AppliedWasGrantedHolds == LcSpec => []AppliedWasGranted
<1>1. LcInv => AppliedWasGranted
  <2>. SUFFICES ASSUME LcInv, NEW a \in Asset, NEW k \in DOMAIN applied[a]
                PROVE  /\ Granted(applied[a][k].request)
                       /\ applied[a][k].asset = a
                       /\ EventMatches(applied[a][k], request[applied[a][k].request])
    BY DEF AppliedWasGranted
  <2>1. applied[a][k].asset = a
    BY DEF LcInv, AsP!LedgerInv
  <2>2. PICK i \in DOMAIN outbox : outbox[i].event = applied[a][k]
    BY DEF LcInv, OnlyQueued, QueuedEvent
  <2>3. /\ outbox[i].event.request \in DOMAIN request
        /\ request[outbox[i].event.request].status = Archived
        /\ EventMatches(outbox[i].event, request[outbox[i].event.request])
    BY DEF LcInv, WfInv, EventIffArchived
  <2>. QED
    BY <2>1, <2>2, <2>3 DEF Granted
<1>. QED
  BY <1>1, LcInvHolds, PTL

\* An asset only goes through the changes of status the status machine allows, unless
\* its partition was taken from an instance that had one of its events in hand.
THEOREM LegalUnlessTakenOverHolds == LcSpec => []As!LegalUnlessTakenOver
<1>1. \A ev, fv \in Event : ev.asset = fv.asset => PartitionOfEvent[ev] = PartitionOfEvent[fv]
  BY DEF PartitionOfEvent
<1>2. AsP!AsSpec => []AsP!LegalUnlessTakenOver
  BY <1>1, AsAssumptions, AsP!LegalUnlessTakenOverHolds
<1>3. AsP!LegalUnlessTakenOver => As!LegalUnlessTakenOver
  BY SameHistory
<1>. QED
  BY <1>2, <1>3, LifecycleImplementsAssetService, PTL

\* The event of a granted request puts the asset in use exactly if it assigns it to
\* somebody, and then to the requester of a use request.
LEMMA InUseIffAssigned ==
  ASSUME NEW ev, NEW row \in RequestRow, EventMatches(ev, row)
  PROVE  /\ ev.target = InUse <=> ev.user # Nobody
         /\ ev.user # Nobody => row.type = Use /\ row.requester = ev.user
<1>1. row.type \in RequestType /\ row.requester \in User
  BY DEF RequestRow
<1>2. TargetStatus[row.type] = InUse <=> row.type = Use
  BY <1>1 DEF TargetStatus, RequestType, Use, Return, Repair, Scrap, InStock, InUse, InRepair, Scrapped
<1>. QED
  BY <1>1, <1>2, NobodyAssumption DEF EventMatches, AssignedUser

\* Nobody holds an asset without a granted use request of their own for it that took
\* effect, unless the ledger started that way; a user is on record exactly while the
\* asset is in use, as in the rows the ledger started with.
THEOREM HeldByGranteeHolds ==
  ASSUME \A a \in DOMAIN Seed : Seed[a].status = InUse <=> Seed[a].user # Nobody
  PROVE  LcSpec => []HeldByGrantee
<1>1. LcInv /\ AppliedWasGranted => HeldByGrantee
  <2>. SUFFICES ASSUME LcInv, AppliedWasGranted, NEW a \in DOMAIN ledger
                PROVE  /\ ledger[a].status = InUse <=> ledger[a].user # Nobody
                       /\ ledger[a].user # Nobody =>
                            \/ applied[a] = << >>
                            \/ \E r \in As!AppliedTo(a) :
                                 /\ Granted(r)
                                 /\ request[r].type = Use
                                 /\ request[r].requester = ledger[a].user
    BY DEF HeldByGrantee
  <2>. DEFINE n == Len(applied[a])
  <2>1. /\ a \in Asset /\ applied[a] \in Seq(Event)
        /\ ledger[a].status = AsP!StatusBefore(a, n + 1)
        /\ ledger[a].user = AsP!UserBefore(a, n + 1)
    BY DEF LcInv, AsP!Shape, AsP!LedgerInv
  <2>2. CASE n = 0
    <3>1. applied[a] = << >> /\ ~(n + 1 > 1)
      BY <2>1, <2>2
    <3>2. ledger[a].status = (IF a \in DOMAIN Seed THEN Seed[a].status ELSE InStock)
      BY <2>1, <3>1 DEF AsP!StatusBefore, AsP!InStock, InStock
    <3>3. ledger[a].user = (IF a \in DOMAIN Seed THEN Seed[a].user ELSE Nobody)
      BY <2>1, <3>1 DEF AsP!UserBefore
    <3>4. InStock # InUse
      BY DEF InStock, InUse
    <3>. QED
      BY <3>1, <3>2, <3>3, <3>4
  <2>3. CASE n # 0
    <3>1. n \in DOMAIN applied[a] /\ n + 1 > 1 /\ (n + 1) - 1 = n
      BY <2>1, <2>3
    <3>. PICK ev : ev = applied[a][n]
      OBVIOUS
    <3>2. ledger[a].status = ev.target /\ ledger[a].user = ev.user
      BY <2>1, <3>1 DEF AsP!StatusBefore, AsP!UserBefore
    <3>3. Granted(ev.request) /\ EventMatches(ev, request[ev.request])
      BY <2>1, <3>1 DEF AppliedWasGranted
    <3>4. request[ev.request] \in RequestRow
      BY <3>3 DEF Granted, LcInv, WfInv, WfTypeOK
    <3>5. ev.request \in As!AppliedTo(a)
      BY <3>1 DEF As!AppliedTo
    <3>. QED
      BY <3>2, <3>3, <3>4, <3>5, InUseIffAssigned
  <2>. QED
    BY <2>2, <2>3
<1>. QED
  BY <1>1, LcInvHolds, AppliedWasGrantedHolds, PTL

\* A granted request changes the ledger at most once, however often the dispatchers
\* send its event and the consumers receive it.
THEOREM AppliedAtMostOnceHolds == LcSpec => []As!AppliedAtMostOnce
<1>1. AsP!AsSpec => []AsP!AsInv
  BY AsAssumptions, AsP!AsInvHolds
<1>2. AsP!AsInv => As!AppliedAtMostOnce
  BY DEF AsP!AsInv, AsP!AppliedAtMostOnce, As!AppliedAtMostOnce
<1>. QED
  BY <1>1, <1>2, LifecycleImplementsAssetService, PTL

\* With the dispatchers and the consumers at work, the handlers still implement the
\* approval protocol: nothing the others do to the outbox unmakes a promise.
THEOREM LifecycleImplementsApproval == LcSpec => ImplementsApproval
<1>1. LcInv /\ [LcNext]_lcVars => [Promise!Next]_(Promise!vars)
  <2>. SUFFICES ASSUME LcInv, [LcNext]_lcVars
                PROVE  [Promise!Next]_(Promise!vars)
    OBVIOUS
  <2>1. CASE UNCHANGED wfVars
    BY <2>1, PromiseStep DEF LcInv
  <2>2. ASSUME NEW h \in Handler, WorkflowStep(h)
        PROVE  [Promise!Next]_(Promise!vars)
    BY <2>2, WorkflowQueues, PromiseStep DEF LcInv
  <2>3. ASSUME NEW d \in Dispatcher, DispatcherStep(d)
        PROVE  UNCHANGED Promise!vars
    <3>1. UNCHANGED request
      BY <2>3 DEF DispatcherStep
    <3>2. DOMAIN outbox' = DOMAIN outbox /\ \A i \in DOMAIN outbox : outbox'[i].event = outbox[i].event
      BY <2>3, DispatcherSends DEF LcInv
    <3>3. [i \in DOMAIN outbox' |-> outbox'[i].event.request]
            = [i \in DOMAIN outbox |-> outbox[i].event.request]
      BY <3>2
    <3>. QED
      BY <3>1, <3>3 DEF Promise!vars
  <2>4. (\E c \in Consumer : ConsumerStep(c)) \/ AssetApiStep => UNCHANGED wfVars
    BY DEF ConsumerStep, AssetApiStep
  <2>. QED
    BY <2>1, <2>2, <2>3, <2>4 DEF LcNext, lcVars
<1>2. LcInit => Promise!Init
  BY PromiseInit DEF LcInit
<1>. QED
  BY <1>1, <1>2, LcInvHolds, PTL DEF LcSpec, ImplementsApproval, Promise!Spec
===============================================================================
