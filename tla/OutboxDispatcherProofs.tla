------------------------ MODULE OutboxDispatcherProofs ------------------------
(***************************************************************************)
(* The invariants of OutboxDispatcher, for any number of dispatchers,      *)
(* events, partitions, retries and rollbacks.                              *)
(***************************************************************************)
EXTENDS OutboxDispatcher, FiniteSetTheorems, TLAPS

-------------------------------------------------------------------------------
(***************************************************************************)
(* The inductive invariant                                                 *)
(***************************************************************************)
Verdict == [status : {Pending, Sent, Dead}, retry : Nat]

\* Each instance has one transaction: its batch and the outcomes so far.
TxShape ==
  /\ DOMAIN tx = Dispatcher
  /\ \A d \in Dispatcher : tx[d] = [batch |-> tx[d].batch, outcome |-> tx[d].outcome]

\* FOR UPDATE SKIP LOCKED: no row is in two batches, and a row in a batch is
\* still to be sent.
LocksExclude ==
  /\ \A c, d \in Dispatcher : c # d => tx[c].batch \cap tx[d].batch = {}
  /\ \A d \in Dispatcher : \A i \in tx[d].batch : outbox[i].status = Pending

\* What markRetry may have noted of a row, and what a successful send notes.
SentVerdict(row, v) == v.status = Sent /\ v.retry = row.retry

FailedVerdict(row, v) ==
  v.status = StatusAfterFailure(row.retry) /\ v.retry = row.retry + 1

OutcomesTrue ==
  \A d \in Dispatcher : \A i \in DOMAIN tx[d].outcome :
    LET v == tx[d].outcome[i] IN
    SentVerdict(outbox[i], v) \/ FailedVerdict(outbox[i], v)

\* The part that does not speak of the topic.
TxInv == ObTypeOK /\ TxShape /\ LocksExclude /\ OutcomesTrue

-------------------------------------------------------------------------------
(***************************************************************************)
(* Facts about single steps                                                *)
(***************************************************************************)
LEMMA RowType ==
  ASSUME ObTypeOK, NEW i \in DOMAIN outbox
  PROVE  /\ i \in Nat
         /\ outbox[i].event \in Event
         /\ outbox[i].status \in {Pending, Sent, Dead}
         /\ outbox[i].retry \in Nat
         /\ outbox[i] = [event |-> outbox[i].event, status |-> outbox[i].status,
                         retry |-> outbox[i].retry]
<1>1. i \in Nat /\ outbox[i] \in Row
  BY DEF ObTypeOK
<1>. QED
  BY <1>1 DEF Row

\* The histories speak of rows that exist.
HistoryOK ==
  /\ DOMAIN failed \subseteq DOMAIN outbox /\ failed \in [DOMAIN failed -> Nat]
  /\ lost \subseteq DOMAIN outbox

LEMMA FailuresType ==
  ASSUME TxInv, NEW i
  PROVE  Failures(i) \in Nat
BY DEF TxInv, ObTypeOK, Failures

LEMMA FirstOfSubset ==
  ASSUME NEW S, NEW n
  PROVE  FirstOf(S, n) \subseteq S
BY DEF FirstOf

\* A row is queued, by whatever means.
Queues(ev) == outbox' = Append(outbox, [event |-> ev, status |-> Pending, retry |-> 0])

LEMMA QueuesEffect ==
  ASSUME TxInv, NEW ev \in Event, Queues(ev)
  PROVE  /\ outbox' \in Seq(Row)
         /\ DOMAIN outbox' = DOMAIN outbox \cup {Len(outbox) + 1}
         /\ Len(outbox) + 1 \notin DOMAIN outbox
         /\ \A i \in DOMAIN outbox : outbox'[i] = outbox[i] /\ i < Len(outbox) + 1
         /\ outbox'[Len(outbox) + 1] = [event |-> ev, status |-> Pending, retry |-> 0]
         /\ outbox'[Len(outbox) + 1].event = ev
BY DEF TxInv, ObTypeOK, Queues, Row

LEMMA EnqueueEffect ==
  ASSUME TxInv, NEW ev \in Event, Enqueue(ev)
  PROVE  /\ outbox' \in Seq(Row)
         /\ DOMAIN outbox' = DOMAIN outbox \cup {Len(outbox) + 1}
         /\ Len(outbox) + 1 \notin DOMAIN outbox
         /\ \A i \in DOMAIN outbox : outbox'[i] = outbox[i] /\ i < Len(outbox) + 1
         /\ outbox'[Len(outbox) + 1] = [event |-> ev, status |-> Pending, retry |-> 0]
         /\ outbox'[Len(outbox) + 1].event = ev
BY QueuesEffect DEF Enqueue, Queues

LEMMA PollEffect ==
  ASSUME TxInv, NEW d \in Dispatcher, Poll(d)
  PROVE  /\ DOMAIN tx' = Dispatcher
         /\ tx'[d] = [batch |-> FirstOf(Due, BatchLimit), outcome |-> tx[d].outcome]
         /\ tx'[d].outcome = tx[d].outcome
         /\ DOMAIN tx'[d].outcome = {}
         /\ \A c \in Dispatcher : c # d => tx'[c] = tx[c]
         /\ tx'[d].batch \subseteq Due
<1>1. /\ DOMAIN tx' = Dispatcher
      /\ tx'[d] = [batch |-> FirstOf(Due, BatchLimit), outcome |-> tx[d].outcome]
      /\ \A c \in Dispatcher : c # d => tx'[c] = tx[c]
  <2>. DEFINE B == FirstOf(Due, BatchLimit)
  <2>1. tx' = [tx EXCEPT ![d].batch = B]
    BY DEF Poll
  <2>. HIDE DEF B
  <2>2. /\ DOMAIN tx' = Dispatcher
        /\ tx'[d] = [batch |-> B, outcome |-> tx[d].outcome]
        /\ \A c \in Dispatcher : c # d => tx'[c] = tx[c]
    BY <2>1 DEF TxInv, TxShape
  <2>. QED
    BY <2>2 DEF B
<1>2. DOMAIN tx[d].outcome = {}
  BY DEF Poll, NoTx, NoOutcome
<1>3. tx'[d].batch = FirstOf(Due, BatchLimit) /\ tx'[d].outcome = tx[d].outcome
  BY <1>1
<1>4. FirstOf(Due, BatchLimit) \subseteq Due
  BY FirstOfSubset
<1>. QED
  BY <1>1, <1>2, <1>3, <1>4

\* One attempt notes one verdict.
LEMMA AttemptEffect ==
  ASSUME TxInv, NEW d \in Dispatcher, NEW i, NEW status, NEW retry,
         IsNext(d, i), Outcome(d, i, status, retry)
  PROVE  /\ i \in tx[d].batch /\ i \notin DOMAIN tx[d].outcome
         /\ DOMAIN tx' = Dispatcher
         /\ tx'[d].batch = tx[d].batch
         /\ DOMAIN tx'[d].outcome = DOMAIN tx[d].outcome \cup {i}
         /\ tx'[d].outcome[i] = [status |-> status, retry |-> retry]
         /\ \A j \in DOMAIN tx[d].outcome : tx'[d].outcome[j] = tx[d].outcome[j]
         /\ tx'[d] = [batch |-> tx'[d].batch, outcome |-> tx'[d].outcome]
         /\ \A c \in Dispatcher : c # d => tx'[c] = tx[c]
<1>. DEFINE out == [j \in DOMAIN tx[d].outcome \cup {i} |->
                      IF j = i THEN [status |-> status, retry |-> retry]
                      ELSE tx[d].outcome[j]]
<1>1. tx' = [tx EXCEPT ![d].outcome = out]
  BY DEF TxInv, TxShape, Outcome
<1>2. i \in tx[d].batch /\ i \notin DOMAIN tx[d].outcome
  BY DEF IsNext, Unhandled
<1>3. /\ DOMAIN tx' = Dispatcher
      /\ tx'[d] = [batch |-> tx[d].batch, outcome |-> out]
      /\ \A c \in Dispatcher : c # d => tx'[c] = tx[c]
  <2>. HIDE DEF out
  <2>. QED
    BY <1>1 DEF TxInv, TxShape
<1>. QED
  BY <1>2, <1>3

\* One attempt does not both succeed and fail.
LEMMA SendXorFails ==
  ASSUME TxInv, NEW d \in Dispatcher, NEW i, Send(d, i), SendFails(d, i)
  PROVE  FALSE
<1>. DEFINE late == StatusAfterFailure(outbox[i].retry)
            more == outbox[i].retry + 1
            same == outbox[i].retry
<1>1. IsNext(d, i) /\ Outcome(d, i, Sent, same) /\ Outcome(d, i, late, more)
  BY DEF Send, SendFails
<1>2. late # Sent
  BY DEF StatusAfterFailure, Pending, Sent, Dead
<1>. HIDE DEF late, more, same
<1>3. tx'[d].outcome[i] = [status |-> Sent, retry |-> same]
  BY <1>1, AttemptEffect
<1>4. tx'[d].outcome[i] = [status |-> late, retry |-> more]
  BY <1>1, AttemptEffect
<1>. QED
  BY <1>2, <1>3, <1>4

\* A send changes the histories for its row only.
LEMMA AttemptHistory ==
  ASSUME TxInv, NEW d \in Dispatcher, NEW i \in DOMAIN outbox, Send(d, i) \/ SendFails(d, i)
  PROVE  /\ HistoryOK'
         /\ lost \subseteq lost'
         /\ \A j : j # i => Failures(j)' = Failures(j)
         /\ Send(d, i) => UNCHANGED failed /\ (Publish(i) \/ i \in lost')
         /\ SendFails(d, i) => Failures(i)' = Failures(i) + 1
<1>1. UNCHANGED outbox
  BY DEF Send, SendFails
<1>2. CASE Send(d, i)
  <2>1. UNCHANGED failed
    BY <1>2 DEF Send
  <2>2. (Publish(i) /\ lost' = lost) \/ lost' = lost \cup {i}
    BY <1>2 DEF Send, Kept, Lost
  <2>3. \A j : Failures(j)' = Failures(j)
    BY <2>1 DEF Failures
  <2>4. ~SendFails(d, i)
    BY <1>2, SendXorFails
  <2>. QED
    BY <1>1, <2>1, <2>2, <2>3, <2>4 DEF TxInv, ObTypeOK, HistoryOK
<1>3. CASE SendFails(d, i)
  <2>. DEFINE F == [j \in DOMAIN failed \cup {i} |-> Failures(j) + (IF j = i THEN 1 ELSE 0)]
  <2>1. failed' = F /\ UNCHANGED lost
    BY <1>3 DEF SendFails
  <2>2. \A j : Failures(j) \in Nat
    BY FailuresType
  <2>3. DOMAIN F = DOMAIN failed \cup {i} /\ F \in [DOMAIN F -> Nat]
    BY <2>2
  <2>4. DOMAIN F \subseteq DOMAIN outbox
    BY <2>3 DEF TxInv, ObTypeOK
  <2>5. HistoryOK'
    BY <1>1, <2>1, <2>3, <2>4 DEF HistoryOK, TxInv, ObTypeOK
  <2>6. ASSUME NEW j, j # i
        PROVE  Failures(j)' = Failures(j)
    <3>1. CASE j \in DOMAIN failed
      <4>1. F[j] = Failures(j)
        BY <2>2, <2>6, <3>1
      <4>2. j \in DOMAIN F
        BY <3>1
      <4>. QED
        BY <2>1, <4>1, <4>2 DEF Failures
    <3>2. CASE j \notin DOMAIN failed
      <4>1. j \notin DOMAIN F
        BY <2>6, <3>2
      <4>. QED
        BY <2>1, <3>2, <4>1 DEF Failures
    <3>. QED
      BY <3>1, <3>2
  <2>7. Failures(i)' = Failures(i) + 1
    <3>1. i \in DOMAIN F /\ F[i] = Failures(i) + 1
      OBVIOUS
    <3>. QED
      BY <2>1, <3>1 DEF Failures
  <2>8. ~Send(d, i)
    BY <1>3, SendXorFails
  <2>. QED
    BY <2>1, <2>5, <2>6, <2>7, <2>8
<1>. QED
  BY <1>2, <1>3

LEMMA CommitEffect ==
  ASSUME TxInv, NEW d \in Dispatcher, Commit(d)
  PROVE  /\ DOMAIN outbox' = DOMAIN outbox
         /\ outbox' \in Seq(Row)
         /\ \A i \in DOMAIN outbox : i \notin tx[d].batch => outbox'[i] = outbox[i]
         /\ \A i \in tx[d].batch :
              /\ i \in DOMAIN outbox
              /\ i \in DOMAIN tx[d].outcome
              /\ outbox'[i].event = outbox[i].event
              /\ outbox'[i].status = tx[d].outcome[i].status
              /\ outbox'[i].retry = tx[d].outcome[i].retry
<1>. DEFINE out == tx[d].outcome
<1>1. DOMAIN out = tx[d].batch /\ tx[d].batch \subseteq DOMAIN outbox
  BY DEF Commit, TxInv, ObTypeOK
<1>2. ASSUME NEW i \in DOMAIN outbox
      PROVE  outbox'[i] =
               IF i \in DOMAIN out
               THEN [event |-> outbox[i].event, status |-> out[i].status, retry |-> out[i].retry]
               ELSE outbox[i]
  <2>1. outbox'[i] = IF i \in DOMAIN out
                     THEN [outbox[i] EXCEPT !.status = out[i].status, !.retry = out[i].retry]
                     ELSE outbox[i]
    BY DEF Commit
  <2>2. outbox[i] = [event |-> outbox[i].event, status |-> outbox[i].status,
                     retry |-> outbox[i].retry]
    BY RowType DEF TxInv
  <2>. QED
    BY <2>1, <2>2
<1>3. \A i \in DOMAIN out : out[i].status \in {Pending, Sent, Dead} /\ out[i].retry \in Nat
  BY DEF TxInv, ObTypeOK
<1>4. ASSUME NEW i \in DOMAIN outbox
      PROVE  outbox'[i] \in Row
  <2>1. outbox[i] \in Row
    BY DEF TxInv, ObTypeOK
  <2>2. CASE i \in DOMAIN out
    <3>1. outbox[i].event \in Event
      BY RowType DEF TxInv
    <3>2. outbox'[i] = [event |-> outbox[i].event, status |-> out[i].status, retry |-> out[i].retry]
      BY <1>2, <2>2
    <3>. QED
      BY <1>3, <2>2, <3>1, <3>2 DEF Row
  <2>. QED
    BY <1>2, <2>1, <2>2
<1>5. DOMAIN outbox' = DOMAIN outbox
  BY DEF Commit
<1>6. DOMAIN outbox = 1 .. Len(outbox) /\ Len(outbox) \in Nat
  BY DEF TxInv, ObTypeOK
<1>7. outbox' \in [1 .. Len(outbox) -> Row]
  BY <1>4, <1>6 DEF Commit
<1>8. outbox' \in Seq(Row)
  BY <1>6, <1>7
<1>. QED
  BY <1>1, <1>2, <1>5, <1>8

\* After a commit and after a rollback the instance holds nothing.
LEMMA EndEffect ==
  ASSUME TxInv, NEW d \in Dispatcher, Commit(d) \/ Rollback(d)
  PROVE  /\ DOMAIN tx' = Dispatcher
         /\ tx'[d] = [batch |-> {}, outcome |-> tx'[d].outcome]
         /\ DOMAIN tx'[d].outcome = {}
         /\ \A c \in Dispatcher : c # d => tx'[c] = tx[c]
<1>1. tx' = [tx EXCEPT ![d] = NoTx]
  BY DEF Commit, Rollback
<1>2. /\ DOMAIN tx' = Dispatcher
      /\ tx'[d] = NoTx
      /\ \A c \in Dispatcher : c # d => tx'[c] = tx[c]
  BY <1>1 DEF TxInv, TxShape
<1>. QED
  BY <1>2 DEF NoTx, NoOutcome

\* A message goes to the partition of its key, behind those that are there.
LEMMA PublishEffect ==
  ASSUME ObTypeOK, NEW i \in DOMAIN outbox, Publish(i)
  PROVE  LET p == PartitionOf[outbox[i].event] IN
         /\ p \in Partition
         /\ topic' \in [Partition -> Seq(Event)]
         /\ topic'[p] = Append(topic[p], outbox[i].event)
         /\ \A q \in Partition : q # p => topic'[q] = topic[q]
<1>. DEFINE p == PartitionOf[outbox[i].event]
<1>1. outbox[i].event \in Event /\ p \in Partition
  BY RowType, PartitionAssumption
<1>2. topic' = [topic EXCEPT ![p] = Append(@, outbox[i].event)]
  BY DEF Publish
<1>3. topic \in [Partition -> Seq(Event)]
  BY DEF ObTypeOK
<1>4. Append(topic[p], outbox[i].event) \in Seq(Event)
  BY <1>1, <1>3
<1>. HIDE DEF p
<1>5. /\ topic' \in [Partition -> Seq(Event)]
      /\ topic'[p] = Append(topic[p], outbox[i].event)
      /\ \A q \in Partition : q # p => topic'[q] = topic[q]
  BY <1>1, <1>2, <1>3, <1>4
<1>. QED
  BY <1>1, <1>5 DEF p

\* An attempt notes a true verdict on the next row, whatever becomes of the message.
LEMMA AttemptCases ==
  ASSUME TxInv, NEW d \in Dispatcher, NEW i \in DOMAIN outbox, Send(d, i) \/ SendFails(d, i)
  PROVE  /\ \E status \in {Pending, Sent, Dead}, retry \in Nat :
              /\ Outcome(d, i, status, retry)
              /\ LET v == [status |-> status, retry |-> retry] IN
                 SentVerdict(outbox[i], v) \/ FailedVerdict(outbox[i], v)
         /\ IsNext(d, i)
         /\ UNCHANGED <<outbox, rollbacks>>
         /\ Publish(i) \/ UNCHANGED topic
         /\ topic' \in [Partition -> Seq(Event)]
         /\ HistoryOK' /\ lost \subseteq lost'
<1>h. HistoryOK' /\ lost \subseteq lost'
  BY AttemptHistory
<1>1. ObTypeOK /\ outbox[i].retry \in Nat
  BY RowType DEF TxInv
<1>2. topic' \in [Partition -> Seq(Event)]
  <2>1. Publish(i) \/ UNCHANGED topic
    BY DEF Send, SendFails, Kept, Lost
  <2>. QED
    BY <1>1, <2>1, PublishEffect DEF ObTypeOK
<1>3. CASE Send(d, i)
  BY <1>1, <1>2, <1>3, <1>h DEF Send, Kept, Lost, SentVerdict
<1>4. CASE SendFails(d, i)
  <2>1. StatusAfterFailure(outbox[i].retry) \in {Pending, Sent, Dead} /\ outbox[i].retry + 1 \in Nat
    BY <1>1 DEF StatusAfterFailure
  <2>. QED
    BY <1>2, <1>4, <1>h, <2>1 DEF SendFails, FailedVerdict
<1>. QED
  BY <1>3, <1>4

-------------------------------------------------------------------------------
(***************************************************************************)
(* Type correctness and the locks                                          *)
(***************************************************************************)
LEMMA TxInvInit == ObInit => TxInv
<1>. SUFFICES ASSUME ObInit
              PROVE  TxInv
  OBVIOUS
<1>1. \A d \in Dispatcher : tx[d] = [batch |-> {}, outcome |-> NoOutcome]
  BY DEF ObInit, NoTx
<1>2. DOMAIN NoOutcome = {}
  BY DEF NoOutcome
<1>3. ObTypeOK
  BY <1>1, <1>2, BoundAssumption DEF ObInit, ObTypeOK, NoFailures
<1>. QED
  BY <1>1, <1>2, <1>3 DEF ObInit, TxInv, TxShape, LocksExclude, OutcomesTrue, NoTx

LEMMA TxInvQueues ==
  ASSUME TxInv, NEW ev \in Event, Queues(ev), UNCHANGED <<topic, tx, rollbacks, obHistory>>
  PROVE  TxInv'
<1>1. ObTypeOK'
  BY QueuesEffect DEF TxInv, ObTypeOK, obHistory
<1>2. \A d \in Dispatcher : \A i \in tx[d].batch : i \in DOMAIN outbox /\ outbox'[i] = outbox[i]
  BY QueuesEffect DEF TxInv, ObTypeOK
<1>3. \A d \in Dispatcher : DOMAIN tx[d].outcome \subseteq tx[d].batch
  BY DEF TxInv, ObTypeOK
<1>. QED
  BY <1>1, <1>2, <1>3 DEF TxInv, TxShape, LocksExclude, OutcomesTrue, SentVerdict, FailedVerdict

LEMMA TxInvEnqueue ==
  ASSUME TxInv, NEW ev \in Event, Enqueue(ev)
  PROVE  TxInv'
BY TxInvQueues DEF Enqueue, Queues

LEMMA TxInvPoll ==
  ASSUME TxInv, NEW d \in Dispatcher, Poll(d)
  PROVE  TxInv'
<1>1. UNCHANGED <<outbox, topic, rollbacks, failed, lost>>
  BY DEF Poll, obHistory
<1>2. \A i \in tx'[d].batch :
        /\ i \in DOMAIN outbox
        /\ outbox[i].status = Pending
        /\ \A c \in Dispatcher : i \notin tx[c].batch
  BY PollEffect DEF Due
<1>3. DOMAIN tx'[d].outcome = {}
  BY PollEffect
<1>4. ObTypeOK'
  BY <1>1, <1>2, <1>3, PollEffect DEF TxInv, ObTypeOK
<1>5. TxShape'
  BY PollEffect DEF TxInv, TxShape
<1>6. LocksExclude'
  <2>1. \A c \in Dispatcher : c # d => tx'[c] = tx[c]
    BY PollEffect
  <2>. QED
    BY <1>1, <1>2, <2>1 DEF TxInv, LocksExclude
<1>7. OutcomesTrue'
  <2>1. \A c \in Dispatcher : c # d => tx'[c] = tx[c]
    BY PollEffect
  <2>. QED
    BY <1>1, <1>3, <2>1 DEF TxInv, OutcomesTrue, SentVerdict, FailedVerdict
<1>. QED
  BY <1>4, <1>5, <1>6, <1>7 DEF TxInv

LEMMA TxInvAttempt ==
  ASSUME TxInv, NEW d \in Dispatcher, NEW i \in DOMAIN outbox, Send(d, i) \/ SendFails(d, i)
  PROVE  TxInv'
<1>1. PICK status \in {Pending, Sent, Dead}, retry \in Nat :
        /\ Outcome(d, i, status, retry)
        /\ LET v == [status |-> status, retry |-> retry] IN
           SentVerdict(outbox[i], v) \/ FailedVerdict(outbox[i], v)
  BY AttemptCases
<1>2. /\ IsNext(d, i)
      /\ UNCHANGED <<outbox, rollbacks>>
      /\ topic' \in [Partition -> Seq(Event)]
      /\ HistoryOK'
  BY AttemptCases
<1>3. /\ i \in tx[d].batch
      /\ DOMAIN tx' = Dispatcher
      /\ tx'[d].batch = tx[d].batch
      /\ DOMAIN tx'[d].outcome = DOMAIN tx[d].outcome \cup {i}
      /\ tx'[d].outcome[i] = [status |-> status, retry |-> retry]
      /\ \A j \in DOMAIN tx[d].outcome : tx'[d].outcome[j] = tx[d].outcome[j]
      /\ tx'[d] = [batch |-> tx'[d].batch, outcome |-> tx'[d].outcome]
      /\ \A c \in Dispatcher : c # d => tx'[c] = tx[c]
  BY <1>1, <1>2, AttemptEffect
<1>4. \A c \in Dispatcher : tx'[c].batch = tx[c].batch
  BY <1>3
<1>5. ObTypeOK'
  <2>1. [status |-> status, retry |-> retry] \in [status : {Pending, Sent, Dead}, retry : Nat]
    OBVIOUS
  <2>2. \A j \in DOMAIN tx'[d].outcome :
          tx'[d].outcome[j] \in [status : {Pending, Sent, Dead}, retry : Nat]
    BY <1>3, <2>1 DEF TxInv, ObTypeOK
  <2>3. DOMAIN tx'[d].outcome \subseteq tx'[d].batch /\ tx'[d].batch \subseteq DOMAIN outbox
    BY <1>3 DEF TxInv, ObTypeOK
  <2>. QED
    BY <1>2, <1>3, <2>2, <2>3 DEF TxInv, ObTypeOK, HistoryOK
<1>6. TxShape'
  BY <1>3 DEF TxInv, TxShape
<1>7. LocksExclude'
  BY <1>2, <1>4 DEF TxInv, LocksExclude
<1>8. OutcomesTrue'
  BY <1>1, <1>2, <1>3 DEF TxInv, OutcomesTrue, SentVerdict, FailedVerdict
<1>. QED
  BY <1>5, <1>6, <1>7, <1>8 DEF TxInv

LEMMA TxInvEnd ==
  ASSUME TxInv, NEW d \in Dispatcher, Commit(d) \/ Rollback(d)
  PROVE  TxInv'
<1>1. /\ DOMAIN tx' = Dispatcher
      /\ tx'[d] = [batch |-> {}, outcome |-> tx'[d].outcome]
      /\ DOMAIN tx'[d].outcome = {}
      /\ \A c \in Dispatcher : c # d => tx'[c] = tx[c]
  BY EndEffect
<1>2. /\ UNCHANGED topic
      /\ rollbacks' \in 0 .. MaxRollbacks
      /\ outbox' \in Seq(Row)
      /\ DOMAIN outbox' = DOMAIN outbox
      /\ UNCHANGED <<failed, lost>>
  <2>1. CASE Commit(d)
    BY <2>1, CommitEffect DEF Commit, TxInv, ObTypeOK, obHistory
  <2>2. CASE Rollback(d)
    BY <2>2, BoundAssumption DEF Rollback, TxInv, ObTypeOK, obHistory
  <2>. QED
    BY <2>1, <2>2
<1>3. \A c \in Dispatcher : c # d => \A i \in tx[c].batch : outbox'[i] = outbox[i]
  <2>1. CASE Commit(d)
    BY <2>1, CommitEffect DEF TxInv, LocksExclude, ObTypeOK
  <2>2. CASE Rollback(d)
    BY <2>2 DEF Rollback
  <2>. QED
    BY <2>1, <2>2
<1>4. ObTypeOK'
  BY <1>1, <1>2 DEF TxInv, ObTypeOK
<1>5. TxShape'
  BY <1>1 DEF TxInv, TxShape
<1>6. LocksExclude'
  BY <1>1, <1>3 DEF TxInv, LocksExclude
<1>7. OutcomesTrue'
  <2>1. \A c \in Dispatcher : DOMAIN tx[c].outcome \subseteq tx[c].batch
    BY DEF TxInv, ObTypeOK
  <2>. QED
    BY <1>1, <1>3, <2>1 DEF TxInv, OutcomesTrue, SentVerdict, FailedVerdict
<1>. QED
  BY <1>4, <1>5, <1>6, <1>7 DEF TxInv

LEMMA TxInvStep == TxInv /\ [ObNext]_obVars => TxInv'
<1>. SUFFICES ASSUME TxInv, [ObNext]_obVars
              PROVE  TxInv'
  OBVIOUS
<1>1. CASE UNCHANGED obVars
  BY <1>1 DEF obVars, obHistory, TxInv, ObTypeOK, TxShape, LocksExclude, OutcomesTrue
<1>2. CASE ObNext
  BY <1>2, TxInvEnqueue, TxInvPoll, TxInvAttempt, TxInvEnd DEF ObNext, DispatcherStep, Attempt
<1>. QED
  BY <1>1, <1>2

\* Rows, batches and outcomes are well-formed, no row is in two batches, and what
\* an instance has noted of a row is what the send of that row calls for.
THEOREM TxInvHolds == ObSpec => []TxInv
BY TxInvInit, TxInvStep, PTL DEF ObSpec

-------------------------------------------------------------------------------
(***************************************************************************)
(* What is recorded of a row                                               *)
(***************************************************************************)
\* A step changes the row of an event only by the verdict of the transaction that
\* holds it.
LEMMA RowChange ==
  ASSUME TxInv, [ObNext]_obVars, NEW i \in DOMAIN outbox
  PROVE  /\ i \in DOMAIN outbox'
         /\ outbox'[i].event = outbox[i].event
         /\ \/ outbox'[i] = outbox[i]
            \/ \E d \in Dispatcher :
                 /\ Commit(d)
                 /\ i \in DOMAIN tx[d].outcome
                 /\ outbox[i].status = Pending
                 /\ outbox'[i].status = tx[d].outcome[i].status
                 /\ outbox'[i].retry = tx[d].outcome[i].retry
                 /\ LET v == tx[d].outcome[i] IN
                    SentVerdict(outbox[i], v) \/ FailedVerdict(outbox[i], v)
<1>1. CASE UNCHANGED outbox
  BY <1>1
<1>2. ASSUME NEW ev \in Event, Enqueue(ev)
      PROVE  i \in DOMAIN outbox' /\ outbox'[i] = outbox[i]
  BY <1>2, EnqueueEffect
<1>3. ASSUME NEW d \in Dispatcher, Commit(d), outbox'[i] # outbox[i]
      PROVE  /\ i \in DOMAIN outbox'
             /\ outbox'[i].event = outbox[i].event
             /\ i \in DOMAIN tx[d].outcome
             /\ outbox[i].status = Pending
             /\ outbox'[i].status = tx[d].outcome[i].status
             /\ outbox'[i].retry = tx[d].outcome[i].retry
             /\ LET v == tx[d].outcome[i] IN
                SentVerdict(outbox[i], v) \/ FailedVerdict(outbox[i], v)
  <2>1. i \in tx[d].batch /\ i \in DOMAIN tx[d].outcome
    BY <1>3, CommitEffect
  <2>. QED
    BY <1>3, <2>1, CommitEffect DEF TxInv, LocksExclude, OutcomesTrue
<1>4. ASSUME NEW d \in Dispatcher, Commit(d)
      PROVE  DOMAIN outbox' = DOMAIN outbox
  BY <1>4, CommitEffect
<1>. QED
  BY <1>1, <1>2, <1>3, <1>4
  DEF ObNext, obVars, DispatcherStep, Attempt, Poll, Send, SendFails, Rollback

\* What one instance recorded is never taken back: a row that is sent or dead stays
\* as it is, whatever batches overlap and whatever is rolled back.
THEOREM SettledIsFinalHolds == ObSpec => SettledIsFinal
<1>. DEFINE Final == \A i \in DOMAIN outbox : outbox[i].status # Pending => outbox'[i] = outbox[i]
<1>1. TxInv /\ [ObNext]_obVars => [Final]_obVars
  BY RowChange
<1>. QED
  BY <1>1, TxInvHolds, PTL DEF ObSpec, SettledIsFinal

LEMMA DeadInit == ObInit => DeadAfterMaxRetry
BY DEF ObInit, DeadAfterMaxRetry

LEMMA DeadColumns ==
  ASSUME TxInv, DeadAfterMaxRetry, [ObNext]_obVars, NEW i \in DOMAIN outbox'
  PROVE  /\ outbox'[i].retry <= MaxRetry
         /\ outbox'[i].status = Dead <=> outbox'[i].retry = MaxRetry
<1>1. CASE i \notin DOMAIN outbox
  <2>1. PICK ev \in Event : Enqueue(ev)
    BY <1>1, CommitEffect
    DEF ObNext, obVars, DispatcherStep, Attempt, Poll, Send, SendFails, Rollback
  <2>2. i = Len(outbox) + 1
    BY <1>1, <2>1, EnqueueEffect
  <2>3. outbox'[i] = [event |-> ev, status |-> Pending, retry |-> 0]
    BY <2>1, <2>2, EnqueueEffect
  <2>. QED
    BY <2>3, RetryAssumption DEF Pending, Dead
<1>2. CASE i \in DOMAIN outbox
  <2>1. /\ outbox[i].retry \in Nat
        /\ outbox[i].retry <= MaxRetry
        /\ outbox[i].status = Dead <=> outbox[i].retry = MaxRetry
    BY <1>2, RowType DEF DeadAfterMaxRetry, TxInv
  <2>2. CASE outbox'[i] = outbox[i]
    BY <2>1, <2>2
  <2>3. CASE outbox'[i] # outbox[i]
    <3>1. PICK v \in {tx[d].outcome[i] : d \in Dispatcher} :
            /\ outbox[i].status = Pending
            /\ outbox'[i].status = v.status
            /\ outbox'[i].retry = v.retry
            /\ SentVerdict(outbox[i], v) \/ FailedVerdict(outbox[i], v)
      BY <1>2, <2>3, RowChange
    <3>2. outbox[i].retry < MaxRetry
      BY <2>1, <3>1, RetryAssumption DEF Pending, Dead
    <3>. QED
      BY <2>1, <3>1, <3>2, RetryAssumption
      DEF SentVerdict, FailedVerdict, StatusAfterFailure, Pending, Sent, Dead
  <2>. QED
    BY <2>2, <2>3
<1>. QED
  BY <1>1, <1>2

Counted == \A i \in DOMAIN outbox : Failures(i) \in Noted(i) .. Noted(i) + rollbacks

\* The three numbers of a row that the count relates.
LEMMA NotedType ==
  ASSUME TxInv, NEW i \in DOMAIN outbox
  PROVE  /\ outbox[i].retry \in Nat /\ Failures(i) \in Nat /\ rollbacks \in Nat
         /\ Noted(i) \in Nat
         /\ FailureInProgress(i) => Noted(i) = outbox[i].retry + 1
         /\ ~FailureInProgress(i) => Noted(i) = outbox[i].retry
<1>1. outbox[i].retry \in Nat /\ Failures(i) \in Nat /\ rollbacks \in Nat
  BY RowType, FailuresType, BoundAssumption DEF TxInv, ObTypeOK
<1>. QED
  BY <1>1 DEF Noted

LEMMA CountedStep == TxInv /\ TxInv' /\ Counted /\ [ObNext]_obVars => Counted'
<1>. SUFFICES ASSUME TxInv, TxInv', Counted, [ObNext]_obVars, NEW i \in DOMAIN outbox'
              PROVE  Failures(i)' \in Noted(i)' .. Noted(i)' + rollbacks'
  BY DEF Counted
<1>1. CASE i \notin DOMAIN outbox
  <2>1. PICK ev \in Event : Enqueue(ev)
    BY <1>1, CommitEffect
    DEF ObNext, obVars, DispatcherStep, Attempt, Poll, Send, SendFails, Rollback
  <2>2. i = Len(outbox) + 1
    BY <1>1, <2>1, EnqueueEffect
  <2>3. outbox'[i] = [event |-> ev, status |-> Pending, retry |-> 0]
    BY <2>1, <2>2, EnqueueEffect
  <2>4. UNCHANGED <<tx, failed, rollbacks>>
    BY <2>1 DEF Enqueue, obHistory
  <2>5. i \notin DOMAIN failed /\ \A d \in Dispatcher : i \notin DOMAIN tx[d].outcome
    BY <1>1 DEF TxInv, ObTypeOK
  <2>6. Failures(i)' = 0 /\ ~FailureInProgress(i)' /\ outbox'[i].retry = 0
    BY <2>3, <2>4, <2>5 DEF Failures, FailureInProgress
  <2>7. rollbacks \in Nat
    BY BoundAssumption DEF TxInv, ObTypeOK
  <2>. QED
    BY <2>4, <2>6, <2>7 DEF Noted
<1>2. CASE i \in DOMAIN outbox
  <2>n. /\ outbox[i].retry \in Nat /\ Failures(i) \in Nat /\ rollbacks \in Nat
        /\ Noted(i) \in Nat
        /\ FailureInProgress(i) => Noted(i) = outbox[i].retry + 1
        /\ ~FailureInProgress(i) => Noted(i) = outbox[i].retry
    BY <1>2, NotedType
  <2>c. Noted(i) <= Failures(i) /\ Failures(i) <= Noted(i) + rollbacks
    BY <1>2, <2>n DEF Counted
  <2>p. /\ FailureInProgress(i)' => Noted(i)' = outbox'[i].retry + 1
        /\ ~FailureInProgress(i)' => Noted(i)' = outbox'[i].retry
        /\ Noted(i)' \in Nat
    <3>1. outbox'[i] \in Row
      BY DEF TxInv, ObTypeOK
    <3>2. outbox'[i].retry \in Nat
      BY <3>1 DEF Row
    <3>. QED
      BY <3>2 DEF Noted
  \* Where neither the row's count nor the failure in progress changes.
  <2>s. ASSUME outbox'[i].retry = outbox[i].retry, UNCHANGED <<failed, rollbacks>>,
               FailureInProgress(i)' <=> FailureInProgress(i)
        PROVE  Failures(i)' \in Noted(i)' .. Noted(i)' + rollbacks'
    <3>1. Failures(i)' = Failures(i)
      BY <2>s DEF Failures
    <3>. QED
      BY <2>n, <2>c, <2>p, <2>s, <3>1
  <2>1. CASE UNCHANGED obVars
    BY <2>1, <2>s DEF obVars, obHistory, FailureInProgress
  <2>2. ASSUME NEW e \in Event, Enqueue(e)
        PROVE  Failures(i)' \in Noted(i)' .. Noted(i)' + rollbacks'
    <3>1. UNCHANGED <<tx, failed, rollbacks>> /\ outbox'[i] = outbox[i]
      BY <1>2, <2>2, EnqueueEffect DEF Enqueue, obHistory
    <3>. QED
      BY <2>s, <3>1 DEF FailureInProgress
  <2>3. ASSUME NEW d \in Dispatcher, Poll(d)
        PROVE  Failures(i)' \in Noted(i)' .. Noted(i)' + rollbacks'
    <3>1. UNCHANGED <<outbox, failed, rollbacks>>
      BY <2>3 DEF Poll, obHistory
    <3>2. \A c \in Dispatcher : tx'[c].outcome = tx[c].outcome
      BY <2>3, PollEffect
    <3>3. FailureInProgress(i)' <=> FailureInProgress(i)
      BY <3>1, <3>2 DEF FailureInProgress
    <3>. QED
      BY <2>s, <3>1, <3>3
  <2>4. ASSUME NEW d \in Dispatcher, NEW k \in DOMAIN outbox, Send(d, k) \/ SendFails(d, k)
        PROVE  Failures(i)' \in Noted(i)' .. Noted(i)' + rollbacks'
    <3>1. UNCHANGED <<outbox, rollbacks>>
      BY <2>4, AttemptCases
    <3>2. PICK status, retry :
            /\ Outcome(d, k, status, retry)
            /\ SendFails(d, k) => retry = outbox[k].retry + 1
            /\ Send(d, k) => retry = outbox[k].retry
      <4>1. CASE Send(d, k)
        <5>1. Outcome(d, k, Sent, outbox[k].retry)
          BY <4>1 DEF Send
        <5>2. ~SendFails(d, k)
          BY <4>1, SendXorFails
        <5>. QED
          BY <5>1, <5>2
      <4>2. CASE SendFails(d, k)
        <5>1. Outcome(d, k, StatusAfterFailure(outbox[k].retry), outbox[k].retry + 1)
          BY <4>2 DEF SendFails
        <5>2. ~Send(d, k)
          BY <4>2, SendXorFails
        <5>. QED
          BY <5>1, <5>2
      <4>. QED
        BY <2>4, <4>1, <4>2
    <3>3. /\ k \in tx[d].batch /\ k \notin DOMAIN tx[d].outcome
          /\ DOMAIN tx'[d].outcome = DOMAIN tx[d].outcome \cup {k}
          /\ tx'[d].outcome[k] = [status |-> status, retry |-> retry]
          /\ \A j \in DOMAIN tx[d].outcome : tx'[d].outcome[j] = tx[d].outcome[j]
          /\ \A c \in Dispatcher : c # d => tx'[c] = tx[c]
      <4>1. IsNext(d, k)
        BY <2>4, AttemptCases
      <4>. QED
        BY <3>2, <4>1, AttemptEffect
    <3>4. CASE i # k
      <4>1. Failures(i)' = Failures(i)
        BY <2>4, <3>4, AttemptHistory
      <4>2. FailureInProgress(i)' <=> FailureInProgress(i)
        BY <3>1, <3>3, <3>4 DEF FailureInProgress
      <4>. QED
        BY <2>n, <2>c, <2>p, <3>1, <4>1, <4>2
    <3>5. CASE i = k
      <4>1. \A c \in Dispatcher : i \notin DOMAIN tx[c].outcome
        BY <3>3, <3>5 DEF TxInv, LocksExclude, ObTypeOK
      <4>2. ~FailureInProgress(i)
        BY <4>1 DEF FailureInProgress
      <4>3. tx'[d].outcome[i].retry = retry
        BY <3>3, <3>5
      <4>4. FailureInProgress(i)' <=> retry > outbox[i].retry
        BY <3>1, <3>3, <3>5, <4>1, <4>3 DEF FailureInProgress
      <4>5. CASE Send(d, k)
        <5>1. Failures(i)' = Failures(i)
          BY <3>5, <4>5, AttemptHistory DEF Failures
        <5>2. ~FailureInProgress(i)'
          BY <2>n, <3>2, <3>5, <4>4, <4>5
        <5>. QED
          BY <2>n, <2>c, <2>p, <3>1, <4>2, <5>1, <5>2
      <4>6. CASE SendFails(d, k)
        <5>1. Failures(i)' = Failures(i) + 1
          BY <3>5, <4>6, AttemptHistory
        <5>2. FailureInProgress(i)'
          BY <2>n, <3>2, <3>5, <4>4, <4>6
        <5>. QED
          BY <2>n, <2>c, <2>p, <3>1, <4>2, <5>1, <5>2
      <4>. QED
        BY <2>4, <4>5, <4>6
    <3>. QED
      BY <3>4, <3>5
  <2>5. ASSUME NEW d \in Dispatcher, Commit(d)
        PROVE  Failures(i)' \in Noted(i)' .. Noted(i)' + rollbacks'
    <3>1. UNCHANGED <<failed, rollbacks>>
      BY <2>5 DEF Commit, obHistory
    <3>2. /\ DOMAIN tx'[d].outcome = {}
          /\ \A c \in Dispatcher : c # d => tx'[c] = tx[c]
      BY <2>5, EndEffect
    <3>3. CASE i \in tx[d].batch
      <4>1. /\ i \in DOMAIN tx[d].outcome
            /\ outbox'[i].retry = tx[d].outcome[i].retry
            /\ SentVerdict(outbox[i], tx[d].outcome[i]) \/ FailedVerdict(outbox[i], tx[d].outcome[i])
        BY <2>5, <3>3, CommitEffect DEF TxInv, OutcomesTrue
      <4>2. \A c \in Dispatcher : c # d => i \notin DOMAIN tx[c].outcome
        BY <3>3 DEF TxInv, LocksExclude, ObTypeOK
      <4>3. ~FailureInProgress(i)'
        BY <3>2, <4>2 DEF FailureInProgress
      <4>4. FailureInProgress(i) <=> tx[d].outcome[i].retry > outbox[i].retry
        BY <4>1, <4>2 DEF FailureInProgress
      <4>5. Noted(i)' = Noted(i)
        <5>1. tx[d].outcome[i].retry = outbox[i].retry \/ tx[d].outcome[i].retry = outbox[i].retry + 1
          BY <4>1 DEF SentVerdict, FailedVerdict
        <5>. QED
          BY <2>n, <2>p, <4>1, <4>3, <4>4, <5>1
      <4>6. Failures(i)' = Failures(i)
        BY <3>1 DEF Failures
      <4>. QED
        BY <2>n, <2>c, <3>1, <4>5, <4>6
    <3>4. CASE i \notin tx[d].batch
      <4>1. outbox'[i] = outbox[i]
        BY <1>2, <2>5, <3>4, CommitEffect
      <4>2. i \notin DOMAIN tx[d].outcome
        BY <3>4 DEF TxInv, ObTypeOK
      <4>3. FailureInProgress(i)' <=> FailureInProgress(i)
        BY <3>2, <4>1, <4>2 DEF FailureInProgress
      <4>. QED
        BY <2>s, <3>1, <4>1, <4>3
    <3>. QED
      BY <3>3, <3>4
  <2>6. ASSUME NEW d \in Dispatcher, Rollback(d)
        PROVE  Failures(i)' \in Noted(i)' .. Noted(i)' + rollbacks'
    <3>1. UNCHANGED <<outbox, failed>> /\ rollbacks' = rollbacks + 1
      BY <2>6 DEF Rollback, obHistory
    <3>2. /\ DOMAIN tx'[d].outcome = {}
          /\ \A c \in Dispatcher : c # d => tx'[c] = tx[c]
      BY <2>6, EndEffect
    <3>3. FailureInProgress(i)' => FailureInProgress(i)
      BY <3>1, <3>2 DEF FailureInProgress
    <3>4. Failures(i)' = Failures(i)
      BY <3>1 DEF Failures
    <3>. QED
      BY <2>n, <2>c, <2>p, <3>1, <3>3, <3>4
  <2>. QED
    BY <2>1, <2>2, <2>3, <2>4, <2>5, <2>6 DEF ObNext, DispatcherStep, Attempt
<1>. QED
  BY <1>1, <1>2

LEMMA DeadStep == TxInv /\ TxInv' /\ DeadAfterMaxRetry /\ [ObNext]_obVars => DeadAfterMaxRetry'
<1>. SUFFICES ASSUME TxInv, TxInv', DeadAfterMaxRetry, [ObNext]_obVars
              PROVE  DeadAfterMaxRetry'
  OBVIOUS
<1>1. Counted'
  BY CountedStep DEF Counted, DeadAfterMaxRetry
<1>2. \A i \in DOMAIN outbox' : /\ outbox'[i].retry <= MaxRetry
                                /\ outbox'[i].status = Dead <=> outbox'[i].retry = MaxRetry
  BY DeadColumns
<1>. QED
  BY <1>1, <1>2 DEF Counted, DeadAfterMaxRetry

\* A row is given up exactly when maxRetry failures of it are recorded, however many
\* instances tried; and of the sends that really failed the record lacks at most one
\* for each rollback, so none is given up early and none is tried for ever.
THEOREM DeadAfterMaxRetryHolds == ObSpec => []DeadAfterMaxRetry
BY DeadInit, DeadStep, TxInvHolds, PTL DEF ObSpec

-------------------------------------------------------------------------------
(***************************************************************************)
(* What is in the topic                                                    *)
(***************************************************************************)
\* A published message stays published.
LEMMA PublishedStays ==
  ASSUME TxInv, [ObNext]_obVars, NEW ev \in Event, Published(ev)
  PROVE  Published(ev)'
<1>1. CASE UNCHANGED topic
  BY <1>1 DEF Published
<1>2. ASSUME NEW i \in DOMAIN outbox, Publish(i)
      PROVE  Published(ev)'
  <2>1. topic \in [Partition -> Seq(Event)] /\ outbox[i].event \in Event /\ PartitionOf[ev] \in Partition
    BY RowType, PartitionAssumption DEF TxInv, ObTypeOK
  <2>2. PICK k \in DOMAIN topic[PartitionOf[ev]] : topic[PartitionOf[ev]][k] = ev
    BY DEF Published
  <2>3. k \in DOMAIN topic'[PartitionOf[ev]] /\ topic'[PartitionOf[ev]][k] = ev
    <3>1. CASE PartitionOf[ev] = PartitionOf[outbox[i].event]
      <4>1. topic'[PartitionOf[ev]] = Append(topic[PartitionOf[ev]], outbox[i].event)
        BY <1>2, <3>1, PublishEffect DEF TxInv
      <4>. QED
        BY <2>1, <2>2, <4>1
    <3>2. CASE PartitionOf[ev] # PartitionOf[outbox[i].event]
      BY <1>2, <2>1, <2>2, <3>2, PublishEffect DEF TxInv
    <3>. QED
      BY <3>1, <3>2
  <2>. QED
    BY <2>3 DEF Published
<1>. QED
  BY <1>1, <1>2, AttemptCases
  DEF ObNext, obVars, DispatcherStep, Attempt, Enqueue, Poll, Commit, Rollback

\* The message that is published is.
LEMMA PublishedNow ==
  ASSUME TxInv, NEW i \in DOMAIN outbox, Publish(i), NEW ev, ev = outbox[i].event
  PROVE  Published(ev)'
<1>. DEFINE p == PartitionOf[ev]
<1>1. /\ topic[p] \in Seq(Event)
      /\ ev \in Event
      /\ topic'[p] = Append(topic[p], ev)
  BY PublishEffect, RowType, PartitionAssumption DEF TxInv, ObTypeOK
<1>2. Len(topic[p]) + 1 \in DOMAIN topic'[p] /\ topic'[p][Len(topic[p]) + 1] = ev
  BY <1>1
<1>. QED
  BY <1>2 DEF Published

\* What was handed to the broker, which keeps it or has lost it.
HandedOver(i) == Published(outbox[i].event) \/ i \in lost

\* An instance notes a success only of a message the broker was given.
SuccessPublished ==
  \A d \in Dispatcher : \A i \in DOMAIN tx[d].outcome :
    tx[d].outcome[i].status = Sent => HandedOver(i)

LEMMA LostStays ==
  ASSUME TxInv, [ObNext]_obVars
  PROVE  lost \subseteq lost'
BY AttemptCases
DEF ObNext, obVars, obHistory, DispatcherStep, Attempt, Enqueue, Poll, Commit, Rollback

LEMMA SentInit == ObInit => SentIsPublished /\ SuccessPublished
BY DEF ObInit, SentIsPublished, SuccessPublished, NoTx, NoOutcome

LEMMA SentStep ==
  ASSUME TxInv, SentIsPublished, SuccessPublished, [ObNext]_obVars
  PROVE  SentIsPublished' /\ SuccessPublished'
<1>1. ASSUME NEW i \in DOMAIN outbox, HandedOver(i)
      PROVE  HandedOver(i)'
  <2>0. CASE i \in lost
    BY <2>0, LostStays DEF HandedOver
  <2>1. PICK ev \in Event : ev = outbox[i].event
    BY RowType DEF TxInv
  <2>2. CASE Published(outbox[i].event)
    <3>1. Published(ev)' /\ outbox'[i].event = ev
      BY <2>1, <2>2, PublishedStays, RowChange
    <3>. QED
      BY <3>1 DEF HandedOver
  <2>. QED
    BY <1>1, <2>0, <2>2 DEF HandedOver
<1>2. ASSUME NEW i \in DOMAIN outbox', outbox'[i].status = Sent
      PROVE  HandedOver(i)'
  <2>1. CASE i \notin DOMAIN outbox
    <3>1. PICK ev \in Event : Enqueue(ev)
      BY <2>1, CommitEffect
      DEF ObNext, obVars, DispatcherStep, Attempt, Poll, Send, SendFails, Rollback
    <3>2. i = Len(outbox) + 1
      BY <2>1, <3>1, EnqueueEffect
    <3>3. outbox'[i] = [event |-> ev, status |-> Pending, retry |-> 0]
      BY <3>1, <3>2, EnqueueEffect
    <3>. QED
      BY <1>2, <3>3 DEF Pending, Sent
  <2>2. CASE i \in DOMAIN outbox
    <3>1. HandedOver(i)
      BY <1>2, <2>2, RowChange DEF SentIsPublished, SuccessPublished, HandedOver
    <3>. QED
      BY <1>1, <2>2, <3>1
  <2>. QED
    BY <2>1, <2>2
<1>3. ASSUME NEW d \in Dispatcher, NEW i \in DOMAIN tx[d].outcome, tx[d].outcome[i].status = Sent
      PROVE  HandedOver(i)'
  BY <1>1, <1>3 DEF SuccessPublished, TxInv, ObTypeOK
<1>4. SuccessPublished'
  <2>1. ASSUME NEW d \in Dispatcher, Poll(d)
        PROVE  SuccessPublished'
    BY <1>3, <2>1, PollEffect DEF SuccessPublished
  <2>2. ASSUME NEW d \in Dispatcher, Commit(d) \/ Rollback(d)
        PROVE  SuccessPublished'
    BY <1>3, <2>2, EndEffect DEF SuccessPublished
  <2>3. ASSUME NEW d \in Dispatcher, NEW i \in DOMAIN outbox, Send(d, i) \/ SendFails(d, i)
        PROVE  SuccessPublished'
    <3>1. PICK ev \in Event : ev = outbox[i].event /\ ev = outbox'[i].event
      BY <2>3, RowType, AttemptCases DEF TxInv
    <3>2. PICK status, retry :
            /\ Outcome(d, i, status, retry)
            /\ Send(d, i) \/ status # Sent
      <4>1. CASE Send(d, i)
        BY <4>1 DEF Send
      <4>2. CASE SendFails(d, i)
        BY <4>2 DEF SendFails, StatusAfterFailure, Pending, Sent, Dead
      <4>. QED
        BY <2>3, <4>1, <4>2
    <3>3. IsNext(d, i)
      BY <2>3, AttemptCases
    <3>4. status = Sent => HandedOver(i)'
      <4>1. Send(d, i) => Publish(i) \/ i \in lost'
        BY <2>3, AttemptHistory
      <4>2. Publish(i) => Published(ev)'
        BY <3>1, PublishedNow
      <4>3. Published(ev)' => HandedOver(i)'
        BY <3>1 DEF HandedOver
      <4>4. i \in lost' => HandedOver(i)'
        BY DEF HandedOver
      <4>. QED
        BY <3>2, <4>1, <4>2, <4>3, <4>4
    <3>5. /\ DOMAIN tx'[d].outcome = DOMAIN tx[d].outcome \cup {i}
          /\ tx'[d].outcome[i] = [status |-> status, retry |-> retry]
          /\ \A j \in DOMAIN tx[d].outcome : tx'[d].outcome[j] = tx[d].outcome[j]
          /\ \A c \in Dispatcher : c # d => tx'[c] = tx[c]
      BY <3>2, <3>3, AttemptEffect
    <3>6. tx'[d].outcome[i].status = status
      BY <3>5
    <3>7. \A j \in DOMAIN tx'[d].outcome : tx'[d].outcome[j].status = Sent => HandedOver(j)'
      BY <1>3, <3>4, <3>5, <3>6
    <3>. QED
      BY <1>3, <3>5, <3>7 DEF SuccessPublished
  <2>4. CASE UNCHANGED tx
    BY <1>3, <2>4 DEF SuccessPublished
  <2>. QED
    BY <2>1, <2>2, <2>3, <2>4 DEF ObNext, obVars, DispatcherStep, Attempt, Enqueue
<1>. QED
  BY <1>2, <1>4 DEF SentIsPublished, HandedOver

\* At least once, up to the broker: whatever is retried or rolled back, a row is
\* marked as sent only if its message is in the topic or the broker was given it, in
\* a send without acknowledgement, and lost it; and the types are right.
THEOREM ObInvHolds == ObSpec => []ObInv
<1>1. ObInit => SentIsPublished /\ SuccessPublished
  BY SentInit
<1>2. TxInv /\ SentIsPublished /\ SuccessPublished /\ [ObNext]_obVars
        => SentIsPublished' /\ SuccessPublished'
  BY SentStep
<1>3. TxInv /\ SentIsPublished => ObInv
  BY DEF TxInv, ObInv
<1>. QED
  BY <1>1, <1>2, <1>3, TxInvHolds, PTL DEF ObSpec

-------------------------------------------------------------------------------
(***************************************************************************)
(* Every copy has its reason.                                              *)
(***************************************************************************)
\* A row has an event of its own, and the topic has messages of rows only.
EventsDistinct ==
  \A i, j \in DOMAIN outbox : outbox[i].event = outbox[j].event => i = j

TopicQueued ==
  \A p \in Partition : \A k \in DOMAIN topic[p] : topic[p][k] \in Queued

CopyInv == EventsDistinct /\ TopicQueued /\ DuplicatesExplained

Places(ev) == {k \in DOMAIN topic[PartitionOf[ev]] : topic[PartitionOf[ev]][k] = ev}

LEMMA PlacesFinite ==
  ASSUME TxInv, NEW ev \in Event
  PROVE  IsFiniteSet(Places(ev)) /\ Copies(ev) = Cardinality(Places(ev)) /\ Copies(ev) \in Nat
<1>. DEFINE n == Len(topic[PartitionOf[ev]])
<1>1. topic[PartitionOf[ev]] \in Seq(Event)
  BY PartitionAssumption DEF TxInv, ObTypeOK
<1>2. n \in Nat /\ DOMAIN topic[PartitionOf[ev]] = 1 .. n
  BY <1>1
<1>3. IsFiniteSet(1 .. n)
  BY <1>2, FS_Interval
<1>4. Places(ev) \in SUBSET (1 .. n)
  BY <1>2 DEF Places
<1>5. IsFiniteSet(Places(ev))
  BY <1>3, <1>4, FS_Subset
<1>. QED
  BY <1>5, FS_CardinalityType DEF Copies, Places

\* Publishing a message adds a copy of it and of no other.
LEMMA CopiesStep ==
  ASSUME TxInv, NEW i \in DOMAIN outbox, Publish(i), NEW ev \in Event
  PROVE  Copies(ev)' = Copies(ev) + (IF ev = outbox[i].event THEN 1 ELSE 0)
<1>. DEFINE p == PartitionOf[ev]
            q == PartitionOf[outbox[i].event]
<1>1. /\ topic[p] \in Seq(Event)
      /\ p \in Partition
      /\ topic'[q] = Append(topic[q], outbox[i].event)
      /\ p # q => topic'[p] = topic[p]
  BY PublishEffect, PartitionAssumption DEF TxInv, ObTypeOK
<1>2. CASE ev = outbox[i].event
  <2>. DEFINE k == Len(topic[p]) + 1
  <2>1. k \notin Places(ev)
    BY <1>1 DEF Places
  <2>2. Places(ev)' = Places(ev) \cup {k}
    <3>1. topic'[p] = Append(topic[p], ev)
      BY <1>1, <1>2
    <3>2. /\ DOMAIN topic'[p] = DOMAIN topic[p] \cup {k}
          /\ topic'[p][k] = ev
          /\ \A j \in DOMAIN topic[p] : topic'[p][j] = topic[p][j]
      BY <1>1, <3>1
    <3>. QED
      BY <3>2 DEF Places
  <2>3. Cardinality(Places(ev) \cup {k}) = Cardinality(Places(ev)) + 1
    BY <2>1, PlacesFinite, FS_AddElement
  <2>4. Copies(ev)' = Cardinality(Places(ev)')
    BY DEF Copies, Places
  <2>. QED
    BY <1>2, <2>2, <2>3, <2>4, PlacesFinite
<1>3. CASE ev # outbox[i].event
  <2>1. Places(ev)' = Places(ev)
    <3>1. CASE p = q
      <4>. DEFINE k == Len(topic[p]) + 1
      <4>1. topic'[p] = Append(topic[p], outbox[i].event)
        BY <1>1, <3>1
      <4>2. /\ DOMAIN topic'[p] = DOMAIN topic[p] \cup {k}
            /\ topic'[p][k] # ev
            /\ \A j \in DOMAIN topic[p] : topic'[p][j] = topic[p][j]
        BY <1>1, <1>3, <4>1
      <4>. QED
        BY <4>2 DEF Places
    <3>2. CASE p # q
      BY <1>1, <3>2 DEF Places
    <3>. QED
      BY <3>1, <3>2
  <2>2. Copies(ev)' = Cardinality(Places(ev)') /\ Copies(ev) = Cardinality(Places(ev))
    BY DEF Copies, Places
  <2>. QED
    BY <1>3, <2>1, <2>2, PlacesFinite
<1>. QED
  BY <1>2, <1>3

LEMMA CopyInit == ObInit => CopyInv
BY DEF ObInit, CopyInv, EventsDistinct, TopicQueued, DuplicatesExplained

LEMMA DistinctStep ==
  ASSUME TxInv, EventsDistinct, [ObNext]_obVars
  PROVE  EventsDistinct'
<1>1. CASE DOMAIN outbox' = DOMAIN outbox
  BY <1>1, RowChange DEF EventsDistinct
<1>2. ASSUME NEW ev \in Event \ Queued, Enqueue(ev)
      PROVE  EventsDistinct'
  <2>. DEFINE n == Len(outbox) + 1
  <2>1. /\ DOMAIN outbox' = DOMAIN outbox \cup {n}
        /\ \A i \in DOMAIN outbox : outbox'[i] = outbox[i]
        /\ outbox'[n].event = ev
    BY <1>2, EnqueueEffect
  <2>2. \A i \in DOMAIN outbox : outbox[i].event # ev
    BY DEF Queued
  <2>. HIDE DEF n
  <2>. QED
    BY <2>1, <2>2 DEF EventsDistinct
<1>. QED
  BY <1>1, <1>2, CommitEffect
  DEF ObNext, obVars, DispatcherStep, Attempt, Poll, Send, SendFails, Rollback

LEMMA QueuedStep ==
  ASSUME TxInv, TopicQueued, [ObNext]_obVars
  PROVE  TopicQueued'
<1>1. Queued \subseteq Queued'
  BY RowChange DEF Queued
<1>2. CASE UNCHANGED topic
  BY <1>1, <1>2 DEF TopicQueued
<1>3. ASSUME NEW i \in DOMAIN outbox, Publish(i)
      PROVE  TopicQueued'
  <2>. DEFINE q == PartitionOf[outbox[i].event]
  <2>1. outbox[i].event \in Queued
    BY DEF Queued
  <2>2. /\ q \in Partition
        /\ topic[q] \in Seq(Event)
        /\ topic'[q] = Append(topic[q], outbox[i].event)
        /\ \A p \in Partition : p # q => topic'[p] = topic[p]
    BY <1>3, PublishEffect DEF TxInv, ObTypeOK
  <2>3. \A k \in DOMAIN topic'[q] : topic'[q][k] \in Queued
    BY <2>1, <2>2 DEF TopicQueued
  <2>. QED
    BY <1>1, <2>2, <2>3 DEF TopicQueued
<1>. QED
  BY <1>2, <1>3, AttemptCases
  DEF ObNext, obVars, DispatcherStep, Attempt, Enqueue, Poll, Commit, Rollback

\* What DuplicatesExplained allows a row.
Allowance(i) ==
  rollbacks + outbox[i].retry
    + (IF outbox[i].status = Sent THEN 1 ELSE 0)
    + (IF InProgress(i) THEN 1 ELSE 0)

LEMMA AllowanceType ==
  ASSUME TxInv, NEW i \in DOMAIN outbox
  PROVE  Allowance(i) \in Nat
<1>1. rollbacks \in Nat /\ outbox[i].retry \in Nat
  BY RowType, BoundAssumption DEF TxInv, ObTypeOK
<1>. QED
  BY <1>1 DEF Allowance

LEMMA DuplicatesStep ==
  ASSUME TxInv, TxInv', CopyInv, [ObNext]_obVars
  PROVE  DuplicatesExplained'
<1>. SUFFICES ASSUME NEW i \in DOMAIN outbox'
              PROVE  Copies(outbox[i].event)' <= Allowance(i)'
  BY DEF DuplicatesExplained, Allowance
<1>r. outbox'[i] \in Row /\ rollbacks' \in Nat
  BY BoundAssumption DEF TxInv, ObTypeOK
<1>. PICK ev \in Event : ev = outbox'[i].event
  BY <1>r DEF Row
<1>a. Copies(ev)' = Copies(outbox[i].event)'
  OBVIOUS
<1>b. Allowance(i)' \in Nat
  <2>1. outbox'[i].retry \in Nat
    BY <1>r DEF Row
  <2>. QED
    BY <1>r, <2>1 DEF Allowance
<1>1. CASE i \notin DOMAIN outbox
  <2>1. PICK e \in Event \ Queued : Enqueue(e)
    BY <1>1, CommitEffect
    DEF ObNext, obVars, DispatcherStep, Attempt, Poll, Send, SendFails, Rollback
  <2>2. i = Len(outbox) + 1
    BY <1>1, <2>1, EnqueueEffect
  <2>3. ev = e /\ UNCHANGED topic
    BY <2>1, <2>2, EnqueueEffect DEF Enqueue
  <2>4. Places(ev) = {}
    BY <2>1, <2>3, PartitionAssumption DEF Places, CopyInv, TopicQueued
  <2>5. Copies(ev) = 0
    BY <2>4, PlacesFinite, FS_EmptySet
  <2>6. Copies(ev)' = Copies(ev)
    BY <2>3 DEF Copies
  <2>. QED
    BY <1>a, <1>b, <2>5, <2>6
<1>2. CASE i \in DOMAIN outbox
  <2>. ev = outbox[i].event
    BY <1>2, RowChange
  <2>a. Allowance(i) \in Nat
    BY <1>2, AllowanceType
  <2>b. rollbacks \in Nat /\ outbox[i].retry \in Nat
    BY <1>2, RowType, BoundAssumption DEF TxInv, ObTypeOK
  <2>c. UNCHANGED topic => Copies(ev)' = Copies(ev)
    BY DEF Copies
  <2>d. Copies(ev) \in Nat /\ Copies(ev) <= Allowance(i)
    BY <1>2, PlacesFinite DEF CopyInv, DuplicatesExplained, Allowance
  <2>1. CASE UNCHANGED obVars
    <3>1. Allowance(i)' = Allowance(i)
      BY <2>1 DEF obVars, Allowance, InProgress
    <3>. QED
      BY <1>a, <2>1, <2>a, <2>c, <2>d, <3>1 DEF obVars
  <2>2. ASSUME NEW e \in Event, Enqueue(e)
        PROVE  Copies(outbox[i].event)' <= Allowance(i)'
    <3>1. UNCHANGED <<topic, tx, rollbacks>> /\ outbox'[i] = outbox[i]
      BY <1>2, <2>2, EnqueueEffect DEF Enqueue
    <3>2. Allowance(i)' = Allowance(i)
      BY <3>1 DEF Allowance, InProgress
    <3>. QED
      BY <1>a, <2>a, <2>c, <2>d, <3>1, <3>2
  <2>3. ASSUME NEW d \in Dispatcher, Poll(d)
        PROVE  Copies(outbox[i].event)' <= Allowance(i)'
    <3>1. UNCHANGED <<outbox, topic, rollbacks>>
      BY <2>3 DEF Poll
    <3>2. \A c \in Dispatcher : tx'[c].outcome = tx[c].outcome
      BY <2>3, PollEffect
    <3>3. InProgress(i)' <=> InProgress(i)
      BY <3>2 DEF InProgress
    <3>4. Allowance(i)' = Allowance(i)
      BY <3>1, <3>3 DEF Allowance
    <3>. QED
      BY <1>a, <2>a, <2>c, <2>d, <3>1, <3>4
  <2>4. ASSUME NEW d \in Dispatcher, NEW k \in DOMAIN outbox, Send(d, k) \/ SendFails(d, k)
        PROVE  Copies(outbox[i].event)' <= Allowance(i)'
    <3>1. /\ UNCHANGED <<outbox, rollbacks>>
          /\ Publish(k) \/ UNCHANGED topic
      BY <2>4, AttemptCases
    <3>2. /\ k \in tx[d].batch /\ k \notin DOMAIN tx[d].outcome
          /\ DOMAIN tx'[d].outcome = DOMAIN tx[d].outcome \cup {k}
          /\ \A c \in Dispatcher : c # d => tx'[c] = tx[c]
      BY <2>4, AttemptCases, AttemptEffect
    <3>3. CASE i = k
      <4>1. ~InProgress(i)
        BY <3>2, <3>3 DEF InProgress, TxInv, LocksExclude, ObTypeOK
      <4>2. InProgress(i)'
        BY <3>2, <3>3 DEF InProgress
      <4>3. Allowance(i)' = Allowance(i) + 1
        BY <2>b, <3>1, <4>1, <4>2 DEF Allowance
      <4>4. Copies(ev)' = Copies(ev) \/ Copies(ev)' = Copies(ev) + 1
        BY <2>c, <3>1, <3>3, CopiesStep
      <4>. QED
        BY <1>a, <2>a, <2>d, <4>3, <4>4
    <3>4. CASE i # k
      <4>1. ev # outbox[k].event
        BY <1>2, <3>4 DEF CopyInv, EventsDistinct
      <4>2. Copies(ev)' = Copies(ev)
        BY <2>c, <2>d, <3>1, <4>1, CopiesStep
      <4>3. InProgress(i)' <=> InProgress(i)
        BY <3>2, <3>4 DEF InProgress
      <4>4. Allowance(i)' = Allowance(i)
        BY <3>1, <4>3 DEF Allowance
      <4>. QED
        BY <1>a, <2>a, <2>d, <4>2, <4>4
    <3>. QED
      BY <3>3, <3>4
  <2>5. ASSUME NEW d \in Dispatcher, Commit(d)
        PROVE  Copies(outbox[i].event)' <= Allowance(i)'
    <3>1. UNCHANGED <<topic, rollbacks>>
      BY <2>5 DEF Commit
    <3>2. /\ DOMAIN tx'[d].outcome = {}
          /\ \A c \in Dispatcher : c # d => tx'[c] = tx[c]
      BY <2>5, EndEffect
    <3>3. CASE i \in tx[d].batch
      <4>1. /\ outbox[i].status = Pending
            /\ i \in DOMAIN tx[d].outcome
            /\ outbox'[i].status = tx[d].outcome[i].status
            /\ outbox'[i].retry = tx[d].outcome[i].retry
            /\ SentVerdict(outbox[i], tx[d].outcome[i]) \/ FailedVerdict(outbox[i], tx[d].outcome[i])
        BY <2>5, <3>3, CommitEffect DEF TxInv, LocksExclude, OutcomesTrue
      <4>2. InProgress(i) /\ outbox[i].status # Sent
        BY <4>1 DEF InProgress, Pending, Sent
      <4>3. Allowance(i) = rollbacks + outbox[i].retry + 1
        BY <2>b, <4>2 DEF Allowance
      <4>4. ~InProgress(i)'
        BY <3>2, <3>3 DEF InProgress, TxInv, LocksExclude, ObTypeOK
      <4>5. \/ outbox'[i].status = Sent /\ outbox'[i].retry = outbox[i].retry
            \/ outbox'[i].status # Sent /\ outbox'[i].retry = outbox[i].retry + 1
        BY <4>1 DEF SentVerdict, FailedVerdict, StatusAfterFailure, Pending, Sent, Dead
      <4>6. Allowance(i)' = rollbacks + outbox[i].retry + 1
        BY <2>b, <3>1, <4>4, <4>5 DEF Allowance
      <4>. QED
        BY <1>a, <2>c, <2>d, <3>1, <4>3, <4>6
    <3>4. CASE i \notin tx[d].batch
      <4>1. outbox'[i] = outbox[i]
        BY <1>2, <2>5, <3>4, CommitEffect
      <4>2. InProgress(i)' <=> InProgress(i)
        BY <3>2, <3>4 DEF InProgress, TxInv, ObTypeOK
      <4>3. Allowance(i)' = Allowance(i)
        BY <3>1, <4>1, <4>2 DEF Allowance
      <4>. QED
        BY <1>a, <2>c, <2>d, <3>1, <4>3
    <3>. QED
      BY <3>3, <3>4
  <2>6. ASSUME NEW d \in Dispatcher, Rollback(d)
        PROVE  Copies(outbox[i].event)' <= Allowance(i)'
    <3>1. UNCHANGED <<outbox, topic>> /\ rollbacks' = rollbacks + 1
      BY <2>6 DEF Rollback
    <3>2. Allowance(i) <= Allowance(i)'
      BY <2>b, <3>1 DEF Allowance
    <3>. QED
      BY <1>a, <1>b, <2>a, <2>c, <2>d, <3>1, <3>2
  <2>. QED
    BY <2>1, <2>2, <2>3, <2>4, <2>5, <2>6 DEF ObNext, DispatcherStep, Attempt
<1>. QED
  BY <1>1, <1>2

\* However often rows are polled, retried and rolled back, and by whichever instances
\* at once, the copies of a message in the topic are no more than the failures counted
\* in its row, the rollbacks, and the one send that succeeded or is under way.
THEOREM DuplicatesExplainedHolds == ObSpec => []DuplicatesExplained
<1>1. TxInv /\ TxInv' /\ CopyInv /\ [ObNext]_obVars => CopyInv'
  BY DistinctStep, QueuedStep, DuplicatesStep DEF CopyInv
<1>2. CopyInv => DuplicatesExplained
  BY DEF CopyInv
<1>. QED
  BY <1>1, <1>2, CopyInit, TxInvHolds, PTL DEF ObSpec
-------------------------------------------------------------------------------
(***************************************************************************)
(* Order within a partition                                                *)
(***************************************************************************)
\* LIMIT n leaves out no row that is smaller than one it takes.
LEMMA FirstOfDownward ==
  ASSUME NEW S, S \subseteq Int, IsFiniteSet(S), NEW n \in Nat,
         NEW j \in FirstOf(S, n), NEW i \in S, i < j
  PROVE  i \in FirstOf(S, n)
<1>. DEFINE below(k) == {l \in S : l < k}
<1>1. below(i) \subseteq below(j)
  <2>1. i \in Int /\ j \in Int
    BY DEF FirstOf
  <2>2. \A l \in S : l \in Int /\ (l < i => l < j)
    BY <2>1
  <2>. QED
    BY <2>2
<1>2. IsFiniteSet(below(j)) /\ IsFiniteSet(below(i))
  BY FS_Subset
<1>3. /\ Cardinality(below(i)) \in Nat /\ Cardinality(below(j)) \in Nat
      /\ Cardinality(below(i)) <= Cardinality(below(j))
  BY <1>1, <1>2, FS_Subset, FS_CardinalityType
<1>4. Cardinality(below(j)) < n
  BY DEF FirstOf
<1>. QED
  BY <1>3, <1>4 DEF FirstOf

LEMMA DueFinite ==
  ASSUME TxInv
  PROVE  Due \subseteq Int /\ IsFiniteSet(Due)
<1>1. Len(outbox) \in Nat /\ DOMAIN outbox = 1 .. Len(outbox)
  BY DEF TxInv, ObTypeOK
<1>2. IsFiniteSet(1 .. Len(outbox))
  BY <1>1, FS_Interval
<1>. QED
  BY <1>1, <1>2, FS_Subset DEF Due

\* As long as nothing was rolled back, a row that is still to be sent for the first
\* time is locked whenever a later row is: each poll takes the first rows.
PollOrder ==
  rollbacks = 0 =>
    \A d \in Dispatcher : \A j \in tx[d].batch : \A i \in DOMAIN outbox :
      i < j => \/ \E c \in Dispatcher : i \in tx[c].batch
               \/ outbox[i].retry > 0
               \/ outbox[i].status # Pending

LEMMA PollOrderStep ==
  ASSUME TxInv, PollOrder, [ObNext]_obVars
  PROVE  PollOrder'
<1>1. CASE UNCHANGED <<outbox, tx, rollbacks>>
  BY <1>1 DEF PollOrder
<1>2. ASSUME NEW ev \in Event, Enqueue(ev)
      PROVE  PollOrder'
  <2>1. UNCHANGED <<tx, rollbacks>>
    BY <1>2 DEF Enqueue
  <2>2. \A d \in Dispatcher : \A j \in tx[d].batch : \A i \in DOMAIN outbox' :
          i < j => i \in DOMAIN outbox /\ outbox'[i] = outbox[i]
    <3>. DEFINE n == Len(outbox)
    <3>1. /\ n \in Nat /\ DOMAIN outbox = 1 .. n
          /\ \A d \in Dispatcher : tx[d].batch \subseteq 1 .. n
      BY DEF TxInv, ObTypeOK
    <3>2. /\ DOMAIN outbox' = DOMAIN outbox \cup {n + 1}
          /\ \A i \in DOMAIN outbox : outbox'[i] = outbox[i]
      BY <1>2, EnqueueEffect
    <3>3. \A d \in Dispatcher : \A j \in tx[d].batch : ~(n + 1 < j)
      BY <3>1
    <3>. HIDE DEF n
    <3>. QED
      BY <3>1, <3>2, <3>3
  <2>. QED
    BY <2>1, <2>2 DEF PollOrder
<1>3. ASSUME NEW d \in Dispatcher, Poll(d)
      PROVE  PollOrder'
  <2>1. UNCHANGED <<outbox, rollbacks>> /\ tx[d].batch = {}
    BY <1>3 DEF Poll, NoTx
  <2>2. /\ tx'[d].batch = FirstOf(Due, BatchLimit)
        /\ \A c \in Dispatcher : c # d => tx'[c] = tx[c]
    <3>1. /\ tx'[d] = [batch |-> FirstOf(Due, BatchLimit), outcome |-> tx[d].outcome]
          /\ \A c \in Dispatcher : c # d => tx'[c] = tx[c]
      BY <1>3, PollEffect
    <3>. QED
      BY <3>1
  <2>3. ASSUME NEW j \in tx'[d].batch, NEW i \in DOMAIN outbox, i < j
        PROVE  \/ \E c \in Dispatcher : i \in tx'[c].batch
               \/ outbox[i].status # Pending
    <3>1. CASE i \in Due
      BY <2>2, <2>3, <3>1, DueFinite, FirstOfDownward, BatchAssumption
    <3>2. CASE i \notin Due
      BY <2>1, <2>2, <3>2 DEF Due
    <3>. QED
      BY <3>1, <3>2
  <2>4. \A i : (\E c \in Dispatcher : i \in tx[c].batch) => \E c \in Dispatcher : i \in tx'[c].batch
    BY <2>1, <2>2
  <2>. QED
    BY <2>1, <2>2, <2>3, <2>4 DEF PollOrder
<1>4. ASSUME NEW d \in Dispatcher, NEW k \in DOMAIN outbox, Send(d, k) \/ SendFails(d, k)
      PROVE  PollOrder'
  <2>1. UNCHANGED <<outbox, rollbacks>> /\ \A c \in Dispatcher : tx'[c].batch = tx[c].batch
    BY <1>4, AttemptCases, AttemptEffect
  <2>. QED
    BY <2>1 DEF PollOrder
<1>5. ASSUME NEW d \in Dispatcher, Commit(d)
      PROVE  PollOrder'
  <2>1. /\ tx'[d].batch = {}
        /\ \A c \in Dispatcher : c # d => tx'[c] = tx[c]
        /\ UNCHANGED rollbacks
        /\ DOMAIN outbox' = DOMAIN outbox
    <3>1. /\ tx'[d] = [batch |-> {}, outcome |-> tx'[d].outcome]
          /\ \A c \in Dispatcher : c # d => tx'[c] = tx[c]
      BY <1>5, EndEffect
    <3>2. UNCHANGED rollbacks /\ DOMAIN outbox' = DOMAIN outbox
      BY <1>5 DEF Commit
    <3>3. tx'[d].batch = {}
      BY <3>1
    <3>. QED
      BY <3>1, <3>2, <3>3
  <2>2. ASSUME NEW i \in DOMAIN outbox
        PROVE  \/ outbox'[i] = outbox[i] /\ i \notin tx[d].batch
               \/ outbox'[i].retry > 0 \/ outbox'[i].status # Pending
    <3>1. CASE i \in tx[d].batch
      <4>1. SentVerdict(outbox[i], outbox'[i]) \/ FailedVerdict(outbox[i], outbox'[i])
        BY <1>5, <3>1, CommitEffect DEF TxInv, OutcomesTrue, SentVerdict, FailedVerdict
      <4>2. outbox[i].retry \in Nat
        BY RowType DEF TxInv
      <4>. QED
        BY <4>1, <4>2 DEF SentVerdict, FailedVerdict, Sent, Pending
    <3>. QED
      BY <1>5, <3>1, CommitEffect
  <2>. QED
    BY <2>1, <2>2 DEF PollOrder
<1>6. ASSUME NEW d \in Dispatcher, Rollback(d)
      PROVE  PollOrder'
  <2>1. rollbacks' > 0
    BY <1>6 DEF Rollback, TxInv, ObTypeOK
  <2>. QED
    BY <2>1 DEF PollOrder
<1>. QED
  BY <1>1, <1>2, <1>3, <1>4, <1>5, <1>6 DEF ObNext, obVars, DispatcherStep, Attempt

\* Why the earlier row i may be overtaken by j.
Excuse(i, j) ==
  \/ Published(outbox[i].event)
  \/ i \in lost
  \/ outbox[i].retry > 0
  \/ \E d \in Dispatcher :
       \/ i \in DOMAIN tx[d].outcome
       \/ i \in tx[d].batch /\ j \notin tx[d].batch

\* A step takes an excuse away only if it is a rollback.
LEMMA ExcuseStays ==
  ASSUME TxInv, SuccessPublished, [ObNext]_obVars, UNCHANGED rollbacks,
         NEW i \in DOMAIN outbox, NEW j, Excuse(i, j)
  PROVE  Excuse(i, j)'
<1>. PICK ev \in Event : ev = outbox[i].event
  BY RowType DEF TxInv
<1>a. ev = outbox'[i].event
  BY RowChange
<1>b. outbox[i].retry \in Nat
  BY RowType DEF TxInv
<1>c. i \in lost => Excuse(i, j)'
  BY LostStays DEF Excuse
<1>1. CASE Published(ev)
  <2>1. Published(ev)'
    BY <1>1, PublishedStays
  <2>. QED
    BY <1>a, <2>1 DEF Excuse
<1>2. CASE outbox[i].retry > 0
  <2>1. outbox'[i].retry > 0
    BY <1>2, <1>b, RowChange DEF SentVerdict, FailedVerdict
  <2>. QED
    BY <2>1 DEF Excuse
<1>3. ASSUME NEW d \in Dispatcher,
             i \in DOMAIN tx[d].outcome \/ (i \in tx[d].batch /\ j \notin tx[d].batch)
      PROVE  Excuse(i, j)'
  <2>1. CASE tx'[d] = tx[d]
    BY <1>3, <2>1 DEF Excuse
  <2>2. ASSUME NEW c \in Dispatcher, Poll(c), c = d
        PROVE  FALSE
    BY <1>3, <2>2 DEF Poll, NoTx, NoOutcome
  <2>3. ASSUME NEW c \in Dispatcher, NEW k \in DOMAIN outbox, Send(c, k) \/ SendFails(c, k)
        PROVE  Excuse(i, j)'
    <3>1. /\ tx'[c].batch = tx[c].batch
          /\ DOMAIN tx'[c].outcome = DOMAIN tx[c].outcome \cup {k}
          /\ \A b \in Dispatcher : b # c => tx'[b] = tx[b]
      BY <2>3, AttemptCases, AttemptEffect
    <3>. QED
      BY <1>3, <3>1 DEF Excuse
  <2>4. ASSUME NEW c \in Dispatcher, Commit(c), c = d
        PROVE  Excuse(i, j)'
    <3>1. i \in tx[d].batch
      BY <1>3 DEF TxInv, ObTypeOK
    <3>2. /\ i \in DOMAIN tx[d].outcome
          /\ outbox'[i].retry = tx[d].outcome[i].retry
      BY <2>4, <3>1, CommitEffect
    <3>3. CASE tx[d].outcome[i].status = Sent
      BY <1>1, <1>c, <3>2, <3>3 DEF SuccessPublished, HandedOver
    <3>4. CASE tx[d].outcome[i].status # Sent
      <4>1. FailedVerdict(outbox[i], tx[d].outcome[i])
        BY <3>2, <3>4 DEF TxInv, OutcomesTrue, SentVerdict
      <4>2. outbox'[i].retry > 0
        BY <1>b, <3>2, <4>1 DEF FailedVerdict
      <4>. QED
        BY <4>2 DEF Excuse
    <3>. QED
      BY <3>3, <3>4
  <2>5. ASSUME NEW c \in Dispatcher, Poll(c) \/ Commit(c), c # d
        PROVE  tx'[d] = tx[d]
    BY <2>5, PollEffect, EndEffect
  <2>6. ASSUME NEW c \in Dispatcher
        PROVE  ~Rollback(c)
    BY BoundAssumption DEF Rollback, TxInv, ObTypeOK
  <2>. QED
    BY <2>1, <2>2, <2>3, <2>4, <2>5, <2>6 DEF ObNext, obVars, DispatcherStep, Attempt, Enqueue
<1>. QED
  BY <1>1, <1>2, <1>3, <1>c DEF Excuse

\* The row whose turn it is has an excuse for each earlier row it overtakes.
LEMMA ExcuseOfSend ==
  ASSUME TxInv, PollOrder, SentIsPublished, DeadAfterMaxRetry, rollbacks = 0,
         NEW d \in Dispatcher, NEW j \in DOMAIN outbox, IsNext(d, j),
         NEW i \in DOMAIN outbox, i < j
  PROVE  Excuse(i, j)
<1>1. j \in tx[d].batch /\ \A k \in Unhandled(d) : j <= k
  BY DEF IsNext, Unhandled
<1>2. i \in Nat /\ j \in Nat
  BY DEF TxInv, ObTypeOK
<1>3. CASE i \in tx[d].batch
  <2>1. i \in DOMAIN tx[d].outcome
    BY <1>1, <1>2, <1>3 DEF Unhandled
  <2>. QED
    BY <2>1 DEF Excuse
<1>4. ASSUME NEW c \in Dispatcher, c # d, i \in tx[c].batch
      PROVE  Excuse(i, j)
  BY <1>1, <1>4 DEF Excuse, TxInv, LocksExclude
<1>5. CASE outbox[i].status # Pending
  <2>1. outbox[i].status = Sent => Published(outbox[i].event) \/ i \in lost
    BY DEF SentIsPublished
  <2>2. outbox[i].status = Dead => outbox[i].retry > 0
    BY RetryAssumption DEF DeadAfterMaxRetry
  <2>3. outbox[i].status \in {Pending, Sent, Dead}
    BY RowType DEF TxInv
  <2>. QED
    BY <1>5, <2>1, <2>2, <2>3 DEF Excuse
<1>. QED
  BY <1>1, <1>3, <1>4, <1>5 DEF PollOrder, Excuse

OrderInv == PollOrder /\ OvertakenOnlyIfFailed

LEMMA OrderInit == ObInit => OrderInv
BY DEF ObInit, OrderInv, PollOrder, OvertakenOnlyIfFailed, NoTx

LEMMA OrderStep ==
  ASSUME TxInv, TxInv', SentIsPublished, SuccessPublished, DeadAfterMaxRetry,
         CopyInv, OrderInv, [ObNext]_obVars
  PROVE  OvertakenOnlyIfFailed'
<1>. SUFFICES ASSUME NEW i \in DOMAIN outbox', NEW j \in DOMAIN outbox', i < j,
                     PartitionOf[outbox'[i].event] = PartitionOf[outbox'[j].event],
                     Published(outbox[j].event)',
                     rollbacks' = 0
              PROVE  Excuse(i, j)'
  BY DEF OvertakenOnlyIfFailed, Excuse
<1>1. rollbacks = 0 /\ UNCHANGED rollbacks
  <2>1. rollbacks \in Nat
    BY BoundAssumption DEF TxInv, ObTypeOK
  <2>2. UNCHANGED rollbacks \/ rollbacks' = rollbacks + 1
    BY AttemptCases
    DEF ObNext, obVars, DispatcherStep, Attempt, Enqueue, Poll, Commit, Rollback
  <2>3. rollbacks' = 0
    OBVIOUS
  <2>. QED
    BY <2>1, <2>2, <2>3
<1>2. outbox'[j] \in Row
  BY DEF TxInv, ObTypeOK
<1>. PICK ev \in Event : ev = outbox'[j].event
  BY <1>2 DEF Row
<1>3. Published(ev)'
  OBVIOUS
<1>4. CASE j \notin DOMAIN outbox
  <2>1. PICK e \in Event \ Queued : Enqueue(e)
    BY <1>4, CommitEffect
    DEF ObNext, obVars, DispatcherStep, Attempt, Poll, Send, SendFails, Rollback
  <2>2. ev = e /\ UNCHANGED topic
    BY <1>4, <2>1, EnqueueEffect DEF Enqueue
  <2>3. Published(ev)
    BY <1>3, <2>2 DEF Published
  <2>4. ev \in Queued
    BY <2>3, PartitionAssumption DEF CopyInv, TopicQueued, Published
  <2>. QED
    BY <2>1, <2>2, <2>4
<1>5. CASE j \in DOMAIN outbox
  <2>1. i \in DOMAIN outbox
    BY <1>5 DEF TxInv, ObTypeOK
  <2>2. outbox[i].event = outbox'[i].event /\ outbox[j].event = ev
    BY <1>5, <2>1, RowChange
  <2>3. CASE Published(ev)
    <3>1. Excuse(i, j)
      BY <1>1, <1>5, <2>1, <2>2, <2>3 DEF OrderInv, OvertakenOnlyIfFailed, Excuse
    <3>. QED
      BY <1>1, <2>1, <3>1, ExcuseStays
  <2>4. CASE ~Published(ev)
    <3>1. PICK d \in Dispatcher, k \in DOMAIN outbox :
            /\ Send(d, k) \/ SendFails(d, k)
            /\ Publish(k)
      <4>1. topic' # topic
        BY <1>3, <2>4 DEF Published
      <4>. QED
        BY <4>1, AttemptCases
        DEF ObNext, obVars, DispatcherStep, Attempt, Enqueue, Poll, Commit, Rollback
    <3>2. k = j
      <4>1. Copies(ev) # Copies(ev)'
        <5>1. Copies(ev) = 0
          <6>1. Places(ev) = {}
            BY <2>4 DEF Published, Places
          <6>. QED
            BY <6>1, PlacesFinite, FS_EmptySet
        <5>2. Places(ev)' # {}
          BY <1>3 DEF Published, Places
        <5>3. IsFiniteSet(Places(ev)') /\ Copies(ev)' = Cardinality(Places(ev)')
          <6>1. topic'[PartitionOf[ev]] \in Seq(Event)
            BY PartitionAssumption DEF TxInv, ObTypeOK
          <6>. DEFINE n == Len(topic'[PartitionOf[ev]])
          <6>2. n \in Nat /\ Places(ev)' \subseteq 1 .. n
            BY <6>1 DEF Places
          <6>3. IsFiniteSet(1 .. n)
            BY <6>2, FS_Interval
          <6>4. IsFiniteSet(Places(ev)')
            BY <6>2, <6>3, FS_Subset
          <6>. QED
            BY <6>4 DEF Copies, Places
        <5>. QED
          BY <5>1, <5>2, <5>3, FS_EmptySet
      <4>2. outbox[k].event = ev
        BY <3>1, <4>1, PlacesFinite, CopiesStep
      <4>. QED
        BY <1>5, <2>2, <4>2 DEF CopyInv, EventsDistinct
    <3>3. IsNext(d, j)
      BY <3>1, <3>2, AttemptCases
    <3>4. Excuse(i, j)
      BY <1>1, <1>5, <2>1, <3>3, ExcuseOfSend DEF OrderInv
    <3>. QED
      BY <1>1, <2>1, <3>4, ExcuseStays
  <2>. QED
    BY <2>3, <2>4
<1>. QED
  BY <1>4, <1>5

\* With no rollback, an event is overtaken in its partition only after a send of it
\* failed or was lost by the broker, or by a batch it is not in while another instance
\* has it locked.
THEOREM OvertakenOnlyIfFailedHolds == ObSpec => []OvertakenOnlyIfFailed
<1>. DEFINE I == /\ SentIsPublished /\ SuccessPublished /\ DeadAfterMaxRetry
                 /\ CopyInv /\ OrderInv
<1>1. ObInit => I
  BY SentInit, DeadInit, CopyInit, OrderInit
<1>2. TxInv /\ TxInv' /\ I /\ [ObNext]_obVars => I'
  <2>. SUFFICES ASSUME TxInv, TxInv', I, [ObNext]_obVars
                PROVE  I'
    OBVIOUS
  <2>1. SentIsPublished' /\ SuccessPublished'
    BY SentStep
  <2>2. DeadAfterMaxRetry'
    BY DeadStep
  <2>3. CopyInv'
    BY DistinctStep, QueuedStep, DuplicatesStep DEF CopyInv
  <2>4. OrderInv'
    BY PollOrderStep, OrderStep DEF OrderInv
  <2>. QED
    BY <2>1, <2>2, <2>3, <2>4
<1>3. I => OvertakenOnlyIfFailed
  BY DEF OrderInv
<1>. QED
  BY <1>1, <1>2, <1>3, TxInvHolds, PTL DEF ObSpec
===============================================================================
