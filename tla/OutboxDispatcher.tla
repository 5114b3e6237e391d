--------------------------- MODULE OutboxDispatcher ---------------------------
(***************************************************************************)
(* The outbox dispatcher: every instance polls workflow_outbox, sends what *)
(* is due to Kafka and records the outcome, all in one PostgreSQL          *)
(* transaction.  The rows of the batch stay locked until it ends and are   *)
(* invisible to the other instances (FOR UPDATE SKIP LOCKED).  The sends   *)
(* are not part of the transaction: a rollback forgets the outcomes, the   *)
(* messages stay in the topic.                                             *)
(***************************************************************************)
EXTENDS Integers, Sequences, FiniteSets

CONSTANTS
  Event,          \* payloads the workflow service may queue
  Partition,      \* partitions of the topic
  PartitionOf,    \* kafka.Hash: the partition of each event's key
  Dispatcher,     \* instances of the dispatcher
  MaxRetry,       \* maxRetry, 10 in the code
  BatchLimit,     \* LIMIT of the poll, 100 in the code
  MaxRows,        \* bound: rows queued
  MaxRollbacks,   \* bound: transactions that do not commit
  MaxLost         \* bound: rows of which the broker loses a message

ASSUME PartitionAssumption == PartitionOf \in [Event -> Partition]
ASSUME RetryAssumption == MaxRetry \in Nat \ {0}
ASSUME BatchAssumption == BatchLimit \in Nat \ {0}
ASSUME BoundAssumption == MaxRows \in Nat /\ MaxRollbacks \in Nat /\ MaxLost \in Nat

VARIABLES
  outbox,     \* workflow_outbox, in the order of its ids
  topic,      \* messages of each partition
  tx,         \* each instance's transaction: locked rows, outcomes so far
  rollbacks,  \* transactions rolled back so far
  failed,     \* history: failed sends of each row, whether recorded or not
  lost        \* history: rows sent of which the broker kept nothing

obHistory == <<failed, lost>>
obVars == <<outbox, topic, tx, rollbacks, obHistory>>

(***************************************************************************)
(* workflow_outbox.status                                                  *)
(***************************************************************************)
Pending == 0
Sent    == 1
Dead    == 2

Row == [event : Event, status : {Pending, Sent, Dead}, retry : Nat]

NoOutcome == [i \in {} |-> [status |-> Pending, retry |-> 0]]
NoTx == [batch |-> {}, outcome |-> NoOutcome]
NoFailures == [i \in {} |-> 0]

ObInit ==
  /\ outbox = << >>
  /\ topic = [p \in Partition |-> << >>]
  /\ tx = [d \in Dispatcher |-> NoTx]
  /\ rollbacks = 0
  /\ failed = NoFailures
  /\ lost = {}

\* The workflow service commits a final approval.
Enqueue(ev) ==
  /\ Len(outbox) < MaxRows
  /\ outbox' = Append(outbox, [event |-> ev, status |-> Pending, retry |-> 0])
  /\ UNCHANGED <<topic, tx, rollbacks, obHistory>>

(***************************************************************************)
(* PollAndSend: SELECT ... WHERE status=0 ORDER BY id LIMIT n FOR UPDATE   *)
(* SKIP LOCKED.                                                            *)
(***************************************************************************)
\* Mutant: FOR UPDATE SKIP LOCKED is dropped.
DueIgnoringLocks == {i \in DOMAIN outbox : outbox[i].status = Pending}

\* Mutant: only rows that were never tried are polled.
DueFirstTry ==
  {i \in DOMAIN outbox :
     /\ outbox[i].status = Pending
     /\ outbox[i].retry = 0
     /\ \A d \in Dispatcher : i \notin tx[d].batch}

Due ==
  {i \in DOMAIN outbox :
     /\ outbox[i].status = Pending
     /\ \A d \in Dispatcher : i \notin tx[d].batch}

FirstOf(S, n) == {i \in S : Cardinality({j \in S : j < i}) < n}

Poll(d) ==
  /\ tx[d] = NoTx
  /\ Due # {}
  /\ tx' = [tx EXCEPT ![d].batch = FirstOf(Due, BatchLimit)]
  /\ UNCHANGED <<outbox, topic, rollbacks, obHistory>>

Unhandled(d) == tx[d].batch \ DOMAIN tx[d].outcome

\* Mutant: the batch is not processed in the order of the ids.
IsAnyOf(d, i) == i \in Unhandled(d)

\* Row i is the next one in d's loop over its batch.
IsNext(d, i) ==
  /\ i \in Unhandled(d)
  /\ \A j \in Unhandled(d) : i <= j

Publish(i) ==
  LET ev == outbox[i].event IN
  topic' = [topic EXCEPT ![PartitionOf[ev]] = Append(@, ev)]

Outcome(d, i, status, retry) ==
  tx' = [tx EXCEPT ![d].outcome =
           [j \in DOMAIN @ \cup {i} |->
              IF j = i THEN [status |-> status, retry |-> retry] ELSE @[j]]]

\* Mutant: an unconditional success, as if Send's error were not returned.
SendIgnoringError(d, i) ==
  /\ IsNext(d, i)
  /\ Publish(i) \/ UNCHANGED topic
  /\ Outcome(d, i, Sent, outbox[i].retry)
  /\ UNCHANGED <<outbox, rollbacks, obHistory>>

Kept(i) == Publish(i) /\ UNCHANGED lost
Lost(i) == Cardinality(lost) < MaxLost /\ lost' = lost \cup {i} /\ UNCHANGED topic

\* Send returned nil.  The writer sets no RequiredAcks: it does not wait for
\* the broker, so the message is in the topic only if the broker kept it.
Send(d, i) ==
  /\ IsNext(d, i)
  /\ Kept(i) \/ Lost(i)
  /\ Outcome(d, i, Sent, outbox[i].retry)
  /\ UNCHANGED <<outbox, rollbacks, failed>>

\* Mutant: the limit is checked against the count before this failure.
StatusAfterFailureLate(retry) == IF retry >= MaxRetry THEN Dead ELSE Pending

StatusAfterFailure(retry) == IF retry + 1 >= MaxRetry THEN Dead ELSE Pending

Failures(i) == IF i \in DOMAIN failed THEN failed[i] ELSE 0

\* Send returned an error, with or without the message having been written;
\* markRetry, and on to the next row of the batch.
SendFails(d, i) ==
  /\ IsNext(d, i)
  /\ Publish(i) \/ UNCHANGED topic
  /\ Outcome(d, i, StatusAfterFailure(outbox[i].retry), outbox[i].retry + 1)
  /\ failed' = [j \in DOMAIN failed \cup {i} |-> Failures(j) + (IF j = i THEN 1 ELSE 0)]
  /\ UNCHANGED <<outbox, rollbacks, lost>>

Commit(d) ==
  LET out == tx[d].outcome IN
  /\ tx[d] # NoTx
  /\ DOMAIN out = tx[d].batch
  /\ outbox' = [i \in DOMAIN outbox |->
                  IF i \in DOMAIN out
                  THEN [outbox[i] EXCEPT !.status = out[i].status, !.retry = out[i].retry]
                  ELSE outbox[i]]
  /\ tx' = [tx EXCEPT ![d] = NoTx]
  /\ UNCHANGED <<topic, rollbacks, obHistory>>

\* A statement or the commit fails, or the process dies: nothing is recorded.
Rollback(d) ==
  /\ tx[d] # NoTx
  /\ rollbacks < MaxRollbacks
  /\ rollbacks' = rollbacks + 1
  /\ tx' = [tx EXCEPT ![d] = NoTx]
  /\ UNCHANGED <<outbox, topic, obHistory>>

Attempt(d) == \E i \in DOMAIN outbox : Send(d, i) \/ SendFails(d, i)

DispatcherStep(d) == Poll(d) \/ Attempt(d) \/ Commit(d)

Queued == {outbox[i].event : i \in DOMAIN outbox}

ObNext ==
  \/ \E ev \in Event \ Queued : Enqueue(ev)
  \/ \E d \in Dispatcher : DispatcherStep(d) \/ Rollback(d)

ObSpec == ObInit /\ [][ObNext]_obVars

-------------------------------------------------------------------------------
(***************************************************************************)
(* Properties                                                              *)
(***************************************************************************)
\* Rows, transactions and the topic are well-formed; a transaction has outcomes
\* for rows of its batch only.
ObTypeOK ==
  /\ outbox \in Seq(Row)
  /\ topic \in [Partition -> Seq(Event)]
  /\ rollbacks \in 0 .. MaxRollbacks
  /\ \A d \in Dispatcher :
       /\ tx[d].batch \subseteq DOMAIN outbox
       /\ DOMAIN tx[d].outcome \subseteq tx[d].batch
       /\ \A i \in DOMAIN tx[d].outcome :
            tx[d].outcome[i] \in [status : {Pending, Sent, Dead}, retry : Nat]
  /\ DOMAIN failed \subseteq DOMAIN outbox /\ failed \in [DOMAIN failed -> Nat]
  /\ lost \subseteq DOMAIN outbox

Published(ev) == \E k \in DOMAIN topic[PartitionOf[ev]] : topic[PartitionOf[ev]][k] = ev

\* At least once, as far as the broker keeps what it is given: a row is marked as
\* sent only if its message is in the topic, or was handed to the broker, which
\* lost it, in a send that did not wait for an acknowledgement.  Whatever is rolled
\* back or retried, no row is marked whose message the broker never got.
SentIsPublished ==
  \A i \in DOMAIN outbox :
    outbox[i].status = Sent => Published(outbox[i].event) \/ i \in lost

\* The types together with at-least-once delivery.
ObInv == ObTypeOK /\ SentIsPublished

Copies(ev) ==
  Cardinality({k \in DOMAIN topic[PartitionOf[ev]] : topic[PartitionOf[ev]][k] = ev})

InProgress(i) == \E d \in Dispatcher : i \in DOMAIN tx[d].outcome

\* Every further copy of a message has its reason: a failed send that is counted
\* in retry_count, or a rollback.  In particular two instances never both send
\* the same row because they polled at the same time.
DuplicatesExplained ==
  \A i \in DOMAIN outbox :
    Copies(outbox[i].event) <=
      rollbacks + outbox[i].retry
        + (IF outbox[i].status = Sent THEN 1 ELSE 0)
        + (IF InProgress(i) THEN 1 ELSE 0)

FailureInProgress(i) ==
  \E d \in Dispatcher : i \in DOMAIN tx[d].outcome /\ tx[d].outcome[i].retry > outbox[i].retry

\* The failures that are recorded, or noted in a batch that is not committed yet.
Noted(i) == outbox[i].retry + (IF FailureInProgress(i) THEN 1 ELSE 0)

\* A row is given up when MaxRetry failed sends of it have been recorded, not
\* earlier and not later; and the record is short of the sends that really failed
\* by what rollbacks have undone, one failure each at most.  So a dead row has failed
\* at least MaxRetry and at most MaxRetry + rollbacks times.
DeadAfterMaxRetry ==
  \A i \in DOMAIN outbox :
    /\ outbox[i].retry <= MaxRetry
    /\ outbox[i].status = Dead <=> outbox[i].retry = MaxRetry
    /\ Failures(i) \in Noted(i) .. Noted(i) + rollbacks

\* What one instance recorded is never taken back by another: sent rows and dead
\* rows stay as they are.
SettledIsFinal ==
  [][\A i \in DOMAIN outbox : outbox[i].status # Pending => outbox'[i] = outbox[i]]_obVars

\* With no rollback, a later event of a partition overtakes an earlier one only if
\* a send of the earlier one failed or was lost by the broker, or if another
\* instance has the earlier one locked in a batch the later one is not in.
OvertakenOnlyIfFailed ==
  \A i, j \in DOMAIN outbox :
    /\ i < j
    /\ PartitionOf[outbox[i].event] = PartitionOf[outbox[j].event]
    /\ Published(outbox[j].event)
    /\ rollbacks = 0
    => \/ Published(outbox[i].event)
       \/ i \in lost
       \/ outbox[i].retry > 0
       \/ \E d \in Dispatcher :
            \/ i \in DOMAIN tx[d].outcome
            \/ i \in tx[d].batch /\ j \notin tx[d].batch
===============================================================================
