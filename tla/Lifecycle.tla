------------------------------- MODULE Lifecycle -------------------------------
(***************************************************************************)
(* The life of an asset across both databases: workflow-api asks asset-rpc *)
(* about the ledger before it opens a request, the archived request's      *)
(* event sits in workflow_outbox until the dispatcher has sent it, and     *)
(* asset-consumer applies it to the ledger, where the next request's check *)
(* will see it.  Between the final approval and that update the ledger is  *)
(* out of date, for as long as it takes the event to arrive.               *)
(*                                                                         *)
(* The three components share two variables: the outbox (workflow-api and  *)
(* the dispatcher) and the topic (the dispatcher and the consumer); every  *)
(* step is a step of one of them.                                          *)
(***************************************************************************)
EXTENDS Workflow

CONSTANTS
  Partition, KeyPartition,        \* the topic, and the partition of each asset's key
  Dispatcher, MaxRetry, BatchLimit, MaxRollbacks, MaxLost,
  Consumer, Visible, Seed, MaxTopic, MaxFailures, MaxCrashes, MaxRebalances

ASSUME KeyAssumption == KeyPartition \in [Asset -> Partition]
ASSUME VisibleAssumption == Visible \in [User -> SUBSET DeptId]
ASSUME SeedAssumption == DOMAIN Seed \subseteq Asset /\ Seed \in [DOMAIN Seed -> LedgerRow]
ASSUME DispatcherAssumption ==
  MaxRetry \in Nat \ {0} /\ BatchLimit \in Nat \ {0}
ASSUME BoundAssumption ==
  /\ MaxRollbacks \in Nat /\ MaxLost \in Nat /\ MaxTopic \in Nat
  /\ MaxFailures \in Nat /\ MaxCrashes \in Nat /\ MaxRebalances \in Nat

VARIABLES
  topic, tx, rollbacks, failed, lost,
  ledger, dedup, owner, position, committed, worker, session, applied, refused, takenOver, faults

\* The writer's key is the asset id.
PartitionOfEvent == [ev \in Event |-> KeyPartition[ev.asset]]

Ob == INSTANCE OutboxDispatcher WITH
  PartitionOf <- PartitionOfEvent, MaxRows <- 0

As == INSTANCE AssetService WITH PartitionOf <- PartitionOfEvent

obOwn == <<tx, rollbacks, failed, lost>>
asOwn == <<ledger, dedup, owner, position, committed, worker, session,
          applied, refused, takenOver, faults>>

lcVars == <<wfVars, topic, obOwn, asOwn>>

LcInit ==
  /\ WfInit
  /\ Ob!ObInit
  /\ As!AsInit

\* callCheckAsset: asset-rpc reads the ledger; the department it answers is
\* stored in the request.
AssetRpcAccepts(s) ==
  /\ s.asset \in DOMAIN ledger
  /\ CheckAssetForWorkflow(ledger[s.asset], s.type, s.requester)
  /\ s.dept = ledger[s.asset].dept

WorkflowStep(h) ==
  /\ \/ \E s \in Submission : AssetRpcAccepts(s) /\ CreateChecked(h, s)
     \/ \E u \in User : ReviewRead(h, u)
     \/ HandlerStep(h)
     \/ Abandon(h)
  /\ UNCHANGED <<topic, obOwn, asOwn>>

\* Bound: messages per partition.
TopicHasRoom == \A p \in Partition : Len(topic[p]) <= MaxTopic

DispatcherStep(d) ==
  /\ Ob!DispatcherStep(d) \/ Ob!Rollback(d)
  /\ TopicHasRoom'
  /\ UNCHANGED <<request, log, handler, wfHistory, asOwn>>

ConsumerStep(c) ==
  /\ \/ \E p \in Partition : As!Fetch(c, p)
     \/ As!WorkerStep(c)
     \/ As!ConsumerFault(c)
  /\ UNCHANGED <<wfVars, obOwn>>

AssetApiStep ==
  /\ As!ApiStep
  /\ UNCHANGED <<wfVars, obOwn>>

LcNext ==
  \/ \E h \in Handler : WorkflowStep(h)
  \/ \E d \in Dispatcher : DispatcherStep(d)
  \/ \E c \in Consumer : ConsumerStep(c)
  \/ AssetApiStep

LcSpec == LcInit /\ [][LcNext]_lcVars

\* The dispatcher's ticker and the consumer's loop run for as long as their
\* processes live; nothing obliges users to submit or review anything.
LcFairness ==
  /\ \A d \in Dispatcher : WF_lcVars(Ob!DispatcherStep(d) /\ UNCHANGED <<request, log, handler, wfHistory, asOwn>>)
  /\ \A c \in Consumer :
       /\ WF_lcVars(As!WorkerStep(c) /\ UNCHANGED <<wfVars, obOwn>>)
       /\ \A p \in Partition : SF_lcVars(As!Fetch(c, p) /\ UNCHANGED <<wfVars, obOwn>>)

LcFairSpec == LcSpec /\ LcFairness

-------------------------------------------------------------------------------
(***************************************************************************)
(* Properties                                                              *)
(***************************************************************************)
Granted(r) == r \in DOMAIN request /\ request[r].status = Archived

\* Whatever reached the ledger was granted, about that asset, and as granted: no
\* event is applied for a request that is open or was rejected.
AppliedWasGranted ==
  \A a \in Asset : \A i \in DOMAIN applied[a] :
    LET ev == applied[a][i] IN
    /\ Granted(ev.request)
    /\ ev.asset = a
    /\ EventMatches(ev, request[ev.request])

\* Nobody holds an asset without a granted use request of their own for it that
\* took effect, unless the ledger started that way; and a user is on record
\* exactly while the asset is in use.
HeldByGrantee ==
  \A a \in DOMAIN ledger :
    /\ ledger[a].status = InUse <=> ledger[a].user # Nobody
    /\ ledger[a].user # Nobody =>
         \/ applied[a] = << >>
         \/ \E r \in As!AppliedTo(a) :
              /\ Granted(r)
              /\ request[r].type = Use
              /\ request[r].requester = ledger[a].user

\* A granted request is never forgotten: it ends in the ledger, refused by the
\* status machine, or in the dead letters.  This needs a broker that keeps what it
\* was sent and a consumer whose statements do not fail and that does not die
\* between the dedup row and the ledger.
GrantEventuallySettled ==
  \A r \in Request :
    Granted(r) ~>
      \E i \in DOMAIN outbox :
        /\ outbox[i].event.request = r
        /\ As!Handled(outbox[i].event) \/ outbox[i].status = Ob!Dead
===============================================================================
