----------------------------- MODULE AssetService -----------------------------
(***************************************************************************)
(* The asset service: the ledger (asset_ledger) and the dedup table        *)
(* (asset_event_dedup) in MySQL, asset-api, which creates, moves and       *)
(* deletes assets, and asset-consumer, which applies the lifecycle events  *)
(* of the topic to the ledger.                                             *)
(*                                                                         *)
(* A consumer instance handles one message at a time in several SQL        *)
(* statements, each committed on its own: the dedup row, the read of the   *)
(* ledger row, its update; then it commits the offset.  When a partition   *)
(* is reassigned the old owner finishes what it has in hand, and the new   *)
(* one starts at the last committed offset.                                *)
(*                                                                         *)
(* Here the topic receives any event, in any order and as often as the     *)
(* bound allows; module Lifecycle gives it what the dispatcher sends.      *)
(***************************************************************************)
EXTENDS AssetRules, Sequences, FiniteSets

CONSTANTS
  Asset,        \* asset ids
  Event,        \* lifecycle events: request, asset, target status, user
  Partition,    \* partitions of the topic
  PartitionOf,  \* the partition of each event
  Consumer,     \* consumer instances of the group
  Visible,      \* departments each user sees through asset-api
  Seed,         \* ledger rows present from the start
  MaxTopic,     \* bound: messages per partition
  MaxFailures,  \* bound: statements of the consumer that fail, of whatever kind
  MaxCrashes,   \* bound: crashes of consumer instances
  MaxRebalances \* bound: reassignments of a partition

ASSUME EventAssumption ==
  \A ev \in Event : ev.asset \in Asset /\ ev.target \in AssetStatus /\ ev.user \in User \cup {Nobody}
ASSUME PartitionAssumption == PartitionOf \in [Event -> Partition]
ASSUME VisibleAssumption == Visible \in [User -> SUBSET DeptId]
ASSUME SeedAssumption == DOMAIN Seed \subseteq Asset /\ Seed \in [DOMAIN Seed -> LedgerRow]
ASSUME BoundAssumption ==
  MaxTopic \in Nat /\ MaxFailures \in Nat /\ MaxCrashes \in Nat /\ MaxRebalances \in Nat

VARIABLES
  ledger,     \* asset_ledger: a partial function from asset ids to rows
  dedup,      \* asset_event_dedup: request ids, unique
  topic,      \* messages of each partition
  owner,      \* the instance each partition is assigned to
  position,   \* next message its owner fetches
  committed,  \* messages acknowledged so far
  worker,     \* what each instance is doing
  session,    \* what asset-api is doing for each user
  applied,    \* history: events written to each asset's row
  refused,    \* history: requests whose event the status machine refused
  takenOver,  \* history: assets with an event in hand when the partition moved
  faults      \* statements of each kind that failed, crashes and rebalances so far

asVars == <<ledger, dedup, topic, owner, position, committed, worker, session,
            applied, refused, takenOver, faults>>

apiVars == <<ledger, session, applied>>
offsets == <<owner, position, committed>>
groupVars == <<offsets, takenOver, faults>>

RequestOf == {ev.request : ev \in Event}

Idle == [pc |-> "idle"]

WorkerState ==
  {Idle}
  \cup [pc : {"dedup", "read", "write", "ack"}, part : Partition, at : 1 .. MaxTopic]

SessionState ==
  {Idle} \cup [pc : {"delete", "move"}, asset : Asset, dept : DeptId]

AsInit ==
  /\ ledger = Seed
  /\ dedup = {}
  /\ topic = [p \in Partition |-> << >>]
  /\ owner \in [Partition -> Consumer]
  /\ position = [p \in Partition |-> 1]
  /\ committed = [p \in Partition |-> 0]
  /\ worker = [c \in Consumer |-> Idle]
  /\ session = [u \in User |-> Idle]
  /\ applied = [a \in Asset |-> << >>]
  /\ refused = {}
  /\ takenOver = {}
  /\ faults = [dedup |-> 0, change |-> 0, ack |-> 0, crash |-> 0, rebalance |-> 0]

\* A message arrives in the topic.
Arrive(ev) ==
  LET p == PartitionOf[ev] IN
  /\ Len(topic[p]) < MaxTopic
  /\ topic' = [topic EXCEPT ![p] = Append(@, ev)]
  /\ UNCHANGED <<apiVars, groupVars, dedup, worker, refused>>

-------------------------------------------------------------------------------
(***************************************************************************)
(* asset-consumer                                                          *)
(***************************************************************************)
Message(c) == topic[worker[c].part][worker[c].at]

Fault(kind) == faults' = [faults EXCEPT ![kind] = @ + 1]

\* A statement, or the acknowledgement, returns an error.
StatementFails(kind) ==
  /\ faults.dedup + faults.change + faults.ack < MaxFailures
  /\ Fault(kind)

WorkerTo(c, pc) == worker' = [worker EXCEPT ![c].pc = pc]

\* Mutant: ReadMessage instead of FetchMessage acknowledges at once.
ReadAndAck(c, p) ==
  /\ owner[p] = c
  /\ worker[c] = Idle
  /\ position[p] <= Len(topic[p])
  /\ worker' = [worker EXCEPT ![c] = [pc |-> "dedup", part |-> p, at |-> position[p]]]
  /\ position' = [position EXCEPT ![p] = @ + 1]
  /\ committed' = [committed EXCEPT ![p] = position[p]]
  /\ UNCHANGED <<apiVars, owner, takenOver, faults, dedup, topic, refused>>

Fetch(c, p) ==
  /\ owner[p] = c
  /\ worker[c] = Idle
  /\ position[p] <= Len(topic[p])
  /\ worker' = [worker EXCEPT ![c] = [pc |-> "dedup", part |-> p, at |-> position[p]]]
  /\ position' = [position EXCEPT ![p] = @ + 1]
  /\ UNCHANGED <<apiVars, owner, committed, takenOver, faults, dedup, topic, refused>>

\* Mutant: no unique constraint on asset_event_dedup.request_id.
NeverDuplicate(ev) == FALSE

IsDuplicate(ev) == ev.request \in dedup

\* INSERT INTO asset_event_dedup, committed at once.
Dedup(c) ==
  /\ worker[c].pc = "dedup"
  /\ dedup' = dedup \cup {Message(c).request}
  /\ WorkerTo(c, IF IsDuplicate(Message(c)) THEN "ack" ELSE "read")
  /\ UNCHANGED <<apiVars, groupVars, topic, refused>>

\* The insert fails: the loop continues with the next message, unacknowledged.
DedupFails(c) ==
  /\ worker[c].pc = "dedup"
  /\ StatementFails("dedup")
  /\ worker' = [worker EXCEPT ![c] = Idle]
  /\ UNCHANGED <<apiVars, offsets, takenOver, dedup, topic, refused>>

\* Mutant: the status machine is not consulted.
AcceptsAnything(ev) == ev.asset \in DOMAIN ledger

\* FindByID and the status machine of ChangeAssetStatus.
Accepts(ev) ==
  /\ ev.asset \in DOMAIN ledger
  /\ ~ledger[ev.asset].deleted
  /\ ev.target \in Allowed[ledger[ev.asset].status]

ReadAsset(c) ==
  LET ev == Message(c) IN
  /\ worker[c].pc = "read"
  /\ WorkerTo(c, IF Accepts(ev) THEN "write" ELSE "ack")
  /\ refused' = IF Accepts(ev) THEN refused ELSE refused \cup {ev.request}
  /\ UNCHANGED <<apiVars, groupVars, dedup, topic>>

\* Mutant: the user is only set, never cleared.
KeepUser(row, ev) ==
  [row EXCEPT !.status = ev.target, !.user = IF ev.user = Nobody THEN @ ELSE ev.user]

Changed(row, ev) == [row EXCEPT !.status = ev.target, !.user = ev.user]

\* ChangeStatus: UPDATE ... SET status=?, user_id=? WHERE id=?
ChangeStatus(c) ==
  LET ev == Message(c) IN
  /\ worker[c].pc = "write"
  /\ ledger' = [ledger EXCEPT ![ev.asset] = Changed(@, ev)]
  /\ applied' = [applied EXCEPT ![ev.asset] = Append(@, ev)]
  /\ WorkerTo(c, "ack")
  /\ UNCHANGED <<groupVars, dedup, topic, session, refused>>

\* A statement of ChangeAssetStatus fails: logged, then acknowledged.
ChangeFails(c) ==
  /\ worker[c].pc \in {"read", "write"}
  /\ StatementFails("change")
  /\ WorkerTo(c, "ack")
  /\ UNCHANGED <<apiVars, offsets, takenOver, dedup, topic, refused>>

\* CommitMessages: refused by the group once the partition has another owner.
Ack(c) ==
  /\ worker[c].pc = "ack"
  /\ committed' = IF owner[worker[c].part] = c
                  THEN [committed EXCEPT ![worker[c].part] = worker[c].at]
                  ELSE committed
  /\ worker' = [worker EXCEPT ![c] = Idle]
  /\ UNCHANGED <<apiVars, owner, position, takenOver, faults, dedup, topic, refused>>

\* CommitMessages fails: logged, and on to the next message.
AckFails(c) ==
  /\ worker[c].pc = "ack"
  /\ StatementFails("ack")
  /\ worker' = [worker EXCEPT ![c] = Idle]
  /\ UNCHANGED <<apiVars, offsets, takenOver, dedup, topic, refused>>

\* The instance dies; restarted, it resumes at the committed offsets.
Crash(c) ==
  /\ faults.crash < MaxCrashes
  /\ Fault("crash")
  /\ worker' = [worker EXCEPT ![c] = Idle]
  /\ position' = [p \in Partition |-> IF owner[p] = c THEN committed[p] + 1 ELSE position[p]]
  /\ UNCHANGED <<apiVars, owner, committed, takenOver, dedup, topic, refused>>

\* Instance c has an event in hand and is not done with its effect.
InHand(c) == worker[c].pc \in {"dedup", "read", "write"}

\* The group hands p to another instance; the old owner is not interrupted.
Rebalance(p, c) ==
  /\ c # owner[p]
  /\ faults.rebalance < MaxRebalances
  /\ Fault("rebalance")
  /\ takenOver' = takenOver \cup
                    {Message(w).asset : w \in {v \in Consumer : InHand(v) /\ worker[v].part = p}}
  /\ owner' = [owner EXCEPT ![p] = c]
  /\ position' = [position EXCEPT ![p] = committed[p] + 1]
  /\ UNCHANGED <<apiVars, committed, dedup, topic, worker, refused>>

WorkerStep(c) ==
  \/ Dedup(c)
  \/ ReadAsset(c)
  \/ ChangeStatus(c)
  \/ Ack(c)

ConsumerFault(c) ==
  \/ DedupFails(c)
  \/ ChangeFails(c)
  \/ AckFails(c)
  \/ Crash(c)
  \/ \E p \in Partition : Rebalance(p, c)

-------------------------------------------------------------------------------
(***************************************************************************)
(* asset-api                                                               *)
(***************************************************************************)
NewAsset(d) == [status |-> InStock, user |-> Nobody, dept |-> d, deleted |-> FALSE]

CreateAsset(a, d) ==
  /\ a \notin DOMAIN ledger
  /\ ledger' = [x \in DOMAIN ledger \cup {a} |-> IF x = a THEN NewAsset(d) ELSE ledger[x]]
  /\ UNCHANGED <<groupVars, dedup, topic, worker, session, applied, refused>>

InScope(u, d) == d \in Visible[u]

\* Delete and Update: FindByID and ensureAssetInScope on what it returned, and
\* for a departmentId > 0 on the new department too.
ReadForDelete(u, a) ==
  /\ session[u] = Idle
  /\ ~ledger[a].deleted
  /\ InScope(u, ledger[a].dept)
  /\ session' = [session EXCEPT ![u] = [pc |-> "delete", asset |-> a, dept |-> ledger[a].dept]]
  /\ UNCHANGED <<groupVars, ledger, dedup, topic, worker, applied, refused>>

ReadForUpdate(u, a, d) ==
  /\ session[u] = Idle
  /\ ~ledger[a].deleted
  /\ InScope(u, ledger[a].dept)
  /\ d # NoDept => InScope(u, d)
  /\ session' = [session EXCEPT ![u] = [pc |-> "move", asset |-> a, dept |-> d]]
  /\ UNCHANGED <<groupVars, ledger, dedup, topic, worker, applied, refused>>

\* Mutant: the statements lack AND deleted_at IS NULL, and the delete toggles.
RowPresentAlways(a) == TRUE

\* WHERE id=? AND deleted_at IS NULL
RowPresent(a) == ~ledger[a].deleted

\* SoftDelete or Update; no row affected: ErrAssetNotFound.
WriteAsset(u) ==
  LET s == session[u]
      row == ledger[s.asset] IN
  /\ s # Idle
  /\ ledger' = IF RowPresent(s.asset)
               THEN [ledger EXCEPT ![s.asset] =
                       IF s.pc = "delete" THEN [row EXCEPT !.deleted = TRUE]
                                          ELSE [row EXCEPT !.dept = s.dept]]
               ELSE ledger
  /\ session' = [session EXCEPT ![u] = Idle]
  /\ UNCHANGED <<groupVars, dedup, topic, worker, applied, refused>>

\* The client is gone or the statement fails.
AbandonSession(u) ==
  /\ session[u] # Idle
  /\ session' = [session EXCEPT ![u] = Idle]
  /\ UNCHANGED <<groupVars, ledger, dedup, topic, worker, applied, refused>>

ApiStep ==
  \/ \E a \in Asset, d \in DeptId : CreateAsset(a, d)
  \/ \E u \in User :
       \/ \E a \in DOMAIN ledger : ReadForDelete(u, a)
       \/ \E a \in DOMAIN ledger, d \in DeptId : ReadForUpdate(u, a, d)
       \/ WriteAsset(u)
       \/ AbandonSession(u)

-------------------------------------------------------------------------------
AsNext ==
  \/ \E ev \in Event : Arrive(ev)
  \/ \E c \in Consumer : \/ \E p \in Partition : Fetch(c, p)
                         \/ WorkerStep(c)
                         \/ ConsumerFault(c)
  \/ ApiStep

AsSpec == AsInit /\ [][AsNext]_asVars

-------------------------------------------------------------------------------
(***************************************************************************)
(* Properties                                                              *)
(***************************************************************************)
\* Tables, offsets and the state of every instance and session are well-formed;
\* an instance only holds a message that is in the topic.  What is committed may be
\* past what is fetched next: an instance that gave a partition away and got it back
\* still acknowledges what it had in hand.
AsTypeOK ==
  /\ DOMAIN ledger \subseteq Asset
  /\ \A a \in DOMAIN ledger : ledger[a] \in LedgerRow
  /\ dedup \subseteq RequestOf
  /\ refused \subseteq RequestOf
  /\ takenOver \subseteq Asset
  /\ topic \in [Partition -> Seq(Event)]
  /\ owner \in [Partition -> Consumer]
  /\ \A p \in Partition :
       committed[p] \in 0 .. Len(topic[p]) /\ position[p] - 1 \in 0 .. Len(topic[p])
  /\ worker \in [Consumer -> WorkerState]
  /\ \A c \in Consumer : worker[c] # Idle => worker[c].at <= Len(topic[worker[c].part])
  /\ session \in [User -> SessionState]
  /\ applied \in [Asset -> Seq(Event)]

AppliedTo(a) == {applied[a][i].request : i \in DOMAIN applied[a]}

\* However often an event is delivered (duplicates in the topic, redelivery after
\* a crash or to a new owner), it changes the ledger at most once.
AppliedAtMostOnce ==
  \A a, b \in Asset :
    \A i \in DOMAIN applied[a], j \in DOMAIN applied[b] :
      applied[a][i].request = applied[b][j].request => a = b /\ i = j

\* The types together with the effect-once delivery of events.
AsInv == AsTypeOK /\ AppliedAtMostOnce

StatusBefore(a, i) ==
  IF i > 1 THEN applied[a][i - 1].target
  ELSE IF a \in DOMAIN Seed THEN Seed[a].status ELSE InStock

\* A deleted asset is neither moved nor brought back by a session that had read
\* it before the deletion.
DeletedStaysPut ==
  [][\A a \in DOMAIN ledger :
       ledger[a].deleted => ledger'[a].deleted /\ ledger'[a].dept = ledger[a].dept]_asVars

Unrecorded ==
  {pk \in Partition \X (1 .. MaxTopic) :
     pk[2] <= committed[pk[1]] /\ topic[pk[1]][pk[2]].request \notin dedup}

\* Requests that are recorded as seen, but whose event has neither changed the ledger
\* nor been refused, and which no instance has in hand any more: redelivered, their
\* event passes for a duplicate, so it is lost for good.
Forgotten ==
  {q \in dedup \ refused :
     /\ \A a \in Asset : q \notin AppliedTo(a)
     /\ \A c \in Consumer : worker[c].pc \in {"read", "write"} => Message(c).request # q}

\* Every event that is lost has a failure of its own, at one of two places: the group
\* acknowledges past a message without its dedup row only where that insert failed,
\* and a recorded event is forgotten only where a statement of its change failed or the
\* process died before it.  Rebalances, late acknowledgements of a former owner and
\* failed acknowledgements lose nothing.
LossesExplained ==
  /\ Cardinality(Unrecorded) <= faults.dedup
  /\ Cardinality(Forgotten) <= faults.change + faults.crash

\* However messages are repeated, redelivered after a crash or moved between instances,
\* an asset goes only through changes of status that the status machine allows, unless
\* its partition was taken from an instance that had an event of that asset in hand:
\* then two instances work on it at a time, and the code has no guard (LegalHistory).
LegalUnlessTakenOver ==
  \A a \in Asset \ takenOver : \A i \in DOMAIN applied[a] :
    applied[a][i].target \in Allowed[StatusBefore(a, i)]

Handled(ev) == ev.request \in AppliedTo(ev.asset) \cup refused

-------------------------------------------------------------------------------
(***************************************************************************)
(* What the documents say and the code does not do.                        *)
(***************************************************************************)
\* consumer/main.go 80: "no ACK, wait for the retry" when the dedup insert fails,
\* so whatever the group has acknowledged is recorded.
CommittedIsDeduped == Unrecorded = {}

\* doc/04: every change of an asset's status is one the status machine allows from
\* the status it had at that moment, not only from the one the consumer had read.
LegalHistory ==
  \A a \in Asset : \A i \in DOMAIN applied[a] :
    applied[a][i].target \in Allowed[StatusBefore(a, i)]
===============================================================================
