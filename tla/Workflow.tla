------------------------------- MODULE Workflow -------------------------------
(***************************************************************************)
(* workflow-api and its PostgreSQL tables workflow_request, workflow_log   *)
(* and workflow_outbox.                                                    *)
(*                                                                         *)
(* A table is a partial function from the ids inserted so far to rows.     *)
(* Every HTTP request is served by a handler that runs several SQL         *)
(* statements, each of them a step of its own: what a handler read is a    *)
(* snapshot that other handlers may have outdated when it writes.  Only    *)
(* ApproveStage2AndArchive is one transaction.  A handler may be abandoned *)
(* between any two steps: its queries run in the context of the HTTP       *)
(* request, so a client that disconnects, a failing statement and a crash  *)
(* of the process all leave the steps done so far and nothing else.        *)
(*                                                                         *)
(* asset-rpc answers Create's check: here it may give any answer, module   *)
(* Lifecycle makes it the answer computed from the ledger.                 *)
(***************************************************************************)
EXTENDS AssetRules, Sequences

CONSTANTS
  Request,   \* ids the request table may hand out
  Asset,     \* asset ids
  Handler,   \* HTTP requests being served at the same time
  Role,      \* role claim of each user: 1 school, 2 college, 3 staff
  Subtree,   \* departments each user administers
  Submission \* the submissions users try, with the department asset-rpc answers

ASSUME RoleAssumption == Role \in [User -> 1 .. 3]
ASSUME SubtreeAssumption == Subtree \in [User -> SUBSET Dept]
ASSUME SubmissionAssumption ==
  Submission \subseteq [asset : Asset, requester : User, dept : DeptId, type : RequestType]

VARIABLES
  request,   \* workflow_request
  log,       \* workflow_log
  outbox,    \* workflow_outbox, in the order of its ids
  handler,   \* what each handler still has to do
  overtaken, \* history: requests forwarded while a rejection of them was under way
  unlogged   \* history: log entries whose handler was abandoned before writing them

wfHistory == <<overtaken, unlogged>>
wfVars == <<request, log, outbox, handler, wfHistory>>

(***************************************************************************)
(* workflow_request.status                                                 *)
(***************************************************************************)
Open     == 1
Archived == 2
Rejected == 3

RequestRow ==
  [asset : Asset, requester : User, dept : DeptId, type : RequestType,
   stage : 1 .. 3, status : {Open, Archived, Rejected}]

LogEntry ==
  [request : Request, operator : User,
   action : {"submit", "approve1", "approve2", "reject1", "reject2"}]

Event ==
  [request : Request, asset : Asset, target : AssetStatus, user : User \cup {Nobody}]

(***************************************************************************)
(* workflow_outbox.status: 0 to be sent, 1 sent, 2 dead letter.            *)
(***************************************************************************)
OutboxRow == [event : Event, status : 0 .. 2, retry : Nat]

Idle == [pc |-> "idle"]

HandlerState ==
  {Idle}
  \cup [pc : {"insert"}, row : RequestRow]
  \cup [pc : {"approve1", "approve2", "reject"}, uid : User, id : Request, wf : RequestRow]
  \cup [pc : {"log"}, entry : LogEntry]

NoRows == [id \in {} |-> Idle]

WfInit ==
  /\ request = NoRows
  /\ log = {}
  /\ outbox = << >>
  /\ handler = [h \in Handler |-> Idle]
  /\ overtaken = {}
  /\ unlogged = {}

Goto(h, state) == handler' = [handler EXCEPT ![h] = state]

InsertRow(table, id, row) ==
  [x \in DOMAIN table \cup {id} |-> IF x = id THEN row ELSE table[x]]

(***************************************************************************)
(* Create: asset-rpc is asked first, then the row is inserted, then the    *)
(* submission is logged.  The partial unique index on asset_id refuses a   *)
(* second open request, whatever the check said before.                    *)
(***************************************************************************)
\* Mutant: the INSERT leaves status to the column's default.
NewRowDefaultStatus(s) ==
  [asset |-> s.asset, requester |-> s.requester, dept |-> s.dept, type |-> s.type,
   stage |-> 1, status |-> 0]

NewRow(s) ==
  [asset |-> s.asset, requester |-> s.requester, dept |-> s.dept, type |-> s.type,
   stage |-> 1, status |-> Open]

CreateChecked(h, s) ==
  /\ handler[h] = Idle
  /\ Goto(h, [pc |-> "insert", row |-> NewRow(s)])
  /\ UNCHANGED <<request, log, outbox, wfHistory>>

\* Mutant: the partial unique index was never created.
NoUniqueIndex(a) == FALSE

HasOpenRequest(a) ==
  \E r \in DOMAIN request : request[r].asset = a /\ request[r].status = Open

Insert(h) ==
  /\ handler[h].pc = "insert"
  /\ ~HasOpenRequest(handler[h].row.asset)
  /\ \E id \in Request \ DOMAIN request :
       /\ request' = InsertRow(request, id, handler[h].row)
       /\ Goto(h, [pc |-> "log",
                   entry |-> [request |-> id, operator |-> handler[h].row.requester,
                              action |-> "submit"]])
  /\ UNCHANGED <<log, outbox, wfHistory>>

RefuseDuplicate(h) ==
  /\ handler[h].pc = "insert"
  /\ HasOpenRequest(handler[h].row.asset)
  /\ Goto(h, Idle)
  /\ UNCHANGED <<request, log, outbox, wfHistory>>

InsertLog(h) ==
  /\ handler[h].pc = "log"
  /\ log' = log \cup {handler[h].entry}
  /\ Goto(h, Idle)
  /\ UNCHANGED <<request, outbox, wfHistory>>

(***************************************************************************)
(* Approve: FindByID, then the permission check on the stage it read, then *)
(* the update for that stage.                                              *)
(***************************************************************************)
\* Mutant: the college admin's subtree is not checked.
MayApproveAnywhere(u, wf) ==
  \/ wf.stage = 1 /\ Role[u] = 2
  \/ wf.stage = 2 /\ Role[u] = 1

MayApprove(u, wf) ==
  \/ wf.stage = 1 /\ Role[u] = 2 /\ wf.dept \in Subtree[u]
  \/ wf.stage = 2 /\ Role[u] = 1

ApproveRead(h, u, id) ==
  /\ handler[h] = Idle
  /\ request[id].status = Open
  /\ MayApprove(u, request[id])
  /\ Goto(h, [pc |-> IF request[id].stage = 1 THEN "approve1" ELSE "approve2",
              uid |-> u, id |-> id, wf |-> request[id]])
  /\ UNCHANGED <<request, log, outbox, wfHistory>>

\* Mutant: the UPDATE has no WHERE on status and current_stage.
AlwaysAtStage(id, s) == TRUE

\* UPDATE ... WHERE id=? AND status=1 AND current_stage=?
AtStage(id, s) == request[id].status = Open /\ request[id].stage = s

RejectionUnderWay(id) == \E g \in Handler : handler[g].pc = "reject" /\ handler[g].id = id

ApproveStage1(h) ==
  LET st == handler[h] IN
  /\ st.pc = "approve1"
  /\ AtStage(st.id, 1)
  /\ request' = [request EXCEPT ![st.id].stage = 2]
  /\ Goto(h, [pc |-> "log",
              entry |-> [request |-> st.id, operator |-> st.uid, action |-> "approve1"]])
  /\ overtaken' = overtaken \cup {id \in {st.id} : RejectionUnderWay(id)}
  /\ UNCHANGED <<log, outbox, unlogged>>

\* Mutant: the asset's user is the approver instead of the requester.
EventForApprover(id, uid, wf) ==
  [request |-> id, asset |-> request[id].asset, target |-> TargetStatus[wf.type],
   user |-> AssignedUser(wf.type, uid)]

EventOf(id, uid, wf) ==
  [request |-> id, asset |-> request[id].asset, target |-> TargetStatus[wf.type],
   user |-> AssignedUser(wf.type, wf.requester)]

ApproveStage2AndArchive(h) ==
  LET st == handler[h] IN
  /\ st.pc = "approve2"
  /\ AtStage(st.id, 2)
  /\ request' = [request EXCEPT ![st.id].status = Archived, ![st.id].stage = 3]
  /\ log' = log \cup {[request |-> st.id, operator |-> st.uid, action |-> "approve2"]}
  /\ outbox' = Append(outbox, [event |-> EventOf(st.id, st.uid, st.wf), status |-> 0, retry |-> 0])
  /\ Goto(h, Idle)
  /\ UNCHANGED wfHistory

(***************************************************************************)
(* Reject: the permission check looks at the stage that was read, the      *)
(* UPDATE only at the status.                                              *)
(***************************************************************************)
\* Mutant: the stage is not looked at.
MayRejectAnyStage(u, wf) == Role[u] = 1 \/ (Role[u] = 2 /\ wf.dept \in Subtree[u])

MayReject(u, wf) ==
  /\ wf.stage = 1 => Role[u] = 2 /\ wf.dept \in Subtree[u]
  /\ wf.stage = 2 => Role[u] = 1

RejectRead(h, u, id) ==
  /\ handler[h] = Idle
  /\ request[id].status = Open
  /\ MayReject(u, request[id])
  /\ Goto(h, [pc |-> "reject", uid |-> u, id |-> id, wf |-> request[id]])
  /\ UNCHANGED <<request, log, outbox, wfHistory>>

\* Mutant: UPDATE ... WHERE id=?
AlwaysOpen(id) == TRUE

\* UPDATE ... WHERE id=? AND status=1
StillOpen(id) == request[id].status = Open

RejectAction(wf) == IF wf.stage = 2 THEN "reject2" ELSE "reject1"

Reject(h) ==
  LET st == handler[h] IN
  /\ st.pc = "reject"
  /\ StillOpen(st.id)
  /\ request' = [request EXCEPT ![st.id].status = Rejected]
  /\ Goto(h, [pc |-> "log",
              entry |-> [request |-> st.id, operator |-> st.uid, action |-> RejectAction(st.wf)]])
  /\ UNCHANGED <<log, outbox, wfHistory>>

\* Zero rows affected: ErrInvalidState, nothing is logged.
LoseRace(h) ==
  LET st == handler[h] IN
  /\ \/ st.pc = "approve1" /\ ~AtStage(st.id, 1)
     \/ st.pc = "approve2" /\ ~AtStage(st.id, 2)
     \/ st.pc = "reject" /\ ~StillOpen(st.id)
  /\ Goto(h, Idle)
  /\ UNCHANGED <<request, log, outbox, wfHistory>>

AboutToLog == {h \in Handler : handler[h].pc = "log"}

\* The client is gone, the next statement fails, or the process dies.
Abandon(h) ==
  /\ handler[h] # Idle
  /\ Goto(h, Idle)
  /\ unlogged' = unlogged \cup {handler[g].entry : g \in {h} \cap AboutToLog}
  /\ UNCHANGED <<request, log, outbox, overtaken>>

HandlerStep(h) ==
  \/ Insert(h)
  \/ RefuseDuplicate(h)
  \/ InsertLog(h)
  \/ ApproveStage1(h)
  \/ ApproveStage2AndArchive(h)
  \/ Reject(h)
  \/ LoseRace(h)

ReviewRead(h, u) ==
  \E id \in DOMAIN request : ApproveRead(h, u, id) \/ RejectRead(h, u, id)

WfNext ==
  \E h \in Handler :
    \/ \E s \in Submission : CreateChecked(h, s)
    \/ \E u \in User : ReviewRead(h, u)
    \/ HandlerStep(h)
    \/ Abandon(h)

WfSpec == WfInit /\ [][WfNext]_wfVars

-------------------------------------------------------------------------------
(***************************************************************************)
(* Properties                                                              *)
(***************************************************************************)
\* The tables and the handlers hold what their columns and fields may hold,
\* and a handler only works on a request that exists.
WfTypeOK ==
  /\ DOMAIN request \subseteq Request
  /\ \A r \in DOMAIN request : request[r] \in RequestRow
  /\ log \subseteq LogEntry
  /\ outbox \in Seq(OutboxRow)
  /\ handler \in [Handler -> HandlerState]
  /\ \A h \in Handler :
       handler[h].pc \in {"approve1", "approve2", "reject"} => handler[h].id \in DOMAIN request
  /\ overtaken \subseteq Request
  /\ unlogged \subseteq LogEntry

\* However many handlers passed asset-rpc's check for the same asset, at most
\* one of their requests is open (uk_asset_open_request).
OneOpenPerAsset ==
  \A q, r \in DOMAIN request :
    /\ request[q].status = Open
    /\ request[r].status = Open
    /\ request[q].asset = request[r].asset
    => q = r

\* What the event of an archived request must say.
EventMatches(ev, row) ==
  /\ ev.asset = row.asset
  /\ ev.target = TargetStatus[row.type]
  /\ ev.user = AssignedUser(row.type, row.requester)

\* The outbox holds exactly one event for every archived request, the right
\* one, and none for any other request: neither two racing final approvals nor
\* an approval racing a rejection may queue a second or an unwarranted event.
EventIffArchived ==
  /\ \A i \in DOMAIN outbox :
       LET ev == outbox[i].event IN
       /\ ev.request \in DOMAIN request
       /\ request[ev.request].status = Archived
       /\ EventMatches(ev, request[ev.request])
  /\ \A i, j \in DOMAIN outbox : outbox[i].event.request = outbox[j].event.request => i = j
  /\ \A r \in DOMAIN request :
       request[r].status = Archived => \E i \in DOMAIN outbox : outbox[i].event.request = r

IsReject(e) == e.action \in {"reject1", "reject2"}

\* What the entry says did happen to the request.  A rejected row keeps the stage
\* it was rejected at (current_stage is not written): a rejection logged as the
\* college's may be found on a request of the school's stage, but only if it was
\* forwarded between the read and the update of the rejection.
Truthful(e) ==
  LET row == request[e.request] IN
  /\ e.request \in DOMAIN request
  /\ e.action = "approve1" => row.stage >= 2
  /\ e.action = "reject1" => row.stage = 1 \/ (row.stage = 2 /\ e.request \in overtaken)
  /\ e.action = "reject2" => row.stage = 2
  /\ IsReject(e) => row.status = Rejected
  /\ e.action = "approve2" => row.status = Archived

\* Entries that are written, or will be, or were lost with their handler.
Entries == log \cup unlogged \cup {handler[h].entry : h \in AboutToLog}

Accounted(r, actions) == \E e \in Entries : e.request = r /\ e.action \in actions

LogIsTrue ==
  /\ \A e \in log : Truthful(e)
  /\ \A d, e \in log : d.request = e.request /\ IsReject(d) /\ IsReject(e) => d = e
  /\ \A r \in DOMAIN request :
       request[r].status = Archived => \E e \in log : e.request = r /\ e.action = "approve2"

NothingMissing ==
  \A r \in DOMAIN request :
    /\ Accounted(r, {"submit"})
    /\ request[r].stage >= 2 => Accounted(r, {"approve1"})
    /\ request[r].status = Rejected => Accounted(r, {"reject1", "reject2"})

\* The audit trail says what happened, and all of it but for handlers abandoned
\* between their update and its log entry: an entry is only there for a step the
\* request took, a request is rejected at most once on record, the final approval
\* is logged exactly when it is in force, and a submission, a forwarding or a
\* rejection missing from the log is about to be logged or was abandoned.
AuditTruthful == LogIsTrue /\ NothingMissing

OfCollege(u, row) == Role[u] = 2 /\ row.dept \in Subtree[u]

\* The operator of the entry was entitled to the step, at the stage the request
\* was in when it was taken.
Signed(e) ==
  LET row == request[e.request] IN
  /\ e.action = "submit" => e.operator = row.requester
  /\ e.action = "approve1" => OfCollege(e.operator, row)
  /\ e.action = "approve2" => Role[e.operator] = 1
  /\ IsReject(e) /\ row.stage = 1 => OfCollege(e.operator, row)
  /\ IsReject(e) /\ row.stage = 2 =>
       Role[e.operator] = 1 \/ (e.request \in overtaken /\ OfCollege(e.operator, row))

\* Nobody is on record for a step that was not theirs to take at the stage where
\* it took effect: college steps are signed by a college admin of the request's
\* department, school steps by a school admin, the submission by the requester.
\* The one exception is a college admin's rejection that the forwarding of the
\* request overtook.
SignedByAuthority == \A e \in log : Signed(e)

\* What the rules say without that exception: a request that has gone to the
\* school is turned down by the school only (doc/04-workflow-rules.md:32-33).
SchoolStageIsTheSchools ==
  \A e \in log :
    IsReject(e) /\ request[e.request].stage = 2 => Role[e.operator] = 1

Reviewing(h) == handler[h].pc \in {"approve1", "approve2", "reject"}

SameSubmission(p, q) ==
  p.asset = q.asset /\ p.requester = q.requester /\ p.dept = q.dept /\ p.type = q.type

\* A snapshot is the request itself at this or an earlier stage, read by somebody
\* entitled to review it there.
SnapshotAgrees(h) ==
  LET st == handler[h]
      row == request[st.id] IN
  /\ SameSubmission(st.wf, row)
  /\ st.wf.stage \in 1 .. 2
  /\ st.wf.stage <= row.stage
  /\ st.pc = "reject" /\ st.wf.stage = 1 /\ row.stage >= 2 => st.id \in overtaken
  /\ st.pc = "approve1" => st.wf.stage = 1
  /\ st.pc = "approve2" => st.wf.stage = 2
  /\ IF st.pc = "reject" THEN MayReject(st.uid, st.wf) ELSE MayApprove(st.uid, st.wf)

\* A log entry still to be written is true, and no other handler is about to log,
\* or has logged, a rejection of the same request.
PendingAgrees(h) ==
  LET e == handler[h].entry IN
  /\ Truthful(e)
  /\ Signed(e)
  /\ IsReject(e) =>
       /\ \A d \in log : d.request = e.request => ~IsReject(d)
       /\ \A g \in Handler \ {h} :
            handler[g].pc = "log" /\ handler[g].entry.request = e.request
              => ~IsReject(handler[g].entry)

\* What a handler carries from one statement to the next never misleads it,
\* whatever the other handlers did in between.
HandlersTruthful ==
  \A h \in Handler :
    /\ Reviewing(h) => SnapshotAgrees(h)
    /\ handler[h].pc = "log" => PendingAgrees(h)

PhaseOf(row) ==
  CASE row.status = Archived -> "archived"
    [] row.status = Rejected -> "rejected"
    [] row.status = Open /\ row.stage = 1 -> "college"
    [] OTHER -> "school"

Promise == INSTANCE Approval WITH
  phase  <- [r \in DOMAIN request |-> PhaseOf(request[r])],
  target <- [r \in DOMAIN request |-> request[r].asset],
  queued <- [i \in DOMAIN outbox |-> outbox[i].event.request]

\* The handlers, with all their interleavings, implement the approval protocol.
ImplementsApproval == Promise!Spec
===============================================================================
