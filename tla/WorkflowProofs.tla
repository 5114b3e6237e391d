---------------------------- MODULE WorkflowProofs ----------------------------
(***************************************************************************)
(* The invariants of Workflow, for any number of requests, assets, users   *)
(* and concurrent handlers.                                                *)
(***************************************************************************)
EXTENDS Workflow, TLAPS

-------------------------------------------------------------------------------
(***************************************************************************)
(* Records and rows                                                        *)
(***************************************************************************)
\* A handler's program counter tells which fields it carries.
LEMMA HandlerCases ==
  ASSUME WfTypeOK, NEW h \in Handler
  PROVE  /\ handler[h].pc = "insert" => handler[h].row \in RequestRow
         /\ Reviewing(h) => /\ handler[h].uid \in User
                            /\ handler[h].id \in DOMAIN request
                            /\ handler[h].wf \in RequestRow
                            /\ request[handler[h].id] \in RequestRow
         /\ handler[h].pc = "log" => handler[h].entry \in LogEntry
<1>1. handler[h] \in HandlerState
  BY DEF WfTypeOK
<1>. QED
  BY <1>1 DEF WfTypeOK, Reviewing, HandlerState, Idle

\* Inserting a row under a fresh id adds it and leaves the others alone.
LEMMA InsertRowEffect ==
  ASSUME NEW table, NEW id, id \notin DOMAIN table, NEW row
  PROVE  LET t == InsertRow(table, id, row) IN
         /\ DOMAIN t = DOMAIN table \cup {id}
         /\ t[id] = row
         /\ \A x \in DOMAIN table : t[x] = table[x]
BY DEF InsertRow

\* What the UPDATE statements leave in a row is a row.
LEMMA RowUpdates ==
  ASSUME NEW row \in RequestRow
  PROVE  /\ [row EXCEPT !.stage = 2] \in RequestRow
         /\ [row EXCEPT !.status = Rejected] \in RequestRow
         /\ [row EXCEPT !.status = Archived, !.stage = 3] \in RequestRow
<1>1. [row EXCEPT !.stage = 2] \in RequestRow
  BY DEF RequestRow
<1>2. [row EXCEPT !.status = Rejected] \in RequestRow
  BY DEF RequestRow
<1>3. PICK q \in RequestRow : q = [row EXCEPT !.status = Archived]
  BY DEF RequestRow
<1>4. [q EXCEPT !.stage = 3] \in RequestRow
  BY DEF RequestRow
<1>5. [row EXCEPT !.status = Archived, !.stage = 3] = [q EXCEPT !.stage = 3]
  BY <1>3 DEF RequestRow
<1>. QED
  BY <1>1, <1>2, <1>4, <1>5

\* A submission becomes a row of the table.
LEMMA NewRowType ==
  ASSUME NEW s \in Submission
  PROVE  NewRow(s) \in RequestRow
BY SubmissionAssumption DEF NewRow, RequestRow, Open

-------------------------------------------------------------------------------
(***************************************************************************)
(* Type correctness                                                        *)
(***************************************************************************)
\* An event queued by the final approval of a request of the table is an event.
LEMMA EventType ==
  ASSUME NEW id \in Request, NEW uid \in User, NEW wf \in RequestRow, request[id] \in RequestRow
  PROVE  EventOf(id, uid, wf) \in Event
<1>1. TargetStatus[wf.type] \in AssetStatus
  BY DEF RequestRow, RequestType, TargetStatus, AssetStatus, Use, Return, Repair, Scrap,
         InStock, InUse, InRepair, Scrapped
<1>2. AssignedUser(wf.type, wf.requester) \in User \cup {Nobody}
  BY DEF RequestRow, AssignedUser
<1>. QED
  BY <1>1, <1>2 DEF EventOf, Event, RequestRow

LEMMA WfTypeInit == WfInit => WfTypeOK
BY DEF WfInit, WfTypeOK, NoRows, HandlerState, Idle

\* A handler moves on; the others stay where they are.
LEMMA GotoEffect ==
  ASSUME WfTypeOK, NEW h \in Handler, NEW state, Goto(h, state)
  PROVE  /\ handler'[h] = state
         /\ \A g \in Handler : g # h => handler'[g] = handler[g]
BY DEF WfTypeOK, Goto

\* What remains to be shown of a step for the types.
LEMMA TypedStep ==
  ASSUME WfTypeOK,
         NEW h \in Handler, NEW state \in HandlerState, Goto(h, state),
         state.pc \in {"approve1", "approve2", "reject"} => state.id \in DOMAIN request',
         DOMAIN request \subseteq DOMAIN request', DOMAIN request' \subseteq Request,
         \A r \in DOMAIN request' : request'[r] \in RequestRow,
         log' \subseteq LogEntry,
         outbox' \in Seq(OutboxRow),
         overtaken' \subseteq Request, unlogged' \subseteq LogEntry
  PROVE  WfTypeOK'
<1>1. handler' \in [Handler -> HandlerState]
  BY DEF WfTypeOK, Goto
<1>2. \A g \in Handler :
        handler'[g].pc \in {"approve1", "approve2", "reject"} => handler'[g].id \in DOMAIN request'
  BY GotoEffect DEF WfTypeOK
<1>. QED
  BY <1>1, <1>2 DEF WfTypeOK

\* Changing one row leaves the table's ids as they are.
LEMMA UpdateTyped ==
  ASSUME WfTypeOK, NEW id \in DOMAIN request, NEW row \in RequestRow,
         request' = [request EXCEPT ![id] = row]
  PROVE  /\ DOMAIN request' = DOMAIN request
         /\ \A r \in DOMAIN request' : request'[r] \in RequestRow
BY DEF WfTypeOK

LEMMA WfTypeStep == WfTypeOK /\ [WfNext]_wfVars => WfTypeOK'
<1>. SUFFICES ASSUME WfTypeOK, [WfNext]_wfVars
              PROVE  WfTypeOK'
  OBVIOUS
<1>0. /\ DOMAIN request \subseteq Request
      /\ \A r \in DOMAIN request : request[r] \in RequestRow
      /\ log \subseteq LogEntry
      /\ outbox \in Seq(OutboxRow)
      /\ overtaken \subseteq Request
      /\ unlogged \subseteq LogEntry
  BY DEF WfTypeOK
<1>a. Idle \in HandlerState /\ Idle.pc = "idle"
  BY DEF HandlerState, Idle
<1>b. \A e \in LogEntry : [pc |-> "log", entry |-> e] \in HandlerState
  BY DEF HandlerState
<1>1. ASSUME NEW h \in Handler, NEW s \in Submission, CreateChecked(h, s)
      PROVE  WfTypeOK'
  <2>1. [pc |-> "insert", row |-> NewRow(s)] \in HandlerState
    BY NewRowType DEF HandlerState
  <2>. QED
    BY <1>0, <1>1, <2>1, TypedStep DEF CreateChecked, wfHistory
<1>2. ASSUME NEW h \in Handler, NEW u \in User, NEW id \in DOMAIN request,
             ApproveRead(h, u, id) \/ RejectRead(h, u, id)
      PROVE  WfTypeOK'
  <2>1. PICK pc \in {"approve1", "approve2", "reject"} :
          Goto(h, [pc |-> pc, uid |-> u, id |-> id, wf |-> request[id]])
    BY <1>2 DEF ApproveRead, RejectRead
  <2>2. [pc |-> pc, uid |-> u, id |-> id, wf |-> request[id]] \in HandlerState
    BY <1>0 DEF HandlerState
  <2>3. UNCHANGED <<request, log, outbox, overtaken, unlogged>>
    BY <1>2 DEF ApproveRead, RejectRead, wfHistory
  <2>. QED
    BY <1>0, <2>1, <2>2, <2>3, TypedStep
<1>3. ASSUME NEW h \in Handler, Insert(h)
      PROVE  WfTypeOK'
  <2>1. handler[h].row \in RequestRow
    BY <1>3, HandlerCases DEF Insert
  <2>2. PICK id \in Request \ DOMAIN request :
          /\ request' = InsertRow(request, id, handler[h].row)
          /\ Goto(h, [pc |-> "log",
                      entry |-> [request |-> id, operator |-> handler[h].row.requester,
                                 action |-> "submit"]])
    BY <1>3 DEF Insert
  <2>3. [request |-> id, operator |-> handler[h].row.requester, action |-> "submit"] \in LogEntry
    BY <2>1 DEF LogEntry, RequestRow
  <2>4. /\ DOMAIN request' = DOMAIN request \cup {id}
        /\ \A r \in DOMAIN request' : request'[r] \in RequestRow
    BY <1>0, <2>1, <2>2 DEF InsertRow
  <2>5. UNCHANGED <<log, outbox, overtaken, unlogged>>
    BY <1>3 DEF Insert, wfHistory
  <2>. QED
    BY <1>0, <1>b, <2>2, <2>3, <2>4, <2>5, TypedStep
<1>4. ASSUME NEW h \in Handler, RefuseDuplicate(h) \/ LoseRace(h) \/ Abandon(h)
      PROVE  WfTypeOK'
  <2>1. Goto(h, Idle) /\ UNCHANGED <<request, log, outbox, overtaken>>
    BY <1>4 DEF RefuseDuplicate, LoseRace, Abandon, wfHistory
  <2>2. unlogged' \subseteq LogEntry
    BY <1>0, <1>4, HandlerCases DEF RefuseDuplicate, LoseRace, Abandon, wfHistory, AboutToLog
  <2>. QED
    BY <1>0, <1>a, <2>1, <2>2, TypedStep
<1>5. ASSUME NEW h \in Handler, InsertLog(h)
      PROVE  WfTypeOK'
  <2>1. handler[h].entry \in LogEntry
    BY <1>5, HandlerCases DEF InsertLog
  <2>. QED
    BY <1>0, <1>a, <1>5, <2>1, TypedStep DEF InsertLog, wfHistory
<1>6. ASSUME NEW h \in Handler, ApproveStage1(h)
      PROVE  WfTypeOK'
  <2>1. /\ handler[h].id \in DOMAIN request
        /\ request[handler[h].id] \in RequestRow
        /\ handler[h].uid \in User
    BY <1>6, HandlerCases DEF ApproveStage1, Reviewing
  <2>2. [request[handler[h].id] EXCEPT !.stage = 2] \in RequestRow
    BY <2>1, RowUpdates
  <2>3. request' = [request EXCEPT ![handler[h].id] = [request[handler[h].id] EXCEPT !.stage = 2]]
    BY <1>6 DEF ApproveStage1
  <2>4. [request |-> handler[h].id, operator |-> handler[h].uid, action |-> "approve1"] \in LogEntry
    BY <1>0, <2>1 DEF LogEntry
  <2>5. /\ Goto(h, [pc |-> "log", entry |-> [request |-> handler[h].id,
                    operator |-> handler[h].uid, action |-> "approve1"]])
        /\ UNCHANGED <<log, outbox, unlogged>>
    BY <1>6 DEF ApproveStage1
  <2>6. overtaken' \subseteq Request
    BY <1>0, <1>6, <2>1 DEF ApproveStage1
  <2>. QED
    BY <2>6, <1>0, <1>b, <2>1, <2>2, <2>3, <2>4, <2>5, UpdateTyped, TypedStep
<1>7. ASSUME NEW h \in Handler, ApproveStage2AndArchive(h)
      PROVE  WfTypeOK'
  <2>1. /\ handler[h].id \in DOMAIN request
        /\ request[handler[h].id] \in RequestRow
        /\ handler[h].uid \in User
        /\ handler[h].wf \in RequestRow
    BY <1>7, HandlerCases DEF ApproveStage2AndArchive, Reviewing
  <2>2. [request[handler[h].id] EXCEPT !.status = Archived, !.stage = 3] \in RequestRow
    BY <2>1, RowUpdates
  <2>3. request' = [request EXCEPT ![handler[h].id] =
                     [request[handler[h].id] EXCEPT !.status = Archived, !.stage = 3]]
    BY <1>7 DEF ApproveStage2AndArchive
  <2>4. [event |-> EventOf(handler[h].id, handler[h].uid, handler[h].wf), status |-> 0, retry |-> 0]
          \in OutboxRow
    BY <1>0, <2>1, EventType DEF OutboxRow
  <2>5. outbox' \in Seq(OutboxRow)
    BY <1>0, <1>7, <2>4 DEF ApproveStage2AndArchive
  <2>6. log' \subseteq LogEntry
    BY <1>0, <1>7, <2>1 DEF ApproveStage2AndArchive, LogEntry
  <2>7. Goto(h, Idle) /\ UNCHANGED <<overtaken, unlogged>>
    BY <1>7 DEF ApproveStage2AndArchive, wfHistory
  <2>. QED
    BY <1>0, <1>a, <2>1, <2>2, <2>3, <2>5, <2>6, <2>7, UpdateTyped, TypedStep
<1>8. ASSUME NEW h \in Handler, Reject(h)
      PROVE  WfTypeOK'
  <2>1. /\ handler[h].id \in DOMAIN request
        /\ request[handler[h].id] \in RequestRow
        /\ handler[h].uid \in User
    BY <1>8, HandlerCases DEF Reject, Reviewing
  <2>2. [request[handler[h].id] EXCEPT !.status = Rejected] \in RequestRow
    BY <2>1, RowUpdates
  <2>3. request' = [request EXCEPT ![handler[h].id] =
                     [request[handler[h].id] EXCEPT !.status = Rejected]]
    BY <1>8 DEF Reject
  <2>4. PICK e \in LogEntry : Goto(h, [pc |-> "log", entry |-> e])
    BY <1>0, <1>8, <2>1 DEF Reject, LogEntry, RejectAction
  <2>5. UNCHANGED <<log, outbox, overtaken, unlogged>>
    BY <1>8 DEF Reject, wfHistory
  <2>. QED
    BY <1>0, <1>b, <2>1, <2>2, <2>3, <2>4, <2>5, UpdateTyped, TypedStep
<1>9. CASE UNCHANGED wfVars
  BY <1>9 DEF wfVars, wfHistory, WfTypeOK, AboutToLog
<1>. QED
  BY <1>1, <1>2, <1>3, <1>4, <1>5, <1>6, <1>7, <1>8, <1>9
  DEF WfNext, HandlerStep, ReviewRead

\* Tables, outbox and handlers are well-formed in every reachable state.
THEOREM WfTypeCorrect == WfSpec => []WfTypeOK
BY WfTypeInit, WfTypeStep, PTL DEF WfSpec

-------------------------------------------------------------------------------
(***************************************************************************)
(* Requests only move forward.                                             *)
(***************************************************************************)
\* What a step may do to a row: advance its stage, settle it if it is open.
Advances(p, q) ==
  /\ SameSubmission(p, q)
  /\ p.stage <= q.stage
  /\ p.status # Open => q = p

RowsAdvance ==
  \A r \in DOMAIN request : r \in DOMAIN request' /\ Advances(request[r], request'[r])

\* A request that leaves the college stage is noted if a rejection of it is under
\* way, and stays noted.
ForwardingNoted ==
  /\ overtaken \subseteq overtaken'
  /\ \A g \in Handler :
       LET id == handler[g].id IN
       handler[g].pc = "reject" /\ request[id].stage = 1 /\ request'[id].stage >= 2
         => id \in overtaken'

AllAdvance == RowsAdvance /\ ForwardingNoted

\* One row is replaced by one it may become.
LEMMA OneAdvances ==
  ASSUME WfTypeOK, NEW id \in DOMAIN request, NEW row, Advances(request[id], row),
         request' = [request EXCEPT ![id] = row]
  PROVE  RowsAdvance
<1>1. \A r \in DOMAIN request : request[r] \in RequestRow
  BY DEF WfTypeOK
<1>2. \A r \in DOMAIN request : Advances(request[r], request[r])
  BY <1>1 DEF Advances, SameSubmission, RequestRow
<1>. QED
  BY <1>2 DEF RowsAdvance

\* A table that stays as it is advances.
LEMMA NoneAdvances ==
  ASSUME WfTypeOK, UNCHANGED request
  PROVE  RowsAdvance
BY DEF WfTypeOK, RowsAdvance, Advances, SameSubmission, RequestRow

LEMMA RowsStep == WfTypeOK /\ [WfNext]_wfVars => RowsAdvance
<1>. SUFFICES ASSUME WfTypeOK, [WfNext]_wfVars
              PROVE  RowsAdvance
  OBVIOUS
<1>1. CASE UNCHANGED request
  BY <1>1, NoneAdvances
<1>2. ASSUME NEW h \in Handler, Insert(h)
      PROVE  RowsAdvance
  <2>1. PICK id \in Request \ DOMAIN request : request' = InsertRow(request, id, handler[h].row)
    BY <1>2 DEF Insert
  <2>. QED
    BY <2>1 DEF WfTypeOK, InsertRow, RowsAdvance, Advances, SameSubmission, RequestRow
<1>3. ASSUME NEW h \in Handler, ApproveStage1(h) \/ ApproveStage2AndArchive(h) \/ Reject(h)
      PROVE  RowsAdvance
  <2>. DEFINE id == handler[h].id
  <2>1. id \in DOMAIN request /\ request[id] \in RequestRow
    BY <1>3, HandlerCases DEF ApproveStage1, ApproveStage2AndArchive, Reject, Reviewing
  <2>2. CASE ApproveStage1(h)
    <3>1. Advances(request[id], [request[id] EXCEPT !.stage = 2])
      BY <2>1, <2>2 DEF ApproveStage1, AtStage, Advances, SameSubmission, RequestRow
    <3>2. request' = [request EXCEPT ![id] = [request[id] EXCEPT !.stage = 2]]
      BY <2>2 DEF ApproveStage1
    <3>. QED
      BY <2>1, <3>1, <3>2, OneAdvances
  <2>3. CASE ApproveStage2AndArchive(h)
    <3>1. Advances(request[id], [request[id] EXCEPT !.status = Archived, !.stage = 3])
      BY <2>1, <2>3 DEF ApproveStage2AndArchive, AtStage, Advances, SameSubmission, RequestRow
    <3>2. request' = [request EXCEPT ![id] = [request[id] EXCEPT !.status = Archived, !.stage = 3]]
      BY <2>3 DEF ApproveStage2AndArchive
    <3>. QED
      BY <2>1, <3>1, <3>2, OneAdvances
  <2>4. CASE Reject(h)
    <3>1. Advances(request[id], [request[id] EXCEPT !.status = Rejected])
      BY <2>1, <2>4 DEF Reject, StillOpen, Advances, SameSubmission, RequestRow
    <3>2. request' = [request EXCEPT ![id] = [request[id] EXCEPT !.status = Rejected]]
      BY <2>4 DEF Reject
    <3>. QED
      BY <2>1, <3>1, <3>2, OneAdvances
  <2>. QED
    BY <1>3, <2>2, <2>3, <2>4
<1>. QED
  BY <1>1, <1>2, <1>3
  DEF WfNext, wfVars, HandlerStep, ReviewRead, CreateChecked, ApproveRead, RejectRead,
      RefuseDuplicate, InsertLog, LoseRace, Abandon

LEMMA NotedStep == WfTypeOK /\ [WfNext]_wfVars => ForwardingNoted
<1>. SUFFICES ASSUME WfTypeOK, [WfNext]_wfVars
              PROVE  ForwardingNoted
  OBVIOUS
<1>0. \A g \in Handler :
        handler[g].pc = "reject" => handler[g].id \in DOMAIN request /\ request[handler[g].id] \in RequestRow
  BY HandlerCases DEF Reviewing
<1>1. CASE UNCHANGED <<request, overtaken>>
  BY <1>0, <1>1 DEF ForwardingNoted, RequestRow
<1>2. ASSUME NEW h \in Handler, Insert(h)
      PROVE  ForwardingNoted
  <2>1. PICK id \in Request \ DOMAIN request : request' = InsertRow(request, id, handler[h].row)
    BY <1>2 DEF Insert
  <2>2. \A r \in DOMAIN request : request'[r] = request[r]
    BY <2>1 DEF InsertRow
  <2>3. UNCHANGED overtaken
    BY <1>2 DEF Insert, wfHistory
  <2>. QED
    BY <1>0, <2>2, <2>3 DEF ForwardingNoted, RequestRow
<1>3. ASSUME NEW h \in Handler, ApproveStage1(h)
      PROVE  ForwardingNoted
  <2>1. overtaken' = overtaken \cup {id \in {handler[h].id} : RejectionUnderWay(id)}
    BY <1>3 DEF ApproveStage1
  <2>2. \A r \in DOMAIN request : r # handler[h].id => request'[r] = request[r]
    BY <1>3 DEF ApproveStage1
  <2>3. \A g \in Handler : handler[g].pc = "reject" => RejectionUnderWay(handler[g].id)
    BY DEF RejectionUnderWay
  <2>. QED
    BY <1>0, <2>1, <2>2, <2>3 DEF ForwardingNoted, RequestRow
<1>4. ASSUME NEW h \in Handler, ApproveStage2AndArchive(h) \/ Reject(h)
      PROVE  ForwardingNoted
  <2>. DEFINE id == handler[h].id
  <2>1. id \in DOMAIN request /\ request[id] \in RequestRow
    BY <1>4, HandlerCases DEF ApproveStage2AndArchive, Reject, Reviewing
  <2>2. UNCHANGED overtaken
    BY <1>4 DEF ApproveStage2AndArchive, Reject, wfHistory
  <2>3. \A r \in DOMAIN request : r # id => request'[r] = request[r]
    BY <1>4 DEF ApproveStage2AndArchive, Reject
  <2>4. request[id].stage = 1 => request'[id].stage = 1
    BY <1>4, <2>1 DEF ApproveStage2AndArchive, AtStage, Reject, RequestRow
  <2>. QED
    BY <1>0, <2>2, <2>3, <2>4 DEF ForwardingNoted, RequestRow
<1>. QED
  BY <1>1, <1>2, <1>3, <1>4
  DEF WfNext, wfVars, wfHistory, HandlerStep, ReviewRead, CreateChecked, ApproveRead, RejectRead,
      RefuseDuplicate, InsertLog, LoseRace, Abandon

LEMMA StepAdvances == WfTypeOK /\ [WfNext]_wfVars => AllAdvance
BY RowsStep, NotedStep DEF AllAdvance

-------------------------------------------------------------------------------
(***************************************************************************)
(* One open request per asset                                              *)
(***************************************************************************)
LEMMA OneOpenStep ==
  WfTypeOK /\ OneOpenPerAsset /\ [WfNext]_wfVars => OneOpenPerAsset'
<1>. SUFFICES ASSUME WfTypeOK, OneOpenPerAsset, [WfNext]_wfVars
              PROVE  OneOpenPerAsset'
  OBVIOUS
<1>1. AllAdvance
  BY StepAdvances
<1>2. CASE DOMAIN request' = DOMAIN request
  BY <1>1, <1>2 DEF OneOpenPerAsset, AllAdvance, RowsAdvance, Advances, SameSubmission
<1>3. ASSUME NEW h \in Handler, Insert(h)
      PROVE  OneOpenPerAsset'
  <2>1. PICK id \in Request \ DOMAIN request : request' = InsertRow(request, id, handler[h].row)
    BY <1>3 DEF Insert
  <2>2. /\ DOMAIN request' = DOMAIN request \cup {id}
        /\ request'[id] = handler[h].row
        /\ \A r \in DOMAIN request : request'[r] = request[r]
    BY <2>1 DEF InsertRow
  <2>3. \A r \in DOMAIN request :
          ~(request[r].asset = handler[h].row.asset /\ request[r].status = Open)
    BY <1>3 DEF Insert, HasOpenRequest
  <2>. QED
    BY <2>2, <2>3 DEF OneOpenPerAsset
<1>4. ASSUME NEW h \in Handler, ApproveStage1(h) \/ ApproveStage2AndArchive(h) \/ Reject(h)
      PROVE  DOMAIN request' = DOMAIN request
  BY <1>4 DEF ApproveStage1, ApproveStage2AndArchive, Reject
<1>. QED
  BY <1>2, <1>3, <1>4
  DEF WfNext, wfVars, HandlerStep, ReviewRead, CreateChecked, ApproveRead, RejectRead,
      RefuseDuplicate, InsertLog, LoseRace, Abandon

\* However many handlers race, an asset never has two open requests: this rests on
\* the partial unique index alone.
THEOREM OneOpenPerAssetHolds == WfSpec => []OneOpenPerAsset
<1>1. WfInit => OneOpenPerAsset
  BY DEF WfInit, OneOpenPerAsset, NoRows
<1>. QED
  BY <1>1, OneOpenStep, WfTypeInit, WfTypeStep, PTL DEF WfSpec

-------------------------------------------------------------------------------
(***************************************************************************)
(* The inductive invariant                                                 *)
(***************************************************************************)
\* What a handler is about to insert is open, at the first stage.
InsertsFresh ==
  \A h \in Handler : handler[h].pc = "insert" => handler[h].row.status = Open /\ handler[h].row.stage = 1

\* Stage 3 is reached by archiving only.
StageThreeArchived ==
  \A r \in DOMAIN request : request[r].stage = 3 <=> request[r].status = Archived

WfInv ==
  /\ WfTypeOK
  /\ InsertsFresh
  /\ StageThreeArchived
  /\ HandlersTruthful
  /\ LogIsTrue
  /\ NothingMissing
  /\ SignedByAuthority
  /\ EventIffArchived

LEMMA WfInvInit == WfInit => WfInv
BY WfTypeInit
DEF WfInit, WfInv, NoRows, Idle, InsertsFresh, StageThreeArchived, HandlersTruthful, Reviewing,
    LogIsTrue, NothingMissing, SignedByAuthority, EventIffArchived

LEMMA InsertsFreshStep == WfInv /\ [WfNext]_wfVars => InsertsFresh'
<1>. SUFFICES ASSUME WfInv, [WfNext]_wfVars
              PROVE  InsertsFresh'
  OBVIOUS
<1>1. ASSUME NEW h \in Handler, NEW state, Goto(h, state),
             state.pc = "insert" => state.row.status = Open /\ state.row.stage = 1
      PROVE  InsertsFresh'
  BY <1>1, GotoEffect DEF WfInv, InsertsFresh
<1>2. \A s \in Submission : NewRow(s).status = Open /\ NewRow(s).stage = 1
  BY DEF NewRow
<1>3. CASE UNCHANGED wfVars
  BY <1>3 DEF wfVars, WfInv, InsertsFresh
<1>4. ASSUME NEW h \in Handler, NEW s \in Submission, CreateChecked(h, s)
      PROVE  InsertsFresh'
  BY <1>1, <1>2, <1>4 DEF CreateChecked
<1>5. ASSUME NEW h \in Handler, NEW state, Goto(h, state), state.pc # "insert"
      PROVE  InsertsFresh'
  BY <1>1, <1>5
<1>6. ASSUME NEW h \in Handler, HandlerStep(h) \/ Abandon(h)
      PROVE  InsertsFresh'
  BY <1>5, <1>6
  DEF HandlerStep, Insert, RefuseDuplicate, InsertLog, ApproveStage1, ApproveStage2AndArchive,
      Reject, LoseRace, Abandon, Idle
<1>7. ASSUME NEW h \in Handler, NEW u \in User, ReviewRead(h, u)
      PROVE  InsertsFresh'
  BY <1>5, <1>7 DEF ReviewRead, ApproveRead, RejectRead
<1>. QED
  BY <1>3, <1>4, <1>6, <1>7 DEF WfNext

LEMMA StageThreeStep == WfInv /\ [WfNext]_wfVars => StageThreeArchived'
<1>. SUFFICES ASSUME WfInv, [WfNext]_wfVars
              PROVE  StageThreeArchived'
  OBVIOUS
<1>. USE DEF WfInv, StageThreeArchived
<1>1. CASE UNCHANGED request
  BY <1>1
<1>2. ASSUME NEW h \in Handler, Insert(h)
      PROVE  StageThreeArchived'
  BY <1>2 DEF Insert, InsertRow, InsertsFresh, Open, Archived
<1>3. ASSUME NEW h \in Handler, ApproveStage1(h) \/ ApproveStage2AndArchive(h) \/ Reject(h)
      PROVE  StageThreeArchived'
  <2>1. handler[h].id \in DOMAIN request /\ request[handler[h].id] \in RequestRow
    BY <1>3, HandlerCases DEF ApproveStage1, ApproveStage2AndArchive, Reject, Reviewing
  <2>2. CASE ApproveStage1(h)
    BY <2>1, <2>2 DEF ApproveStage1, AtStage, RequestRow, Open, Archived
  <2>3. CASE ApproveStage2AndArchive(h)
    <3>1. request' = [request EXCEPT ![handler[h].id] =
                       [request[handler[h].id] EXCEPT !.status = Archived, !.stage = 3]]
      BY <2>3 DEF ApproveStage2AndArchive
    <3>2. request'[handler[h].id].status = Archived /\ request'[handler[h].id].stage = 3
      BY <2>1, <3>1 DEF RequestRow
    <3>3. /\ DOMAIN request' = DOMAIN request
          /\ \A r \in DOMAIN request : r # handler[h].id => request'[r] = request[r]
      BY <3>1
    <3>. QED
      BY <3>2, <3>3
  <2>4. CASE Reject(h)
    BY <2>1, <2>4 DEF Reject, StillOpen, RequestRow, Open, Archived, Rejected
  <2>. QED
    BY <1>3, <2>2, <2>3, <2>4
<1>. QED
  BY <1>1, <1>2, <1>3
  DEF WfNext, wfVars, HandlerStep, ReviewRead, CreateChecked, ApproveRead, RejectRead,
      RefuseDuplicate, InsertLog, LoseRace, Abandon

\* Only the final approval archives a request or queues an event.
LEMMA OnlyArchiveQueues ==
  ASSUME WfInv, [WfNext]_wfVars, \A h \in Handler : ~ApproveStage2AndArchive(h)
  PROVE  /\ outbox' = outbox
         /\ \A r \in DOMAIN request' :
              request'[r].status = Archived => r \in DOMAIN request /\ request[r].status = Archived
<1>1. CASE UNCHANGED <<request, outbox>>
  BY <1>1
<1>2. ASSUME NEW h \in Handler, Insert(h)
      PROVE  /\ outbox' = outbox
             /\ \A r \in DOMAIN request' :
                  request'[r].status = Archived => r \in DOMAIN request /\ request[r].status = Archived
  BY <1>2 DEF Insert, InsertRow, WfInv, InsertsFresh, Open, Archived
<1>3. ASSUME NEW h \in Handler, ApproveStage1(h) \/ Reject(h)
      PROVE  /\ outbox' = outbox
             /\ \A r \in DOMAIN request' :
                  request'[r].status = Archived => r \in DOMAIN request /\ request[r].status = Archived
  <2>1. handler[h].id \in DOMAIN request /\ request[handler[h].id] \in RequestRow
    BY <1>3, HandlerCases DEF ApproveStage1, Reject, Reviewing, WfInv
  <2>2. CASE ApproveStage1(h)
    BY <2>1, <2>2 DEF ApproveStage1, RequestRow
  <2>3. CASE Reject(h)
    BY <2>1, <2>3 DEF Reject, RequestRow, Rejected, Archived
  <2>. QED
    BY <1>3, <2>2, <2>3
<1>. QED
  BY <1>1, <1>2, <1>3
  DEF WfNext, wfVars, HandlerStep, ReviewRead, CreateChecked, ApproveRead, RejectRead,
      RefuseDuplicate, InsertLog, LoseRace, Abandon

-------------------------------------------------------------------------------
(***************************************************************************)
(* Handlers and audit trail                                                *)
(***************************************************************************)
\* What was true of a request stays true as it advances.
LEMMA TruthKept ==
  ASSUME WfTypeOK, WfTypeOK', AllAdvance, NEW e \in LogEntry, Truthful(e)
  PROVE  Truthful(e)'
<1>1. /\ e.request \in DOMAIN request'
      /\ Advances(request[e.request], request'[e.request])
  BY DEF Truthful, AllAdvance, RowsAdvance
<1>2. request[e.request].stage \in 1 .. 3 /\ request'[e.request].stage \in 1 .. 3
  BY <1>1 DEF WfTypeOK, Truthful, RequestRow
<1>3. e.action = "approve1" => request'[e.request].stage >= 2
  BY <1>1, <1>2 DEF Truthful, Advances
<1>4. e.action \in {"reject1", "reject2", "approve2"} => request'[e.request] = request[e.request]
  BY <1>1 DEF Truthful, Advances, IsReject, Open, Rejected, Archived
<1>5. overtaken \subseteq overtaken'
  BY DEF AllAdvance, ForwardingNoted
<1>6. e.action = "reject1" =>
        request'[e.request].stage = 1 \/ (request'[e.request].stage = 2 /\ e.request \in overtaken')
  BY <1>4, <1>5 DEF Truthful
<1>. QED
  BY <1>1, <1>3, <1>4, <1>6 DEF Truthful, IsReject

LEMMA SignatureKept ==
  ASSUME AllAdvance, NEW e \in LogEntry, Truthful(e), Signed(e)
  PROVE  Signed(e)'
<1>1. /\ e.request \in DOMAIN request
      /\ SameSubmission(request[e.request], request'[e.request])
      /\ request[e.request].status # Open => request'[e.request] = request[e.request]
  BY DEF AllAdvance, RowsAdvance, Advances, Truthful
<1>2. overtaken \subseteq overtaken'
  BY DEF AllAdvance, ForwardingNoted
<1>3. IsReject(e) => request'[e.request] = request[e.request]
  BY <1>1 DEF Truthful, Open, Rejected
<1>4. OfCollege(e.operator, request[e.request]) => OfCollege(e.operator, request'[e.request])
  BY <1>1 DEF OfCollege, SameSubmission
<1>. QED
  BY <1>1, <1>2, <1>3, <1>4 DEF SameSubmission, Signed

\* A handler that is not moved keeps an agreeing snapshot.
LEMMA SnapshotKept ==
  ASSUME WfTypeOK, WfTypeOK', AllAdvance, NEW g \in Handler, handler'[g] = handler[g],
         Reviewing(g), SnapshotAgrees(g)
  PROVE  SnapshotAgrees(g)'
<1>1. /\ handler[g].id \in DOMAIN request
      /\ SameSubmission(request[handler[g].id], request'[handler[g].id])
      /\ request[handler[g].id].stage <= request'[handler[g].id].stage
  BY HandlerCases DEF AllAdvance, RowsAdvance, Advances
<1>2. /\ request[handler[g].id].stage \in 1 .. 3
      /\ request'[handler[g].id].stage \in 1 .. 3
  BY <1>1 DEF WfTypeOK, AllAdvance, RowsAdvance, RequestRow
<1>3. handler[g].wf.stage <= request'[handler[g].id].stage
  BY <1>1, <1>2 DEF SnapshotAgrees
<1>4. handler[g].pc = "reject" /\ handler[g].wf.stage = 1 /\ request'[handler[g].id].stage >= 2
        => handler[g].id \in overtaken'
  BY <1>1, <1>2 DEF SnapshotAgrees, AllAdvance, ForwardingNoted
<1>. QED
  BY <1>1, <1>3, <1>4 DEF SnapshotAgrees, SameSubmission, MayReject, MayApprove

\* A handler that is not moved keeps a true entry, if the table advances and nobody
\* else settles the request it is about to log as rejected.
LEMMA PendingKept ==
  ASSUME WfTypeOK, WfTypeOK', AllAdvance, NEW g \in Handler, handler'[g] = handler[g],
         handler[g].pc = "log", PendingAgrees(g),
         IsReject(handler[g].entry) =>
           /\ \A d \in log' \ log : d.request = handler[g].entry.request => ~IsReject(d)
           /\ \A f \in Handler : handler'[f] # handler[f] /\ handler'[f].pc = "log"
                /\ handler'[f].entry.request = handler[g].entry.request
                  => ~IsReject(handler'[f].entry)
  PROVE  PendingAgrees(g)'
<1>1. handler[g].entry \in LogEntry
  BY HandlerCases
<1>2. Truthful(handler[g].entry)' /\ Signed(handler[g].entry)'
  BY <1>1, TruthKept, SignatureKept DEF PendingAgrees
<1>. QED
  BY <1>2 DEF PendingAgrees, IsReject

\* What remains to be shown of a step for the handlers: the state of the handler
\* that moves, and that it does not settle what another one is about to log.
LEMMA HandlersMoved ==
  ASSUME WfInv, WfTypeOK', AllAdvance,
         NEW h \in Handler, NEW state, Goto(h, state),
         Reviewing(h)' => SnapshotAgrees(h)',
         state.pc = "log" => PendingAgrees(h)',
         \A g \in Handler \ {h} : handler[g].pc = "log" /\ IsReject(handler[g].entry) =>
           /\ \A d \in log' \ log : d.request = handler[g].entry.request => ~IsReject(d)
           /\ state.pc = "log" /\ state.entry.request = handler[g].entry.request
                => ~IsReject(state.entry)
  PROVE  HandlersTruthful'
<1>1. /\ handler'[h] = state
      /\ \A g \in Handler : g # h => handler'[g] = handler[g]
  BY GotoEffect DEF WfInv
<1>2. ASSUME NEW g \in Handler, g # h
      PROVE  /\ Reviewing(g)' => SnapshotAgrees(g)'
             /\ handler'[g].pc = "log" => PendingAgrees(g)'
  <2>1. Reviewing(g)' => SnapshotAgrees(g)'
    BY <1>1, <1>2, SnapshotKept DEF WfInv, HandlersTruthful, Reviewing
  <2>2. ASSUME handler'[g].pc = "log"
        PROVE  PendingAgrees(g)'
    <3>1. handler[g].pc = "log" /\ PendingAgrees(g)
      BY <1>1, <1>2, <2>2 DEF WfInv, HandlersTruthful
    <3>. QED
      BY <1>1, <1>2, <3>1, PendingKept DEF WfInv
  <2>. QED
    BY <2>1, <2>2
<1>. QED
  BY <1>1, <1>2 DEF HandlersTruthful

LEMMA HandlersStep == WfInv /\ [WfNext]_wfVars => HandlersTruthful'
<1>. SUFFICES ASSUME WfInv, [WfNext]_wfVars
              PROVE  HandlersTruthful'
  OBVIOUS
<1>1. WfTypeOK /\ WfTypeOK' /\ AllAdvance
  BY WfTypeStep, StepAdvances DEF WfInv
<1>2. ASSUME NEW h \in Handler, NEW state, Goto(h, state), UNCHANGED log,
             state.pc \notin {"approve1", "approve2", "reject", "log"}
      PROVE  HandlersTruthful'
  <2>1. handler'[h] = state
    BY <1>1, <1>2, GotoEffect
  <2>. QED
    BY <1>1, <1>2, <2>1, HandlersMoved DEF Reviewing
<1>3. ASSUME NEW h \in Handler, NEW s \in Submission, CreateChecked(h, s)
      PROVE  HandlersTruthful'
  BY <1>2, <1>3 DEF CreateChecked
<1>4. ASSUME NEW h \in Handler, RefuseDuplicate(h) \/ LoseRace(h) \/ Abandon(h)
      PROVE  HandlersTruthful'
  BY <1>2, <1>4 DEF RefuseDuplicate, LoseRace, Abandon, Idle
<1>5. ASSUME NEW h \in Handler, NEW u \in User, NEW id \in DOMAIN request,
             ApproveRead(h, u, id) \/ RejectRead(h, u, id)
      PROVE  HandlersTruthful'
  <2>1. PICK pc \in {"approve1", "approve2", "reject"} :
          /\ Goto(h, [pc |-> pc, uid |-> u, id |-> id, wf |-> request[id]])
          /\ pc = "approve1" => request[id].stage = 1 /\ MayApprove(u, request[id])
          /\ pc = "approve2" => request[id].stage # 1 /\ MayApprove(u, request[id])
          /\ pc = "reject" => MayReject(u, request[id])
          /\ request[id].status = Open
    BY <1>5 DEF ApproveRead, RejectRead
  <2>2. handler'[h] = [pc |-> pc, uid |-> u, id |-> id, wf |-> request[id]]
    BY <1>1, <2>1, GotoEffect
  <2>3. UNCHANGED <<request, log>>
    BY <1>5 DEF ApproveRead, RejectRead
  <2>4. request[id].stage \in 1 .. 2
    BY <1>1, <2>1 DEF WfTypeOK, RequestRow, WfInv, StageThreeArchived, Open, Archived
  <2>5. SnapshotAgrees(h)'
    BY <2>1, <2>2, <2>3, <2>4 DEF SnapshotAgrees, SameSubmission, MayReject, MayApprove
  <2>. QED
    BY <1>1, <2>1, <2>2, <2>3, <2>5, HandlersMoved
<1>6. ASSUME NEW h \in Handler, Insert(h)
      PROVE  HandlersTruthful'
  <2>1. PICK id \in Request \ DOMAIN request :
          /\ request' = InsertRow(request, id, handler[h].row)
          /\ Goto(h, [pc |-> "log",
                      entry |-> [request |-> id, operator |-> handler[h].row.requester,
                                 action |-> "submit"]])
    BY <1>6 DEF Insert
  <2>2. handler'[h] = [pc |-> "log",
                       entry |-> [request |-> id, operator |-> handler[h].row.requester,
                                  action |-> "submit"]]
    BY <1>1, <2>1, GotoEffect
  <2>3. id \in DOMAIN request' /\ request'[id] = handler[h].row
    BY <2>1 DEF InsertRow
  <2>4. PendingAgrees(h)'
    BY <2>2, <2>3 DEF PendingAgrees, Truthful, Signed, IsReject
  <2>5. ~Reviewing(h)' /\ UNCHANGED log
    BY <1>6, <2>2 DEF Insert, Reviewing
  <2>. QED
    BY <1>1, <2>1, <2>4, <2>5, HandlersMoved DEF IsReject
<1>7. ASSUME NEW h \in Handler, InsertLog(h)
      PROVE  HandlersTruthful'
  <2>1. Goto(h, Idle) /\ log' = log \cup {handler[h].entry} /\ handler[h].pc = "log"
    BY <1>7 DEF InsertLog
  <2>2. handler'[h] = Idle
    BY <1>1, <2>1, GotoEffect
  <2>3. \A g \in Handler \ {h} : handler[g].pc = "log" /\ IsReject(handler[g].entry) =>
          (handler[h].entry.request = handler[g].entry.request => ~IsReject(handler[h].entry))
    BY <2>1 DEF WfInv, HandlersTruthful, PendingAgrees
  <2>. QED
    BY <1>1, <2>1, <2>2, <2>3, HandlersMoved DEF Reviewing, Idle
<1>8. ASSUME NEW h \in Handler, ApproveStage1(h)
      PROVE  HandlersTruthful'
  <2>. DEFINE id == handler[h].id
              entry == [request |-> id, operator |-> handler[h].uid, action |-> "approve1"]
  <2>1. Goto(h, [pc |-> "log", entry |-> entry]) /\ UNCHANGED log
    BY <1>8 DEF ApproveStage1
  <2>2. handler'[h] = [pc |-> "log", entry |-> entry]
    BY <1>1, <2>1, GotoEffect
  <2>3. /\ Reviewing(h)
        /\ id \in DOMAIN request
        /\ request[id] \in RequestRow
    BY <1>1, <1>8, HandlerCases DEF ApproveStage1, Reviewing
  <2>4. id \in DOMAIN request' /\ request'[id].stage = 2 /\ request'[id].dept = request[id].dept
    BY <1>8, <2>3 DEF ApproveStage1, RequestRow
  <2>5. Role[handler[h].uid] = 2 /\ request[id].dept \in Subtree[handler[h].uid]
    BY <1>8, <2>3
    DEF ApproveStage1, WfInv, HandlersTruthful, SnapshotAgrees, SameSubmission, MayApprove
  <2>6. PendingAgrees(h)'
    BY <2>2, <2>4, <2>5 DEF PendingAgrees, Truthful, Signed, IsReject, OfCollege
  <2>. QED
    BY <1>1, <2>1, <2>2, <2>6, HandlersMoved DEF Reviewing, IsReject
<1>9. ASSUME NEW h \in Handler, ApproveStage2AndArchive(h)
      PROVE  HandlersTruthful'
  <2>1. /\ Goto(h, Idle)
        /\ log' = log \cup {[request |-> handler[h].id, operator |-> handler[h].uid,
                             action |-> "approve2"]}
    BY <1>9 DEF ApproveStage2AndArchive
  <2>2. handler'[h] = Idle
    BY <1>1, <2>1, GotoEffect
  <2>3. \A d \in log' \ log : ~IsReject(d)
    BY <2>1 DEF IsReject
  <2>. QED
    BY <1>1, <2>1, <2>2, <2>3, HandlersMoved DEF Reviewing, Idle
<1>10. ASSUME NEW h \in Handler, Reject(h)
       PROVE  HandlersTruthful'
  <2>. DEFINE id == handler[h].id
  <2>0. PICK entry : entry = [request |-> id, operator |-> handler[h].uid,
                              action |-> RejectAction(handler[h].wf)]
    OBVIOUS
  <2>1. Goto(h, [pc |-> "log", entry |-> entry]) /\ UNCHANGED log
    BY <1>10, <2>0 DEF Reject
  <2>2. /\ handler'[h] = [pc |-> "log", entry |-> entry]
        /\ \A g \in Handler : g # h => handler'[g] = handler[g]
    BY <1>1, <2>1, GotoEffect
  <2>3. /\ Reviewing(h)
        /\ id \in DOMAIN request
        /\ request[id] \in RequestRow
        /\ request[id].status = Open
    BY <1>1, <1>10, HandlerCases DEF Reject, StillOpen, Reviewing
  <2>4. /\ id \in DOMAIN request'
        /\ request'[id].status = Rejected
        /\ request'[id].stage = request[id].stage
        /\ request'[id].dept = request[id].dept
    BY <1>10, <2>3 DEF Reject, RequestRow
  <2>5. SnapshotAgrees(h) /\ handler[h].pc = "reject"
    BY <1>10, <2>3 DEF Reject, WfInv, HandlersTruthful
  <2>6. request[id].stage \in 1 .. 2
    BY <2>3 DEF WfInv, StageThreeArchived, RequestRow, Open, Archived
  <2>a. /\ handler[h].wf.stage \in 1 .. 2
        /\ handler[h].wf.stage <= request[id].stage
        /\ handler[h].wf.stage = 1 /\ request[id].stage = 2 => id \in overtaken'
    BY <1>1, <2>5, <2>6 DEF SnapshotAgrees, AllAdvance, ForwardingNoted
  <2>b. /\ handler[h].wf.stage = 1 => OfCollege(handler[h].uid, request'[id])
        /\ handler[h].wf.stage = 2 => Role[handler[h].uid] = 1
    BY <2>4, <2>5 DEF SnapshotAgrees, SameSubmission, MayReject, OfCollege
  <2>7. Truthful(entry)'
    BY <2>0, <2>4, <2>6, <2>a DEF Truthful, IsReject, RejectAction
  <2>8. Signed(entry)'
    <3>1. entry.request = id /\ entry.operator = handler[h].uid
      BY <2>0
    <3>2. entry.action \in {"reject1", "reject2"}
      BY <2>0 DEF RejectAction
    <3>3. request'[id].stage = 1 => handler[h].wf.stage = 1
      BY <2>4, <2>a
    <3>. QED
      BY <2>4, <2>6, <2>a, <2>b, <3>1, <3>2, <3>3 DEF Signed
  <2>9. \A d \in log : d.request = id => ~IsReject(d)
    BY <2>3 DEF WfInv, LogIsTrue, Truthful, Open, Rejected
  <2>10. \A g \in Handler \ {h} :
           handler[g].pc = "log" /\ handler[g].entry.request = id => ~IsReject(handler[g].entry)
    BY <2>3 DEF WfInv, HandlersTruthful, PendingAgrees, Truthful, Open, Rejected
  <2>11. PendingAgrees(h)'
    BY <2>0, <2>1, <2>2, <2>7, <2>8, <2>9, <2>10 DEF PendingAgrees
  <2>. QED
    BY <1>1, <2>0, <2>1, <2>2, <2>10, <2>11, HandlersMoved DEF Reviewing
<1>11. CASE UNCHANGED wfVars
  BY <1>11
  DEF wfVars, wfHistory, OfCollege, WfInv, HandlersTruthful, Reviewing, SnapshotAgrees, PendingAgrees, Truthful, Signed
<1>. QED
  BY <1>3, <1>4, <1>5, <1>6, <1>7, <1>8, <1>9, <1>10, <1>11 DEF WfNext, HandlerStep, ReviewRead

\* The log grows by what a handler had pending, or by the final approval.
LEMMA LogGrows ==
  ASSUME WfInv, [WfNext]_wfVars
  PROVE  \/ log' = log
         \/ \E h \in Handler : InsertLog(h)
         \/ \E h \in Handler : ApproveStage2AndArchive(h)
BY DEF WfNext, wfVars, HandlerStep, ReviewRead, CreateChecked, ApproveRead, RejectRead, Insert,
       RefuseDuplicate, ApproveStage1, Reject, LoseRace, Abandon

\* What the final approval does to the request, and what it writes to the log.
LEMMA ArchiveEffect ==
  ASSUME WfInv, NEW h \in Handler, ApproveStage2AndArchive(h)
  PROVE  LET id == handler[h].id
             wf == handler[h].wf IN
         /\ id \in DOMAIN request
         /\ request[id].status = Open
         /\ SameSubmission(wf, request[id])
         /\ Role[handler[h].uid] = 1
         /\ DOMAIN request' = DOMAIN request
         /\ request'[id].status = Archived
         /\ SameSubmission(request[id], request'[id])
         /\ \A r \in DOMAIN request : r # id => request'[r] = request[r]
         /\ log' = log \cup {[request |-> id, operator |-> handler[h].uid, action |-> "approve2"]}
<1>. DEFINE id == handler[h].id
<1>1. Reviewing(h) /\ id \in DOMAIN request /\ request[id] \in RequestRow
  BY HandlerCases DEF WfInv, ApproveStage2AndArchive, Reviewing
<1>2. SnapshotAgrees(h) /\ handler[h].pc = "approve2"
  BY <1>1 DEF WfInv, HandlersTruthful, ApproveStage2AndArchive
<1>3. request' = [request EXCEPT ![id] =
                    [request[id] EXCEPT !.status = Archived, !.stage = 3]]
  BY DEF ApproveStage2AndArchive
<1>4. request'[id].status = Archived /\ SameSubmission(request[id], request'[id])
  BY <1>1, <1>3 DEF RequestRow, SameSubmission
<1>5. Role[handler[h].uid] = 1
  BY <1>2 DEF SnapshotAgrees, MayApprove
<1>6. request[id].status = Open
  BY DEF ApproveStage2AndArchive, AtStage
<1>7. SameSubmission(handler[h].wf, request[id])
  BY <1>2 DEF SnapshotAgrees
<1>8. /\ DOMAIN request' = DOMAIN request
      /\ \A r \in DOMAIN request : r # id => request'[r] = request[r]
  BY <1>3
<1>9. log' = log \cup {[request |-> id, operator |-> handler[h].uid, action |-> "approve2"]}
  BY DEF ApproveStage2AndArchive
<1>. QED
  BY <1>1, <1>4, <1>5, <1>6, <1>7, <1>8, <1>9

LEMMA AuditStep == WfInv /\ [WfNext]_wfVars => LogIsTrue' /\ SignedByAuthority'
<1>. SUFFICES ASSUME WfInv, [WfNext]_wfVars
              PROVE  LogIsTrue' /\ SignedByAuthority'
  OBVIOUS
<1>1. WfTypeOK /\ WfTypeOK' /\ AllAdvance
  BY WfTypeStep, StepAdvances DEF WfInv
<1>2. \A e \in log : Truthful(e)' /\ Signed(e)'
  BY <1>1, TruthKept, SignatureKept DEF WfInv, WfTypeOK, LogIsTrue, SignedByAuthority
<1>3. CASE \E h \in Handler : ApproveStage2AndArchive(h)
  <2>1. PICK h \in Handler : ApproveStage2AndArchive(h)
    BY <1>3
  <2>2. PICK id, uid :
          /\ id \in DOMAIN request
          /\ id = handler[h].id
          /\ uid = handler[h].uid
    BY <2>1, ArchiveEffect
  <2>3. PICK new : new = [request |-> id, operator |-> uid, action |-> "approve2"]
    OBVIOUS
  <2>4. /\ log' = log \cup {new}
        /\ id \in DOMAIN request'
        /\ request'[id].status = Archived
        /\ Role[uid] = 1
        /\ \A r \in DOMAIN request' : r # id => r \in DOMAIN request /\ request'[r] = request[r]
    BY <2>1, <2>2, <2>3, ArchiveEffect
  <2>5. Truthful(new)' /\ Signed(new)' /\ ~IsReject(new)
    BY <2>3, <2>4 DEF Truthful, Signed, IsReject
  <2>6. \A r \in DOMAIN request' :
          request'[r].status = Archived => \E e \in log' : e.request = r /\ e.action = "approve2"
    BY <2>3, <2>4 DEF WfInv, LogIsTrue
  <2>7. \A d, e \in log' : d.request = e.request /\ IsReject(d) /\ IsReject(e) => d = e
    BY <2>4, <2>5 DEF WfInv, LogIsTrue
  <2>. QED
    BY <1>2, <2>4, <2>5, <2>6, <2>7 DEF LogIsTrue, SignedByAuthority
<1>4. CASE ~\E h \in Handler : ApproveStage2AndArchive(h)
  <2>1. \A r \in DOMAIN request' :
          request'[r].status = Archived => \E e \in log : e.request = r /\ e.action = "approve2"
    BY <1>4, OnlyArchiveQueues DEF WfInv, LogIsTrue
  <2>2. CASE log' = log
    BY <1>2, <2>1, <2>2 DEF WfInv, LogIsTrue, SignedByAuthority
  <2>3. ASSUME NEW h \in Handler, InsertLog(h)
        PROVE  LogIsTrue' /\ SignedByAuthority'
    <3>1. PICK new : new = handler[h].entry
      OBVIOUS
    <3>2. log' = log \cup {new} /\ handler[h].pc = "log"
      BY <2>3, <3>1 DEF InsertLog
    <3>3. new \in LogEntry /\ PendingAgrees(h)
      BY <1>1, <3>1, <3>2, HandlerCases DEF WfInv, HandlersTruthful
    <3>4. Truthful(new)' /\ Signed(new)'
      BY <1>1, <3>1, <3>3, TruthKept, SignatureKept DEF PendingAgrees
    <3>5. IsReject(new) => \A d \in log : d.request = new.request => ~IsReject(d)
      BY <3>1, <3>3 DEF PendingAgrees
    <3>6. \A d, e \in log' : d.request = e.request /\ IsReject(d) /\ IsReject(e) => d = e
      BY <3>2, <3>5 DEF WfInv, LogIsTrue
    <3>. QED
      BY <1>2, <2>1, <3>2, <3>4, <3>6 DEF LogIsTrue, SignedByAuthority
  <2>. QED
    BY <1>4, <2>2, <2>3, LogGrows
<1>. QED
  BY <1>3, <1>4

\* An entry that is written, pending or lost stays one of these.
LEMMA EntriesStay == WfTypeOK /\ [WfNext]_wfVars => Entries \subseteq Entries'
<1>. SUFFICES ASSUME WfTypeOK, [WfNext]_wfVars, NEW e \in Entries
              PROVE  e \in Entries'
  OBVIOUS
<1>1. log \subseteq log' /\ unlogged \subseteq unlogged'
  BY DEF WfNext, wfVars, wfHistory, HandlerStep, ReviewRead, CreateChecked, ApproveRead, RejectRead,
         Insert, InsertLog, RefuseDuplicate, ApproveStage1, ApproveStage2AndArchive, Reject,
         LoseRace, Abandon
<1>2. CASE e \in log \cup unlogged
  BY <1>1, <1>2 DEF Entries
<1>3. ASSUME NEW g \in Handler, handler[g].pc = "log", e = handler[g].entry
      PROVE  e \in Entries'
  <2>1. CASE handler'[g] = handler[g]
    BY <1>3, <2>1 DEF Entries, AboutToLog
  <2>2. CASE InsertLog(g)
    BY <1>3, <2>2 DEF InsertLog, Entries
  <2>3. CASE Abandon(g)
    BY <1>3, <2>3 DEF Abandon, AboutToLog, Entries
  <2>4. ASSUME NEW h \in Handler, NEW state, Goto(h, state), h # g
        PROVE  handler'[g] = handler[g]
    BY <2>4, GotoEffect
  <2>5. ASSUME NEW h \in Handler, HandlerStep(h) \/ Abandon(h), h # g
        PROVE  handler'[g] = handler[g]
    BY <2>4, <2>5
    DEF HandlerStep, Insert, RefuseDuplicate, InsertLog, ApproveStage1, ApproveStage2AndArchive,
        Reject, LoseRace, Abandon
  <2>6. HandlerStep(g) => InsertLog(g)
    BY <1>3
    DEF HandlerStep, Insert, RefuseDuplicate, ApproveStage1, ApproveStage2AndArchive, Reject, LoseRace
  <2>7. ASSUME NEW h \in Handler, (\E s \in Submission : CreateChecked(h, s)) \/ \E u \in User : ReviewRead(h, u)
        PROVE  handler'[g] = handler[g]
    <3>1. handler[h] = Idle
      BY <2>7 DEF CreateChecked, ReviewRead, ApproveRead, RejectRead
    <3>2. h # g
      BY <1>3, <3>1 DEF Idle
    <3>3. PICK state : Goto(h, state)
      BY <2>7 DEF CreateChecked, ReviewRead, ApproveRead, RejectRead
    <3>. QED
      BY <2>4, <3>2, <3>3
  <2>8. CASE UNCHANGED wfVars
    BY <2>1, <2>8 DEF wfVars
  <2>. QED
    BY <2>1, <2>2, <2>3, <2>5, <2>6, <2>7, <2>8 DEF WfNext
<1>. QED
  BY <1>2, <1>3 DEF Entries, AboutToLog

\* The update that takes a step leaves its entry with the handler.
LEMMA MissingStep == WfInv /\ [WfNext]_wfVars => NothingMissing'
<1>. SUFFICES ASSUME WfInv, [WfNext]_wfVars
              PROVE  NothingMissing'
  OBVIOUS
<1>1. WfTypeOK /\ WfTypeOK' /\ AllAdvance /\ Entries \subseteq Entries'
  BY WfTypeStep, StepAdvances, EntriesStay DEF WfInv
<1>2. \A r, actions : Accounted(r, actions) => Accounted(r, actions)'
  BY <1>1 DEF Accounted
<1>3. ASSUME NEW r \in DOMAIN request, r \in DOMAIN request', request'[r].stage = request[r].stage,
             request'[r].status = request[r].status
      PROVE  /\ Accounted(r, {"submit"})'
             /\ request'[r].stage >= 2 => Accounted(r, {"approve1"})'
             /\ request'[r].status = Rejected => Accounted(r, {"reject1", "reject2"})'
  BY <1>2, <1>3 DEF WfInv, NothingMissing
<1>4. CASE UNCHANGED request
  BY <1>3, <1>4 DEF NothingMissing
<1>5. ASSUME NEW h \in Handler, NEW entry, Goto(h, [pc |-> "log", entry |-> entry])
      PROVE  entry \in Entries'
  <2>1. handler'[h] = [pc |-> "log", entry |-> entry]
    BY <1>1, <1>5, GotoEffect
  <2>. QED
    BY <2>1 DEF Entries, AboutToLog
<1>6. ASSUME NEW h \in Handler, Insert(h)
      PROVE  NothingMissing'
  <2>1. PICK id \in Request \ DOMAIN request :
          /\ request' = InsertRow(request, id, handler[h].row)
          /\ Goto(h, [pc |-> "log",
                      entry |-> [request |-> id, operator |-> handler[h].row.requester,
                                 action |-> "submit"]])
    BY <1>6 DEF Insert
  <2>2. [request |-> id, operator |-> handler[h].row.requester, action |-> "submit"] \in Entries'
    BY <1>5, <2>1
  <2>3. Accounted(id, {"submit"})'
    BY <2>2 DEF Accounted
  <2>4. /\ DOMAIN request' = DOMAIN request \cup {id}
        /\ request'[id] = handler[h].row
        /\ \A r \in DOMAIN request : request'[r] = request[r]
    BY <2>1 DEF InsertRow
  <2>5. handler[h].row.status = Open /\ handler[h].row.stage = 1
    BY <1>6 DEF Insert, WfInv, InsertsFresh
  <2>6. ~(request'[id].stage >= 2) /\ request'[id].status # Rejected
    BY <2>4, <2>5 DEF Open, Rejected
  <2>. QED
    BY <1>3, <2>3, <2>4, <2>6 DEF NothingMissing
<1>7. ASSUME NEW h \in Handler, ApproveStage1(h)
      PROVE  NothingMissing'
  <2>1. PICK id : id = handler[h].id
    OBVIOUS
  <2>2. id \in DOMAIN request /\ request[id] \in RequestRow
    BY <1>1, <1>7, <2>1, HandlerCases DEF ApproveStage1, Reviewing
  <2>3. request' = [request EXCEPT ![id] = [request[id] EXCEPT !.stage = 2]]
    BY <1>7, <2>1 DEF ApproveStage1
  <2>4. [request |-> id, operator |-> handler[h].uid, action |-> "approve1"] \in Entries'
    BY <1>5, <1>7, <2>1 DEF ApproveStage1
  <2>a. Accounted(id, {"approve1"})'
    BY <2>4 DEF Accounted
  <2>5. Accounted(id, {"approve1"})' /\ Accounted(id, {"submit"})'
    BY <1>2, <2>2, <2>a DEF WfInv, NothingMissing
  <2>6. request'[id].status = Open
    BY <1>7, <2>1, <2>2, <2>3 DEF ApproveStage1, AtStage, RequestRow
  <2>7. DOMAIN request' = DOMAIN request /\ \A r \in DOMAIN request : r # id => request'[r] = request[r]
    BY <2>3
  <2>. QED
    BY <1>3, <2>5, <2>6, <2>7 DEF NothingMissing, Open, Rejected
<1>8. ASSUME NEW h \in Handler, ApproveStage2AndArchive(h)
      PROVE  NothingMissing'
  <2>1. PICK id : id = handler[h].id
    OBVIOUS
  <2>2. id \in DOMAIN request /\ request[id] \in RequestRow
    BY <1>1, <1>8, <2>1, HandlerCases DEF ApproveStage2AndArchive, Reviewing
  <2>3. request[id].stage = 2
    BY <1>8, <2>1 DEF ApproveStage2AndArchive, AtStage
  <2>4. Accounted(id, {"approve1"})' /\ Accounted(id, {"submit"})'
    BY <1>2, <2>2, <2>3 DEF WfInv, NothingMissing
  <2>5. request'[id].status = Archived
    BY <1>8, <2>1, ArchiveEffect
  <2>6. DOMAIN request' = DOMAIN request /\ \A r \in DOMAIN request : r # id => request'[r] = request[r]
    BY <1>8, <2>1, ArchiveEffect
  <2>. QED
    BY <1>3, <2>4, <2>5, <2>6 DEF NothingMissing, Archived, Rejected
<1>9. ASSUME NEW h \in Handler, Reject(h)
      PROVE  NothingMissing'
  <2>1. PICK id : id = handler[h].id
    OBVIOUS
  <2>2. id \in DOMAIN request /\ request[id] \in RequestRow
    BY <1>1, <1>9, <2>1, HandlerCases DEF Reject, Reviewing
  <2>3. request' = [request EXCEPT ![id] = [request[id] EXCEPT !.status = Rejected]]
    BY <1>9, <2>1 DEF Reject
  <2>4. [request |-> id, operator |-> handler[h].uid, action |-> RejectAction(handler[h].wf)] \in Entries'
    BY <1>5, <1>9, <2>1 DEF Reject
  <2>5. Accounted(id, {"reject1", "reject2"})'
    BY <2>4 DEF Accounted, RejectAction
  <2>6. request'[id].stage = request[id].stage
    BY <2>2, <2>3 DEF RequestRow
  <2>7. Accounted(id, {"submit"})' /\ (request'[id].stage >= 2 => Accounted(id, {"approve1"})')
    BY <1>2, <2>2, <2>6 DEF WfInv, NothingMissing
  <2>8. DOMAIN request' = DOMAIN request /\ \A r \in DOMAIN request : r # id => request'[r] = request[r]
    BY <2>3
  <2>. QED
    BY <1>3, <2>5, <2>7, <2>8 DEF NothingMissing
<1>. QED
  BY <1>4, <1>6, <1>7, <1>8, <1>9
  DEF WfNext, wfVars, HandlerStep, ReviewRead, CreateChecked, ApproveRead, RejectRead,
      RefuseDuplicate, InsertLog, LoseRace, Abandon

-------------------------------------------------------------------------------
(***************************************************************************)
(* Events                                                                  *)
(***************************************************************************)
LEMMA EventStep == WfInv /\ [WfNext]_wfVars => EventIffArchived'
<1>. SUFFICES ASSUME WfInv, [WfNext]_wfVars
              PROVE  EventIffArchived'
  OBVIOUS
<1>1. WfTypeOK /\ AllAdvance
  BY StepAdvances DEF WfInv
<1>2. \A i \in DOMAIN outbox :
        LET ev == outbox[i].event IN
        /\ ev.request \in DOMAIN request
        /\ request[ev.request].status = Archived
        /\ ev.request \in DOMAIN request'
        /\ request'[ev.request].status = Archived
        /\ EventMatches(ev, request'[ev.request])
  BY <1>1 DEF WfInv, EventIffArchived, AllAdvance, RowsAdvance, Advances, Open, Archived
<1>3. CASE \A h \in Handler : ~ApproveStage2AndArchive(h)
  BY <1>2, <1>3, OnlyArchiveQueues DEF WfInv, EventIffArchived
<1>4. ASSUME NEW h \in Handler, ApproveStage2AndArchive(h)
      PROVE  EventIffArchived'
  <2>1. PICK id, new :
          /\ id = handler[h].id
          /\ new = [event |-> EventOf(id, handler[h].uid, handler[h].wf), status |-> 0, retry |-> 0]
    OBVIOUS
  <2>2. /\ id \in DOMAIN request
        /\ request[id].status = Open
        /\ SameSubmission(handler[h].wf, request[id])
        /\ DOMAIN request' = DOMAIN request
        /\ request'[id].status = Archived
        /\ SameSubmission(request[id], request'[id])
        /\ \A r \in DOMAIN request : r # id => request'[r] = request[r]
    BY <1>4, <2>1, ArchiveEffect
  <2>3. /\ outbox' = Append(outbox, new)
        /\ outbox \in Seq(OutboxRow)
    BY <1>1, <1>4, <2>1 DEF ApproveStage2AndArchive, WfTypeOK
  <2>4. /\ DOMAIN outbox' = DOMAIN outbox \cup {Len(outbox) + 1}
        /\ Len(outbox) + 1 \notin DOMAIN outbox
        /\ outbox'[Len(outbox) + 1] = new
        /\ \A i \in DOMAIN outbox : outbox'[i] = outbox[i]
    BY <2>3
  <2>5. new.event.request = id /\ EventMatches(new.event, request'[id])
    BY <2>1, <2>2 DEF EventOf, EventMatches, SameSubmission
  <2>6. \A i \in DOMAIN outbox : outbox[i].event.request # id
    BY <1>2, <2>2 DEF Open, Archived
  <2>7. \A i \in DOMAIN outbox' :
          LET ev == outbox'[i].event IN
          /\ ev.request \in DOMAIN request'
          /\ request'[ev.request].status = Archived
          /\ EventMatches(ev, request'[ev.request])
    BY <1>2, <2>2, <2>4, <2>5
  <2>8. \A i, j \in DOMAIN outbox' :
          outbox'[i].event.request = outbox'[j].event.request => i = j
    BY <2>4, <2>5, <2>6 DEF WfInv, EventIffArchived
  <2>9. \A r \in DOMAIN request' :
          request'[r].status = Archived => \E i \in DOMAIN outbox' : outbox'[i].event.request = r
    BY <2>2, <2>4, <2>5 DEF WfInv, EventIffArchived
  <2>. QED
    BY <2>7, <2>8, <2>9 DEF EventIffArchived
<1>. QED
  BY <1>3, <1>4

-------------------------------------------------------------------------------
(***************************************************************************)
(* The invariant holds, and what follows from it                           *)
(***************************************************************************)
LEMMA WfInvStep == WfInv /\ [WfNext]_wfVars => WfInv'
BY WfTypeStep, InsertsFreshStep, StageThreeStep, HandlersStep, AuditStep, MissingStep, EventStep
DEF WfInv

LEMMA WfInvHolds == WfSpec => []WfInv
BY WfInvInit, WfInvStep, PTL DEF WfSpec

\* Every archived request has exactly one event, the right one, and no other
\* request has any.
THEOREM EventIffArchivedHolds == WfSpec => []EventIffArchived
<1>1. WfInv => EventIffArchived
  BY DEF WfInv
<1>. QED
  BY <1>1, WfInvHolds, PTL

\* The audit trail is true and, but for abandoned handlers, complete: no entry
\* claims a step the request did not take, at the stage it was in unless its
\* forwarding overtook the rejection; a request is rejected at most once on record.
THEOREM AuditTruthfulHolds == WfSpec => []AuditTruthful
<1>1. WfInv => AuditTruthful
  BY DEF WfInv, AuditTruthful
<1>. QED
  BY <1>1, WfInvHolds, PTL

\* Every recorded step was signed by somebody entitled to it at the stage where it
\* took effect, a college admin's rejection that a forwarding overtook excepted.
THEOREM SignedByAuthorityHolds == WfSpec => []SignedByAuthority
<1>1. WfInv => SignedByAuthority
  BY DEF WfInv
<1>. QED
  BY <1>1, WfInvHolds, PTL

\* What a handler carries from one statement to the next is never contradicted by
\* what the other handlers do in between.
THEOREM HandlersTruthfulHolds == WfSpec => []HandlersTruthful
<1>1. WfInv => HandlersTruthful
  BY DEF WfInv
<1>. QED
  BY <1>1, WfInvHolds, PTL

-------------------------------------------------------------------------------
(***************************************************************************)
(* The handlers implement the approval protocol                            *)
(***************************************************************************)
Phases == [r \in DOMAIN request |-> PhaseOf(request[r])]
Targets == [r \in DOMAIN request |-> request[r].asset]
Queued == [i \in DOMAIN outbox |-> outbox[i].event.request]

\* The phase of a row, case by case.
LEMMA PhaseCases ==
  ASSUME NEW row \in RequestRow
  PROVE  /\ row.status = Archived => PhaseOf(row) = "archived"
         /\ row.status = Rejected => PhaseOf(row) = "rejected"
         /\ row.status = Open /\ row.stage = 1 => PhaseOf(row) = "college"
         /\ row.status = Open /\ row.stage # 1 => PhaseOf(row) = "school"
BY DEF PhaseOf, RequestRow, Open, Archived, Rejected

\* A step that changes neither the table nor the outbox is a stutter.
LEMMA StutterStep ==
  ASSUME UNCHANGED <<request, outbox>>
  PROVE  UNCHANGED Promise!vars
BY DEF Promise!vars

LEMMA PromiseInit == WfInit => Promise!Init
BY DEF WfInit, NoRows, Promise!Init

LEMMA PromiseOpen ==
  ASSUME WfInv, NEW h \in Handler, Insert(h)
  PROVE  Promise!Next
<1>1. PICK id \in Request \ DOMAIN request : request' = InsertRow(request, id, handler[h].row)
  BY DEF Insert
<1>2. /\ handler[h].row \in RequestRow
      /\ handler[h].row.status = Open
      /\ handler[h].row.stage = 1
  BY HandlerCases DEF Insert, WfInv, InsertsFresh
<1>3. PICK a \in Asset : a = handler[h].row.asset
  BY <1>2 DEF RequestRow
<1>4. \A r \in DOMAIN request : request[r].asset = a => PhaseOf(request[r]) \notin Promise!OpenPhase
  <2>1. \A r \in DOMAIN request : request[r] \in RequestRow
    BY DEF WfInv, WfTypeOK
  <2>2. \A r \in DOMAIN request : request[r].asset = a => request[r].status # Open
    BY <1>3 DEF Insert, HasOpenRequest
  <2>3. \A r \in DOMAIN request : request[r].status # Open =>
          request[r].status = Archived \/ request[r].status = Rejected
    BY <2>1 DEF RequestRow
  <2>. QED
    BY <2>1, <2>2, <2>3, PhaseCases DEF Promise!OpenPhase
<1>5. /\ DOMAIN request' = DOMAIN request \cup {id}
      /\ request'[id] = handler[h].row
      /\ \A r \in DOMAIN request : request'[r] = request[r]
  BY <1>1 DEF InsertRow
<1>6. Phases' = Promise!Put(Phases, id, "college")
  BY <1>2, <1>5, PhaseCases DEF Phases, Promise!Put
<1>7. Targets' = Promise!Put(Targets, id, a)
  BY <1>3, <1>5 DEF Targets, Promise!Put
<1>8. UNCHANGED Queued
  BY DEF Insert, Queued
<1>9. Promise!Open(id, a)
  BY <1>1, <1>4, <1>6, <1>7, <1>8 DEF Promise!Open, Phases, Targets, Queued
<1>. QED
  BY <1>1, <1>3, <1>9 DEF Promise!Next

\* Changing one row changes the phase of that request only.
LEMMA PhaseChange ==
  ASSUME NEW id \in DOMAIN request, NEW row, SameSubmission(request[id], row),
         request' = [request EXCEPT ![id] = row]
  PROVE  /\ Phases' = [Phases EXCEPT ![id] = PhaseOf(row)]
         /\ Targets' = Targets
BY DEF Phases, Targets, SameSubmission

LEMMA PromiseForward ==
  ASSUME WfInv, NEW h \in Handler, ApproveStage1(h)
  PROVE  Promise!Next
<1>1. PICK id, row :
        /\ id = handler[h].id
        /\ row = [request[id] EXCEPT !.stage = 2]
  OBVIOUS
<1>2. /\ id \in DOMAIN request
      /\ request[id] \in RequestRow
      /\ id \in Request
  BY <1>1, HandlerCases DEF WfInv, WfTypeOK, ApproveStage1, Reviewing
<1>3. /\ request' = [request EXCEPT ![id] = row]
      /\ request[id].status = Open
      /\ request[id].stage = 1
  BY <1>1 DEF ApproveStage1, AtStage
<1>4. /\ row \in RequestRow
      /\ row.status = Open
      /\ row.stage = 2
      /\ SameSubmission(request[id], row)
  BY <1>1, <1>2, <1>3 DEF RequestRow, SameSubmission
<1>5. PhaseOf(request[id]) = "college" /\ PhaseOf(row) = "school"
  BY <1>2, <1>3, <1>4, PhaseCases
<1>6. Phases' = [Phases EXCEPT ![id] = "school"] /\ UNCHANGED Targets
  BY <1>2, <1>3, <1>4, <1>5, PhaseChange
<1>7. UNCHANGED Queued
  BY DEF ApproveStage1, Queued
<1>8. Promise!Forward(id)
  BY <1>2, <1>5, <1>6, <1>7 DEF Promise!Forward, Phases, Targets, Queued
<1>. QED
  BY <1>2, <1>8 DEF Promise!Next

LEMMA PromiseArchive ==
  ASSUME WfInv, NEW h \in Handler, ApproveStage2AndArchive(h)
  PROVE  Promise!Next
<1>1. PICK id, row, new :
        /\ id = handler[h].id
        /\ row = [request[id] EXCEPT !.status = Archived, !.stage = 3]
        /\ new = [event |-> EventOf(id, handler[h].uid, handler[h].wf), status |-> 0, retry |-> 0]
  OBVIOUS
<1>2. /\ id \in DOMAIN request
      /\ request[id] \in RequestRow
      /\ id \in Request
  BY <1>1, HandlerCases DEF WfInv, WfTypeOK, ApproveStage2AndArchive, Reviewing
<1>3. /\ request' = [request EXCEPT ![id] = row]
      /\ request[id].status = Open
      /\ request[id].stage = 2
  BY <1>1 DEF ApproveStage2AndArchive, AtStage
<1>4. row \in RequestRow
  BY <1>1, <1>2, RowUpdates
<1>5. row.status = Archived /\ SameSubmission(request[id], row)
  BY <1>1, <1>2 DEF RequestRow, SameSubmission
<1>6. PhaseOf(request[id]) = "school" /\ PhaseOf(row) = "archived"
  BY <1>2, <1>3, <1>4, <1>5, PhaseCases
<1>7. Phases' = [Phases EXCEPT ![id] = "archived"] /\ UNCHANGED Targets
  BY <1>2, <1>3, <1>5, <1>6, PhaseChange
<1>8. Queued' = Append(Queued, id)
  <2>1. outbox' = Append(outbox, new) /\ outbox \in Seq(OutboxRow)
    BY <1>1 DEF ApproveStage2AndArchive, WfInv, WfTypeOK
  <2>2. new.event.request = id
    BY <1>1 DEF EventOf
  <2>3. \A i \in DOMAIN outbox : outbox[i].event.request \in Request
    BY DEF WfInv, WfTypeOK, EventIffArchived
  <2>4. Queued \in Seq(Request) /\ Len(Queued) = Len(outbox)
    BY <2>1, <2>3 DEF Queued
  <2>. QED
    BY <2>1, <2>2, <2>4 DEF Queued
<1>9. Promise!Archive(id)
  BY <1>2, <1>6, <1>7, <1>8 DEF Promise!Archive, Phases, Targets, Queued
<1>. QED
  BY <1>2, <1>9 DEF Promise!Next

LEMMA PromiseTurnDown ==
  ASSUME WfInv, NEW h \in Handler, Reject(h)
  PROVE  Promise!Next
<1>1. PICK id, row :
        /\ id = handler[h].id
        /\ row = [request[id] EXCEPT !.status = Rejected]
  OBVIOUS
<1>2. /\ id \in DOMAIN request
      /\ request[id] \in RequestRow
      /\ id \in Request
  BY <1>1, HandlerCases DEF WfInv, WfTypeOK, Reject, Reviewing
<1>3. request' = [request EXCEPT ![id] = row] /\ request[id].status = Open
  BY <1>1 DEF Reject, StillOpen
<1>4. /\ row \in RequestRow
      /\ row.status = Rejected
      /\ SameSubmission(request[id], row)
  BY <1>1, <1>2, RowUpdates DEF RequestRow, SameSubmission
<1>5. PhaseOf(request[id]) \in Promise!OpenPhase /\ PhaseOf(row) = "rejected"
  BY <1>2, <1>3, <1>4, PhaseCases DEF Promise!OpenPhase
<1>6. Phases' = [Phases EXCEPT ![id] = "rejected"] /\ UNCHANGED Targets
  BY <1>2, <1>3, <1>4, <1>5, PhaseChange
<1>7. UNCHANGED Queued
  BY DEF Reject, Queued
<1>8. Promise!TurnDown(id)
  BY <1>2, <1>5, <1>6, <1>7 DEF Promise!TurnDown, Phases, Targets, Queued
<1>. QED
  BY <1>2, <1>8 DEF Promise!Next

LEMMA PromiseStep == WfInv /\ [WfNext]_wfVars => [Promise!Next]_(Promise!vars)
<1>. SUFFICES ASSUME WfInv, [WfNext]_wfVars
              PROVE  Promise!Next \/ UNCHANGED Promise!vars
  OBVIOUS
<1>1. ASSUME NEW h \in Handler,
             Insert(h) \/ ApproveStage1(h) \/ ApproveStage2AndArchive(h) \/ Reject(h)
      PROVE  Promise!Next
  BY <1>1, PromiseOpen, PromiseForward, PromiseArchive, PromiseTurnDown
<1>2. CASE UNCHANGED <<request, outbox>>
  BY <1>2, StutterStep
<1>. QED
  BY <1>1, <1>2
  DEF WfNext, wfVars, HandlerStep, ReviewRead, CreateChecked, ApproveRead, RejectRead,
      RefuseDuplicate, InsertLog, LoseRace, Abandon

\* With every interleaving of its handlers, the workflow service does what the
\* approval protocol allows and nothing else.
THEOREM WorkflowImplementsApproval == WfSpec => ImplementsApproval
BY WfInvHolds, PromiseInit, PromiseStep, PTL DEF WfSpec, ImplementsApproval, Promise!Spec
===============================================================================
