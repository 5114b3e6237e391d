------------------------------- MODULE Inventory -------------------------------
(***************************************************************************)
(* One inventory task from its creation to the comparison with the book:   *)
(* inventory-api, its tables in PostgreSQL, the drafts in Mongo, and the   *)
(* comparison it starts in the background.                                 *)
(*                                                                         *)
(* A handler is a request under way, or the comparison a request leaves    *)
(* behind.  It works in steps: reads, calls to asset-rpc, transactions.    *)
(* Archive reads the drafts and the items, computes the records and the    *)
(* conflicts between assignees, then writes them in one transaction.  An   *)
(* administrator resolves the conflicts; the last resolution starts the    *)
(* comparison, as does an archive without conflicts and the Compare        *)
(* request.  What a failing call does to a single draft is in DraftStore.  *)
(***************************************************************************)
EXTENDS InventoryDraft, Functions

CONSTANTS
  Asset,         \* assets of the department the task is for
  User,          \* users who submit: assignees of the task and administrators
  Cells,         \* contents a draft may be given
  BookLocation,  \* location of each asset in the ledger
  Handler,       \* requests and comparisons under way at once
  MaxSubmits,    \* bound: submissions
  MaxIncidents   \* bound: kinds of incident in one behaviour

ASSUME BookAssumption == DOMAIN BookLocation = Asset

ASSUME BoundAssumption == MaxSubmits \in Nat /\ MaxIncidents \in Nat

VARIABLES
  status,     \* inventory_task.status
  assignees,  \* inventory_task_assignee; the other users are administrators
  items,      \* inventory_task_item
  gone,       \* assets deleted from the ledger
  drafts,     \* drafts of each asset: who, what and when
  records,    \* inventory_record: the rows that stem from each asset
  conflicts,  \* inventory_assignee_conflict, unique for each asset
  handler,    \* what each handler is doing
  clock,      \* submissions and archives' reads so far; dates what is written
  submits,    \* submissions so far
  started,    \* history: an archive has been requested
  commits,    \* history: archives committed
  cut,        \* history: when the first of them had read the drafts
  spoiled,    \* history: assets with a row the comparison left undecided, or
              \* decided on an error for an answer
  overlapped, \* history: two conflicts were in their transactions at once
  incidents   \* history: what went wrong so far, each kind at most once

invVars == <<status, assignees, items, gone, drafts, records, conflicts, handler,
             clock, submits, started, commits, cut, spoiled, overlapped, incidents>>
task == <<status, assignees, items>>
tables == <<records, conflicts>>
lapses == <<spoiled, overlapped>>
counters == <<clock, submits, started, commits, cut, lapses>>

NoTask == -1
Unpublished == 0
Running == 1
Archived == 2
Compared == 3

Idle == [pc |-> "idle"]
Nobody == "nobody"
Nowhere == << >>

Undecided == 0
Match == 1
Surplus == 2
Loss == 3

\* A location as it was drafted, or as an administrator's own, or none.
Place == {c.location : c \in Cells} \cup {TrimSpace(c.location) : c \in Cells} \cup {Nowhere}

\* known: asset_id is set; the others are surplus rows.
Row == [known : BOOLEAN, operator : User \cup {Nobody}, scanned : BOOLEAN,
        location : Place, diff : Undecided .. Loss]

NoRow == << >>
NoConflict == [pending |-> FALSE, candidates |-> {}]

InvInit ==
  /\ status = NoTask
  /\ assignees = {} /\ items = {} /\ gone = {}
  /\ drafts = [a \in Asset |-> {}]
  /\ records = [a \in Asset |-> << >>]
  /\ conflicts = [a \in Asset |-> NoConflict]
  /\ handler = [h \in Handler |-> Idle]
  /\ clock = 0 /\ submits = 0 /\ started = FALSE /\ commits = 0 /\ cut = 0
  /\ spoiled = {} /\ overlapped = FALSE /\ incidents = {}

Incident(kind) ==
  /\ kind \notin incidents
  /\ Cardinality(incidents) < MaxIncidents
  /\ incidents' = incidents \cup {kind}

Start(h, state) == handler[h] = Idle /\ handler' = [handler EXCEPT ![h] = state]
Continue(h, state) == handler' = [handler EXCEPT ![h] = state]
Finish(h) == Continue(h, Idle)
At(h, pc) == handler[h].pc = pc

-------------------------------------------------------------------------------
(***************************************************************************)
(* Preparing the task                                                      *)
(***************************************************************************)
CreateTask ==
  /\ status = NoTask
  /\ status' = Unpublished
  /\ assignees' \in SUBSET User
  /\ UNCHANGED <<items, gone, drafts, tables, handler, counters, incidents>>

\* The status is checked here, but not where the items are replaced.
UpdateTaskItems(h) ==
  /\ status = Unpublished
  /\ \E chosen \in SUBSET (Asset \ gone) : Start(h, [pc |-> "items", chosen |-> chosen])
  /\ UNCHANGED <<task, gone, drafts, tables, counters, incidents>>

ReplaceTaskItems(h) ==
  /\ At(h, "items")
  /\ items' = handler[h].chosen
  /\ IF status = Unpublished THEN UNCHANGED incidents ELSE Incident("late")
  /\ Finish(h)
  /\ UNCHANGED <<status, assignees, gone, drafts, tables, counters>>

\* Mutant: the status is not checked.
PublishAgain ==
  /\ status # NoTask
  /\ items # {}
  /\ assignees # {}
  /\ status' = Running
  /\ UNCHANGED <<assignees, items, gone, drafts, tables, handler, counters, incidents>>

PublishTask ==
  /\ status = Unpublished
  /\ items # {}
  /\ assignees # {}
  /\ status' = Running
  /\ UNCHANGED <<assignees, items, gone, drafts, tables, handler, counters, incidents>>

\* An asset is deleted through asset-api.
AssetDeleted(a) ==
  /\ a \notin gone
  /\ status \in {Running, Archived}
  /\ Incident("deleted")
  /\ gone' = gone \cup {a}
  /\ UNCHANGED <<task, drafts, tables, handler, counters>>

-------------------------------------------------------------------------------
(***************************************************************************)
(* Submit.  The task's status is read once; the assets of the request are  *)
(* written one after the other.                                            *)
(***************************************************************************)
\* A task without items is for all the assets of the department.
Expected == IF items = {} THEN Asset \ gone ELSE items \ gone

Submit(h) ==
  /\ status = Running
  /\ submits < MaxSubmits
  /\ \E u \in User :
       LET open == IF u \in assignees THEN Expected ELSE Asset \ gone
       IN \E todo \in SUBSET open \ {{}} :
            Start(h, [pc |-> "submit", operator |-> u, todo |-> todo])
  /\ submits' = submits + 1
  /\ clock' = clock + 1
  /\ UNCHANGED <<task, gone, drafts, tables, started, commits, cut, lapses, incidents>>

WriteDraft(h, a) ==
  /\ At(h, "submit")
  /\ a \in handler[h].todo
  /\ \E c \in Cells :
       LET u == handler[h].operator
           older == {e \in drafts[a] : e.operator = u}
       IN drafts' = [drafts EXCEPT ![a] = (@ \ older) \cup
                       {[operator |-> u, cells |-> c, at |-> clock]}]
  /\ LET todo == handler[h].todo \ {a}
     IN Continue(h, IF todo = {} THEN Idle ELSE [handler[h] EXCEPT !.todo = todo])
  /\ UNCHANGED <<task, gone, tables, counters, incidents>>

-------------------------------------------------------------------------------
(***************************************************************************)
(* Archive                                                                 *)
(***************************************************************************)
Archive(h) ==
  /\ status = Running
  /\ IF started THEN Incident("again") ELSE UNCHANGED incidents
  /\ started' = TRUE
  /\ Start(h, [pc |-> "archive"])
  /\ UNCHANGED <<task, gone, drafts, tables, clock, submits, commits, cut, lapses>>

\* The row for an asset with drafts, one of which was picked, or without.
ScannedRow(picked, known) ==
  [known |-> known, operator |-> picked.operator, scanned |-> TRUE,
   location |-> picked.cells.location, diff |-> Undecided]

MissingRow == [known |-> TRUE, operator |-> Nobody, scanned |-> FALSE,
               location |-> Nowhere, diff |-> Undecided]

\* Mutant: drafts of assets that are not expected are left out.
RowsOfExpected(entries, assigned, expected) ==
  [a \in Asset |->
     IF a \notin expected \/ HasAssigneeConflict(entries[a], assigned) THEN {NoRow}
     ELSE IF entries[a] = {} THEN {MissingRow}
     ELSE {ScannedRow(e, TRUE) : e \in PickConsensus(entries[a], assigned)}]

\* Mutant: expected assets without a draft are left out.
RowsOfDrafts(entries, assigned, expected) ==
  [a \in Asset |->
     IF entries[a] = {} \/ HasAssigneeConflict(entries[a], assigned) THEN {NoRow}
     ELSE {ScannedRow(e, a \in expected) : e \in PickConsensus(entries[a], assigned)}]

\* The rows an asset may be given: that of the draft picked unless the assignees
\* disagree, an unscanned one for an expected asset without drafts.
RowsOf(entries, assigned, expected) ==
  [a \in Asset |->
     IF entries[a] # {} /\ ~HasAssigneeConflict(entries[a], assigned)
     THEN {ScannedRow(e, a \in expected) : e \in PickConsensus(entries[a], assigned)}
     ELSE IF entries[a] = {} /\ a \in expected THEN {MissingRow} ELSE {NoRow}]

CandidatesOf(entries, assigned) ==
  [a \in Asset |->
     IF HasAssigneeConflict(entries[a], assigned) THEN AssigneeEntries(entries[a], assigned)
     ELSE {}]

\* The three reads whose failure counts as an empty answer.
ArchiveRead(h) ==
  /\ At(h, "archive")
  /\ \E lost \in {"nothing", "drafts", "assignees", "assets"} :
       LET entries == IF lost = "drafts" THEN [a \in Asset |-> {}] ELSE drafts
           assigned == IF lost = "assignees" THEN {} ELSE assignees
           expected == IF lost = "assets" THEN {} ELSE Expected
           choices == RowsOf(entries, assigned, expected)
       IN /\ \E rows \in [Asset -> UNION Range(choices)] :
               /\ \A a \in Asset : rows[a] \in choices[a]
               /\ Continue(h, [pc |-> "records", rows |-> rows,
                               candidates |-> CandidatesOf(entries, assigned), read |-> clock])
          /\ IF lost = "nothing" THEN UNCHANGED incidents ELSE Incident(lost)
  /\ clock' = clock + 1
  /\ UNCHANGED <<task, gone, drafts, tables, submits, started, commits, cut, lapses>>

HasKnownRow(a) == \E i \in DOMAIN records[a] : records[a][i].known

\* Mutant: a plain INSERT on a table without the unique index.
InsertAlways(a, row) == Append(records[a], row)

\* ON CONFLICT DO NOTHING, which surplus rows never meet.
InsertRow(a, row) == IF row.known /\ HasKnownRow(a) THEN records[a] ELSE Append(records[a], row)

Disputed(h) == {a \in Asset : handler[h].candidates[a] # {}}

ArchiveTask(h) ==
  /\ At(h, "records")
  /\ \A a \in Disputed(h) : conflicts[a] = NoConflict
  /\ records' = [a \in Asset |->
                   IF handler[h].rows[a] = NoRow THEN records[a]
                   ELSE InsertRow(a, handler[h].rows[a])]
  /\ conflicts' = [a \in Asset |->
                     IF a \in Disputed(h)
                     THEN [pending |-> TRUE, candidates |-> handler[h].candidates[a]]
                     ELSE conflicts[a]]
  /\ status' = Archived
  /\ commits' = commits + 1
  /\ cut' = IF commits = 0 THEN handler[h].read ELSE cut
  /\ IF Disputed(h) = {} THEN Continue(h, [pc |-> "compare"]) ELSE Finish(h)
  /\ UNCHANGED <<assignees, items, gone, drafts, clock, submits, started, lapses, incidents>>

\* uk_conflict_task_asset: another archive has recorded one of the conflicts.
ArchiveFails(h) ==
  /\ At(h, "records")
  /\ \E a \in Disputed(h) : conflicts[a] # NoConflict
  /\ Finish(h)
  /\ UNCHANGED <<task, gone, drafts, tables, counters, incidents>>

-------------------------------------------------------------------------------
(***************************************************************************)
(* Resolving a conflict                                                    *)
(***************************************************************************)
Pending == {a \in Asset : conflicts[a].pending}

\* An assignee's version, blank or not, or a location of the administrator's own,
\* which is not blank.  Without an answer of asset-rpc, or with an error for one,
\* the asset is taken for a surplus one.
ResolveConflict(h, a) ==
  /\ status = Archived
  /\ a \in Pending
  /\ \E answered \in BOOLEAN :
       /\ IF answered THEN UNCHANGED incidents ELSE Incident("assets")
       /\ \E verdict \in {[operator |-> e.operator, location |-> e.cells.location] :
                            e \in conflicts[a].candidates}
                         \cup {[operator |-> Nobody, location |-> TrimSpace(c.location)] :
                                 c \in {d \in Cells : TrimSpace(d.location) # Nowhere}} :
            Start(h, [pc |-> "resolve", asset |-> a,
                      row |-> [known |-> answered /\ a \notin gone,
                               operator |-> verdict.operator, scanned |-> TRUE,
                               location |-> verdict.location, diff |-> Undecided]])
  /\ UNCHANGED <<task, gone, drafts, tables, counters>>

\* Mutant: the conflicts are counted before this one is marked as resolved.
LastPendingEarly(a) == Pending = {}

\* Mutant: the conflict being resolved is counted as well, as one allowed.
LastPendingOff(a) == Cardinality(Pending \cup {a}) <= 2

LastPending(a) == Pending = {a}

\* The transaction: FOR UPDATE makes resolutions of one conflict wait, but the
\* count of the others sees only what is committed.
ResolveTx(h) ==
  /\ At(h, "resolve")
  /\ handler[h].asset \in Pending
  /\ \A g \in Handler : At(g, "commit") => handler[g].asset # handler[h].asset
  /\ Continue(h, [pc |-> "commit", asset |-> handler[h].asset, row |-> handler[h].row,
                  all |-> LastPending(handler[h].asset)])
  /\ overlapped' = (overlapped \/ \E g \in Handler : At(g, "commit"))
  /\ UNCHANGED <<task, gone, drafts, tables, clock, submits, started, commits, cut, spoiled, incidents>>

AlreadyResolved(h) ==
  /\ At(h, "resolve")
  /\ handler[h].asset \notin Pending
  /\ Finish(h)
  /\ UNCHANGED <<task, gone, drafts, tables, counters, incidents>>

\* Mutant: ON CONFLICT DO NOTHING, as at the archive.
UpsertIgnored(a, row) ==
  IF row.known /\ HasKnownRow(a) THEN records[a] ELSE Append(records[a], row)

\* ON CONFLICT DO UPDATE
Upsert(a, row) ==
  IF row.known /\ HasKnownRow(a)
  THEN [i \in DOMAIN records[a] |-> IF records[a][i].known THEN row ELSE records[a][i]]
  ELSE Append(records[a], row)

ResolveCommit(h) ==
  LET a == handler[h].asset
      row == handler[h].row
  IN /\ At(h, "commit")
     /\ records' = [records EXCEPT ![a] = Upsert(a, row)]
     /\ conflicts' = [conflicts EXCEPT ![a] =
                        [pending |-> FALSE, candidates |-> @.candidates,
                         operator |-> row.operator, location |-> row.location]]
     /\ IF handler[h].all THEN Continue(h, [pc |-> "compare"]) ELSE Finish(h)
     /\ UNCHANGED <<task, gone, drafts, counters, incidents>>

-------------------------------------------------------------------------------
(***************************************************************************)
(* Comparison with the book                                                *)
(***************************************************************************)
\* The count of pending conflicts is 0 when it cannot be read.
Compare(h) ==
  /\ status = Archived
  /\ IF Pending = {} THEN UNCHANGED incidents ELSE Incident("count")
  /\ Start(h, [pc |-> "compare"])
  /\ UNCHANGED <<task, gone, drafts, tables, counters>>

UndecidedRows ==
  UNION {{[asset |-> a, index |-> i, row |-> records[a][i]] :
            i \in {j \in DOMAIN records[a] : records[a][j].diff = Undecided}} : a \in Asset}

RunRead(h) ==
  /\ At(h, "compare")
  /\ IF UndecidedRows = {}
     THEN /\ status' = IF status = Archived THEN Compared ELSE status
          /\ Finish(h)
     ELSE /\ Continue(h, [pc |-> "run", todo |-> UndecidedRows])
          /\ UNCHANGED status
  /\ UNCHANGED <<assignees, items, gone, drafts, tables, counters, incidents>>

\* asset-rpc answers an error with status 200, the deletion of the asset too: the
\* comparison reads the error as an asset, and finds no location in it.
Book(a) == IF a \in gone THEN Nowhere ELSE BookLocation[a]

\* Mutant: the texts are compared as they were typed.
DecisionByText(row, book) ==
  IF ~row.known THEN Surplus
  ELSE IF row.scanned /\ row.location = book THEN Match
  ELSE Loss

Decision(row, book) ==
  IF ~row.known THEN Surplus
  ELSE IF row.scanned /\ SameLocation(row.location, book) THEN Match
  ELSE Loss

\* The decision is on the row as it was read, written to the row as it is.
Decide(h, t, book) ==
  /\ At(h, "run")
  /\ t \in handler[h].todo
  /\ records' = [records EXCEPT ![t.asset][t.index].diff = Decision(t.row, book)]
  /\ Continue(h, [handler[h] EXCEPT !.todo = @ \ {t}])
  /\ UNCHANGED <<task, gone, drafts, conflicts, clock, submits, started, commits, cut, overlapped>>

RunRow(h, t) ==
  /\ Decide(h, t, Book(t.asset))
  /\ UNCHANGED <<spoiled, incidents>>

\* The asset is fetched, and asset-rpc could not read it.
RunRowOnError(h, t) ==
  /\ t.row.known /\ t.row.scanned
  /\ Decide(h, t, Nowhere)
  /\ Incident("answer")
  /\ spoiled' = spoiled \cup {t.asset}

\* There is no answer for the asset, or the update of the row fails: the row is
\* left and the comparison goes on.
RunRowFails(h, t) ==
  /\ At(h, "run")
  /\ t \in handler[h].todo
  /\ Incident("row")
  /\ spoiled' = spoiled \cup {t.asset}
  /\ Continue(h, [handler[h] EXCEPT !.todo = @ \ {t}])
  /\ UNCHANGED <<task, gone, drafts, tables, clock, submits, started, commits, cut, overlapped>>

\* Unlike RunRead this does not look at the status.
RunFinish(h) ==
  /\ At(h, "run")
  /\ handler[h].todo = {}
  /\ status' = Compared
  /\ Finish(h)
  /\ UNCHANGED <<assignees, items, gone, drafts, tables, counters, incidents>>

\* A statement fails or the process stops, which ends a comparison half way.  A
\* request that ends early leaves what one with less to do, or none, leaves.
Abort(h) ==
  /\ At(h, "compare") \/ At(h, "run")
  /\ Incident("abort")
  /\ Finish(h)
  /\ UNCHANGED <<task, gone, drafts, tables, counters>>

HandlerStep(h) ==
  \/ ReplaceTaskItems(h)
  \/ \E a \in Asset : WriteDraft(h, a)
  \/ ArchiveRead(h) \/ ArchiveTask(h) \/ ArchiveFails(h)
  \/ ResolveTx(h) \/ AlreadyResolved(h) \/ ResolveCommit(h)
  \/ RunRead(h) \/ RunFinish(h)
  \/ At(h, "run") /\ \E t \in handler[h].todo :
                     RunRow(h, t) \/ RunRowOnError(h, t) \/ RunRowFails(h, t)

InvNext ==
  \/ CreateTask \/ PublishTask
  \/ \E a \in Asset : AssetDeleted(a)
  \/ \E h \in Handler :
       \/ UpdateTaskItems(h) \/ Submit(h) \/ Archive(h) \/ Compare(h)
       \/ \E a \in Asset : ResolveConflict(h, a)
       \/ HandlerStep(h) \/ Abort(h)

InvSpec == InvInit /\ [][InvNext]_invVars
-------------------------------------------------------------------------------
(***************************************************************************)
(* Properties                                                              *)
(***************************************************************************)
\* Every variable has its type.
InvTypeOK ==
  /\ status \in NoTask .. Compared
  /\ assignees \subseteq User /\ items \subseteq Asset /\ gone \subseteq Asset
  /\ \A a \in Asset : \A e \in drafts[a] \cup conflicts[a].candidates :
       e.operator \in User /\ e.cells \in Cells /\ e.at \in 1 .. clock
  /\ records \in [Asset -> Seq(Row)]
  /\ \A a \in Asset : conflicts[a].pending \in BOOLEAN
  /\ submits \in 0 .. MaxSubmits /\ clock \in 0 .. MaxSubmits + 2
  /\ started \in BOOLEAN /\ commits \in 0 .. 2 /\ cut \in 0 .. clock
  /\ spoiled \subseteq Asset /\ overlapped \in BOOLEAN

Happened(kinds) == incidents \cap kinds # {}

\* What was recorded when the first archive committed is not disturbed by a
\* second one that had read the task as running before that.
Once == commits <= 1

CountedAtCut(a) == {e \in drafts[a] : e.at <= cut}

\* Archive: a draft that was there when the archive read the drafts is in a
\* scanned row or in a conflict, unless the drafts could not be read.
DraftsReachRecords ==
  commits > 0 /\ ~Happened({"drafts"}) =>
    \A a \in Asset : CountedAtCut(a) # {} =>
      \/ conflicts[a] # NoConflict
      \/ \E i \in DOMAIN records[a] : records[a][i].scanned

\* Archive and ResolveConflict: every item of the task has a row, known to the
\* book, or a conflict, and none is ever booked as surplus, unless the items
\* changed after the publication or could not be read.
ItemsAreRecorded ==
  ~Happened({"assets", "late"}) =>
    \A a \in items \ gone :
      /\ commits > 0 => HasKnownRow(a) \/ conflicts[a] # NoConflict
      /\ \A i \in DOMAIN records[a] : records[a][i].known

\* uk_task_asset: one row at most for a known asset, however archives and
\* resolutions overlap; surplus rows pile up only with the archives.
OneRowPerArchive ==
  \A a \in Asset :
    /\ Cardinality({i \in DOMAIN records[a] : records[a][i].known}) <= 1
    /\ Len(records[a]) <= commits + (IF "operator" \in DOMAIN conflicts[a] THEN 1 ELSE 0)

\* The types together with what the unique index keeps.
InvInv == InvTypeOK /\ OneRowPerArchive

\* ResolveConflict: the verdict on a conflict is in a row, and stays there.
VerdictIsRecorded ==
  \A a \in Asset : "operator" \in DOMAIN conflicts[a] =>
    \E i \in DOMAIN records[a] :
      /\ records[a][i].operator = conflicts[a].operator
      /\ records[a][i].location = conflicts[a].location

\* From the drafts to the comparison: an asset is a match only if each assignee
\* who counted it, or the verdict on their conflict, has it where the book has
\* it, a loss only if they have not, and surplus only if it was no item.  Not so
\* for an asset whose row was decided on an error of asset-rpc, which the code
\* takes for the answer: that is a loss, or a match if the row has no location.
DifferenceIsReal ==
  Once /\ ~Happened({"drafts", "assignees", "assets", "deleted", "late"}) =>
    \A a \in Asset \ spoiled : \A i \in DOMAIN records[a] :
      LET places == IF conflicts[a] # NoConflict THEN {conflicts[a].location}
                    ELSE {e.cells.location : e \in {f \in CountedAtCut(a) : f.operator \in assignees}}
          diff == records[a][i].diff
      IN /\ diff = Match => \A p \in places : SameLocation(p, BookLocation[a])
         /\ diff = Loss => \A p \in places : ~SameLocation(p, BookLocation[a])
         /\ diff = Surplus => a \notin items

\* inventorycmp.Run sets the status without looking: it is right all the same,
\* in a task archived once, that a compared task has no conflict pending, unless
\* the count of conflicts failed, and no row undecided but those of the assets
\* the comparison passed over.
ComparedIsSettled ==
  status = Compared /\ Once /\ ~Happened({"count"}) =>
    Pending = {} /\ \A t \in UndecidedRows : t.asset \in spoiled

\* ArchiveTask, ResolveConflict, Run: however many archives and comparisons
\* overlap, a task is not left archived with nothing to resolve and no comparison
\* under way, with two exceptions: a comparison was broken off, or two conflicts
\* were resolved at once, when neither transaction saw the other's.  Nothing in
\* the code takes such a task up again but a request to compare it.
ComparisonIsUnderWay ==
  status = Archived /\ Pending = {} =>
    \/ \E h \in Handler : At(h, "compare") \/ At(h, "run")
    \/ Happened({"abort"})
    \/ overlapped

\* PublishTask, ArchiveTaskWithConflicts, Run: the status is set without a look
\* at it in two of the three, and still goes back only if two archives overlapped
\* and the later one committed after a comparison.
BackOnlyByOverlap ==
  [][status' < status => commits' > 1]_invVars
===============================================================================
