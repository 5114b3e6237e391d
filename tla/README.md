# FAMS in TLA+

TLA+ specifications, TLC models and TLAPS proofs for the back end of FAMS, a fixed-asset
management system for a university (`src/backend`, Go). Assets are kept in a ledger; staff ask
to use, return, repair or scrap one; a college and then the school approve; an event carries the
decision to the ledger; and every now and then the ledger is compared with what people find in
the rooms.

Paths below are relative to `src/backend`.

## 1. The system

```
  users -> workflow-api --CheckAssetForWorkflow--> asset-rpc --+
               |                                               |  reads
   request, log, outbox (PostgreSQL)                           v
               |                                        asset_ledger (MySQL) <-- asset-api <- users
        outbox-dispatcher --> Kafka topic --> asset-consumer --^
                              (key: asset id)   dedup + status machine

  users -> inventory-api -> drafts (MongoDB, Redis locks) -> records, conflicts (PostgreSQL)
                                                          -> comparison -> difference summary
  users -> user-api -> users, departments (PostgreSQL), token black list (Redis)
  users -> report-api -> job row + Redis list -> export-worker -> CSV file
```

| Component | State | Operations | Correct when |
|---|---|---|---|
| workflow-api (`service/workflow/api`, `service/workflow/model`) | `workflow_request`, `workflow_log`, `workflow_outbox`; per HTTP request the row it read | Create, Approve, Reject (List and Detail only read) | one open request per asset; exactly one event per archived request, and the right one; the log is true, complete but for failed inserts, and signed by the right people |
| outbox-dispatcher (`pkg/outbox`, `service/workflow/outbox-dispatcher`) | row status and retry count; per instance a transaction over a batch | PollAndSend, markRetry, Run | what is marked as sent was handed to the broker; duplicates and overtaking only for a reason; a row is given up after `maxRetry` recorded failures; settled rows stay settled |
| asset-consumer (`service/asset/consumer`, `service/asset/logic`, `service/asset/model`) | `asset_ledger`, `asset_event_dedup`, the offsets of its consumer group | fetch, dedup, status check, update, acknowledge | an event takes effect at most once, and at least once but for the failures that explain it; only legal changes of status while one instance at a time works on an asset |
| asset-rpc (`service/asset/rpc`) | none of its own | CheckAssetForWorkflow, GetAsset, CheckAssetScope, ListByDept, ChangeAssetStatus (no caller) | answers from the current ledger |
| asset-api (`service/asset/api`) | `asset_ledger` | Create, Update, Delete | no session moves or brings back a deleted asset; sessions act within the user's departments |
| inventory-api (`service/inventory`), `pkg/inventorycmp` | a task (draft, running, archived, compared) with items and assignees; drafts in MongoDB; conflicts and records in PostgreSQL; per request what it read | CreateTask, UpdateTaskItems, PublishTask, Submit, Archive, ResolveConflict, Compare; the comparison in a goroutine | drafts that were there at the archive reach a record or a conflict; items are accounted for once; verdicts stay; the comparison says what the assignees found, and takes place |
| `pkg/redislock`, Submit's version check | a lock and a draft per operator and asset | TryLock, Unlock; Submit, Drafts | one submission of an operator at a time; no edit replaced unseen |
| `pkg/inventorydraft`, `pkg/strnorm` | none: functions of the drafts of an asset | LatestPerOperator, HasAssigneeConflict, PickConsensus, Location | conflicts are about words, not spelling; without a conflict any draft picked speaks for all |
| user-api, `pkg/middleware` | `sys_user`, tokens given out, black list of token ids | Login, Refresh, Logout, CreateUser, ListUsers, UpdateUserStatus, JWTAuth | claims are those of the account; a disabled account is served no longer than its last access token lives; a sign-out lasts |
| department tree (`pkg/dept`) | `sys_department` with materialised paths | CreateDept, SubtreeIDs, CollegeSubtreeIDs, DeptTree | paths describe the tree; colleges do not overlap; the tree shown is the scope used |
| report-api, export-worker | `rpt_export_job`, a Redis list, CSV files | Export, the BRPop loop | a job is generated once, done means complete, outcomes are final, every job gets one |

Where they meet: workflow-api asks asset-rpc over HTTP before it inserts a request; workflow-api
and the dispatcher share `workflow_outbox`; the dispatcher and the consumer share the topic; the
consumer and asset-api share the ledger, which asset-rpc reads. inventory-api asks asset-rpc for the
book at the archive, in the comparison and for the scope of a draft. All services run the token
middleware and the department paths; only user-api gives the middleware a Redis client. No
transaction spans two services; within one, `ApproveStage2AndArchive`, `PublishTask`,
`ReplaceTaskItems`, `ArchiveTaskWithConflicts` and `ResolveConflict` are transactions, the other
paths are single statements.

What is hard:

* **Interleaving.** A handler decides on a row it read in an earlier statement. The conditions
  that protect it are in the `WHERE` of its update, and not all of them mention everything the
  decision looked at (`model/models.go:270`, `assetledgermodel.go:176`).
* **Effects outside the transaction.** The dispatcher's sends happen inside a database transaction
  that cannot undo them.
* **Delivery.** Events are delivered at least once and can be overtaken; the consumer removes
  duplicates with a unique constraint that it commits before the effect.
* **Crashes, rebalances, failing statements** between any two statements of the consumer.
* **Errors taken for empty answers.** The archive goes on without the drafts, the assignees or the
  items it could not read; ids of failed queries are 0; Redis is asked with its errors ignored.
* **Ids of MAX + 1**, read in a statement of their own (departments, users, conflicts, export jobs).
* **Time as a version.** Drafts are versioned by a clock cut to milliseconds, locks expire.
* **Work outside any store.** A comparison is a goroutine, a popped export job is in nobody's queue.
* **Stale ledger.** Between the final approval and the arrival of its event the ledger that checks
  the next request is out of date.

`PROJECT.json` lists each hazard with its line and the properties that watch it.

## 2. Modules

| Module | Models | Lines of code it stands for |
|---|---|---|
| `AssetRules` | statuses, request types, `CheckAssetForWorkflow`, `eventMap`, the status machine | `service/asset/logic/assetlogic.go`, `workflowhandler.go:286-296` |
| `Workflow` | workflow-api: every SQL statement a step | `workflowhandler.go`, `service/workflow/model/models.go`, the index in `deploy/sql/postgres/001_init.sql` |
| `Approval` | the abstract promise of workflow-api (no code of its own) | |
| `OutboxDispatcher` | several dispatcher instances over the outbox and the topic | `pkg/outbox/dispatcher.go`, `outbox-dispatcher/main.go` |
| `AssetService` | asset-consumer and asset-api over ledger, dedup table and consumer group | `service/asset/consumer/main.go`, `assetledgermodel.go`, `assethandler.go`, `assetlogic.go` |
| `Lifecycle` | the composition of the three over the outbox and the topic, with asset-rpc in between | |
| `InventoryDraft` | the merging of drafts and the normal forms of texts, as operators | `pkg/inventorydraft`, `pkg/strnorm` |
| `DraftStore` | Submit and Drafts for one asset: lock, scope, version check | `invhandler.go:281-455`, `:779-856`, `pkg/redislock/lock.go` |
| `Inventory` | one task from its creation to the comparison | `invhandler.go`, `invconflict.go`, `invitems.go`, `service/inventory/model`, `pkg/inventorycmp/comparison.go` |
| `DeptPath` | paths, subtrees, colleges and the tree of `DeptTree`, as operators | `pkg/dept/path.go`, `userhandler.go:188-233` |
| `Accounts` | user-api with the token middleware, over `DeptPath` | `userhandler.go`, `pkg/middleware/jwt.go`, `service/user/model` |
| `ExportJob` | report-api's Export and the export workers | `reporthandler.go:246-292`, `export-worker/main.go` |
| `WorkflowProofs`, `OutboxDispatcherProofs`, `AssetServiceProofs`, `LifecycleProofs`, `DraftStoreProofs`, `InventoryProofs`, `ExportJobProofs`, `AccountsProofs` | theorems about the module each is named after (section 4) | |
| `MC*` | values for TLC | |

### Workflow

A table is a partial function from ids to rows, the outbox a sequence in id order, `handler[h]`
the HTTP request being served by `h`: `pc` names the statement that comes next and the other
fields are the Go variables still needed. One handler's path:

| Code | Steps |
|---|---|
| `Create` | `CreateChecked` (decode, `callCheckAsset`) -> `Insert` or `RefuseDuplicate` (the partial unique index) -> `InsertLog` |
| `Approve` | `ApproveRead` (FindByID and permission check) -> `ApproveStage1` -> `InsertLog`, or `ApproveStage2AndArchive`, or `LoseRace` (no row affected) |
| `Reject` | `RejectRead` -> `Reject` -> `InsertLog`, or `LoseRace` |

`Abandon` ends a handler between any two steps: the queries run in the context of the HTTP
request, so a client that disconnects, a failing statement and a crash of the process all leave
what was done so far. Create's read of the ledger and the permission check that follows a
`FindByID` touch nothing shared and belong to the step of the read. `log` is a set of (request,
operator, action): the log has more columns, nothing reads them. Database ids are handed out by
the database, so `Insert` takes any id not in use.

Two history variables say where the code falls short of its rules: `overtaken`, the requests that
were forwarded while a handler held a rejection it had been allowed at stage 1, and `unlogged`, the
log entries that died with their handler after its update was made.

The event is built from the row the handler had read, except the asset id, which
`ApproveStage2AndArchive` reads in the same transaction (`models.go:246-248`).

### OutboxDispatcher

`tx[d]` is the transaction of instance `d`: the rows its poll locked and the outcome recorded for
each row handled so far. `Poll` is the `SELECT ... FOR UPDATE SKIP LOCKED`, `Send` and `SendFails`
one iteration of the loop, `Commit` publishes all the outcomes at once, `Rollback` none. A failed
send may have written its message (a timeout). A `Send` without an error may be lost by the broker, up
to `MaxLost` times: the writer is built without `RequiredAcks`, whose zero value awaits no
acknowledgement. History: `lost`, and `failed`, the sends of each row that really failed, which a
rollback does not undo. Rows are
committed in id order: `workflow_outbox.id` comes from a sequence and a second transaction could
commit first, but no two transactions queue events of one asset at the same time (one open request
per asset), and order is only ever claimed per asset.

### AssetService

`worker[c]` is the message instance `c` has in hand and the statement that comes next: `dedup`,
`read` (FindByID and the status machine), `write` (ChangeStatus), `ack`. `position` and `committed`
are the group's offsets. `Crash` and `Rebalance` model the library (they are the two external
definitions): after either, the partition is fetched from its committed offset again, and an old
owner goes on with what it has, its acknowledgement being refused. Up to `MaxFailures`
statements fail, the way the loop handles each: `DedupFails` goes on with the next message, `ChangeFails` and
`AckFails` are logged and ignored. Messages that are not JSON are left out: the dispatcher sends
none.

asset-api sessions read the row (`ReadForDelete`, `ReadForUpdate`, with the scope check on what was
read) and write later (`WriteAsset`), or stop (`AbandonSession`). Both writes repeat the condition on `deleted_at`;
the consumer's `ChangeStatus` does not, and sets the status of a row deleted after it had read it. `Create` checks no scope, and
the code does not either. `departmentId` 0 is `NoDept`.

`applied`, `refused`, `takenOver` and the counts of `faults` are history: what was written to each row, which requests
the status machine refused, the assets whose partition was taken from an instance with an event of
theirs in hand, and how often each kind of call failed (`dedup`, `change`, `ack`) or an instance died.

### Lifecycle

Extends `Workflow` and instantiates the other two over the shared `outbox` and `topic`.
`CreateChecked` gets its submission only if `AssetRpcAccepts` it on the ledger of that moment, which
also supplies the department. The topic is filled by the dispatcher (`Arrive` is gone), and the
partition of an event is that of its asset id, the writer's key.

### InventoryDraft

An entry is the draft of an operator: cells and the time it was written. The code compares four
texts; `location` and `notes` stand for the two ways it does that (`Location` merges runs of spaces,
`Normalize` does not). A text is a sequence of characters of which four are told apart: a space, an
ideographic space, a letter and its full-width form. Where the result depends on the order of a Go
map or of a Mongo cursor (`Newest`, `PickConsensus`), the operator gives the set of possible results.

### DraftStore

A session is a browser window with the request it has under way; windows of one operator share
the draft and the lock, whose key and value both hold the user id.

| Code | Steps |
|---|---|
| `Submit` for one asset | `Submit` (task read, `TryLock`) -> `CheckScope` (asset-rpc, items, clock) or `RefuseScope` -> `WriteDraft` or `WriteRefused` -> `Release` |
| `Drafts` | `ReadDrafts` |

`Abort` ends a request between two steps, the lock then stays; `Expire` is Redis's, counted as a
failure when the owner is still at work (30 seconds). `view` is what a window knows: the version it
sends as `expectedUpdatedAt` and, as history, whether that is the latest edit. `listed` says whether
the request's query for the items of the task answered (an error counts as "no items"). The clock
ticks in milliseconds, the precision of `updated_at`.

### Inventory

`handler[h]` is a request or a comparison under way: Archive's `ArchiveRead` (three reads and the
computation of rows and conflicts) and `ArchiveTask` (the transaction); ResolveConflict's reads and
its transaction in two steps, because the count of pending conflicts sees only what others have
committed (`ResolveTx`, `ResolveCommit`); `RunRead`, a `RunRow` for each row, `RunFinish` of
`inventorycmp.Run`. A handler whose request leaves a comparison behind goes on as that comparison.

`records[a]` are the rows that stem from asset `a`: `known` when the row has the asset's id, which
is what the unique index covers. `conflicts[a]` keeps its candidates and, once resolved, the verdict.
An `Incident` is a kind of thing that can go wrong: a read of the drafts, assignees or items that
fails and counts as empty, items replaced after the publication, a second archive, an asset
deleted, a comparison cut short, a row whose asset could not be fetched or updated, an error of asset-rpc
that is taken for the asset, a pending count that could not be read. The last but one is `RunRowOnError`:
`rpcErr` (`service/asset/rpc/asset.go:101-104`) answers every error with status 200 and a JSON body, in which
`fetchAsset` finds no location (`comparison.go:104-125`), so a scanned row becomes a loss, or a match if it has no
location itself; `RunRowFails` is a call without an answer. Either puts the asset into `spoiled`. Each kind happens at most once, and at most `MaxIncidents` kinds in one behaviour; properties
that an incident excuses name it. `overlapped` records that two
resolutions were between their count and their commit at once. Drafts are dated by a counter, so that `cut`, the moment the first archive
had read them, can be compared with them; time as a version is the subject of `DraftStore`.

The single-asset steps of a draft (lock, scope, version) are not repeated: `WriteDraft` is a
submission that `DraftStore` lets through. The cursor over the drafts is read as a whole or not at all.

### DeptPath and Accounts

A path is text, a sequence of digits and slashes, because the code finds subtrees by comparing
prefixes of texts. `SubtreeIDs`, `CollegeSubtreeIDs` and `ToTree` are translated as they are; `DeptTree`
and `DeptScope` are what user-api answers and what the other services compute.

`Accounts` is user-api: `Login` and `Refresh` read the account, `Mint` issues the pair of tokens (a
refresh puts its token on the black list first), `Authenticate` is the middleware in front of
`Logout`, `CreateDept` (`FindParent`, `DeptID`, `InsertDept`), `CreateUser` (`CheckUser`, `UserID`,
`InsertUser`) and `UpdateUserStatus` (`CheckStatus`, `UpdateStatus`). `CheckUser` restricts callers of role 2 only, as
the code does: the others, role 3 included, may ask for any role and department. A token is the pair of access and
refresh token with their common claims; its id is the microsecond it was made in, as in the code. A
tick of the clock is a unit of a token's life. `since`, `late`, `logouts`, `unwritten`, `stale`, the `seen` of a
token and the `maker` of an account are history.

### ExportJob

A handler's path is `JobID`, `InsertJob`, `Push`; a worker's `Pop`, `MarkRunning`, `CreateFile`, `WriteRows`,
`Settle`. Every store call can fail, once per `MaxFaults`, the way the code deals with it: the
errors of the push, of the status updates and of the CSV writer are ignored. `Stop` and `Start` are the
process. `source` are the rows of the exported tables, which the other services add, and `deleted` the assets
that carry a `deleted_at`, which an export leaves out (`Readable`); nothing else is taken away. `asked` (all rows of the
table when the job was ordered), `lost` and `torn` are history.

## 3. Runs

TLC, two workers. *pass* runs explore all reachable states of their instance.

| Run | Instance | Shows | States |
|---|---|---|---|
| `workflow` | 3 handlers, 1 asset, 2 requests, 4 users (staff, two college admins with different departments, school) | `OneOpenPerAsset`, `EventIffArchived`, `AuditTruthful` (`LogIsTrue`, `NothingMissing`), `SignedByAuthority`, `WfTypeOK`, and that `Approval` is implemented | 940 k |
| `outbox` | 2 instances, 3 events, 2 partitions, `maxRetry` 2, batches of 2, 1 rollback, 1 message lost by the broker | `ObInv` (types and `SentIsPublished`), `DuplicatesExplained`, `DeadAfterMaxRetry`, `OvertakenOnlyIfFailed`, `SettledIsFinal` | 1.7 M |
| `asset` | 2 consumers, 1 partition, 1 asset that is created on the way, 2 events (use, scrap), at most 3 messages, 1 failing statement, 1 crash, 1 rebalance, two admins using asset-api | `AsInv` (types and `AppliedAtMostOnce`), `LossesExplained`, `LegalUnlessTakenOver`, `DeletedStaysPut` | 1.6 M |
| `lifecycle_safety` | all three, 1 asset, 2 requests (use, return), 1 dispatcher, 2 consumers, failing sends, 1 message lost by the broker, 1 failing statement, 1 crash, 1 rebalance | `AppliedWasGranted`, `HeldByGrantee` | 910 k |
| `lifecycle_live` | the same with one consumer, without losses, crash and failing statements, starting from an empty ledger | `GrantEventuallySettled` | 313 k |
| `drafts` | 2 windows of one operator and 1 of another, 3 submissions, clock of 2 ms, 1 failure, Redis present or absent, asset an item or not, 3 sets of assignees | `DsInv` (types and `OneInside`), `VersionsAdvance`, `NoUnseenOverwrite`, `ConflictIsOfWords`, `ConsensusSpeaksForAll` | 857 k |
| `inventory` | 2 assets, 2 users, 2 requests at a time, 2 submissions, one kind of incident | `InvInv` (types and `OneRowPerArchive`), `DraftsReachRecords`, `ItemsAreRecorded`, `VerdictIsRecorded`, `DifferenceIsReal`, `ComparedIsSettled`, `ComparisonIsUnderWay`, `BackOnlyByOverlap` | 1.9 M |
| `accounts` | 2 requests at a time, 3 in all, 3 departments, 2 administrators signed in, 2 free names, accounts asked for in a department that exists (15) and in one that may not (150), 1 failure | `AcInv` (types, keys and `ClaimsAreTrue`), `ScopesFollowTree` (`SubtreeIsDescendants`, `CollegesAreDisjoint`, `TreeShowsScope`), `MadeInOwnCollege`, `DisabledRunsOut`, `SignedOutStaysOut` | 938 k |
| `export` | 2 requests, 2 workers, 2 jobs, 2 tables and an order that cannot be met, 1 failure | `ExInv` (types and `GeneratedOnce`), `DoneHoldsWhatWasThere`, `OutcomeIsFinal`, `EventuallySettled` | 839 k |

*violation* runs check one statement of a document or comment that the code does not keep; TLC's
counterexample is the shortest way to see it.

| Run | Statement | What the code does |
|---|---|---|
| `workflow_reject` | a request at stage 2 is turned down by the school, not by a college (`doc/04-workflow-rules.md:33`) | the update of a rejection asks for `status=1` alone (`service/workflow/model/models.go:270`): read at stage 1 by a college admin, written at stage 2 |
| `asset_skip` | no acknowledgement, wait for the retry (`service/asset/consumer/main.go:80`) | the next message is fetched, and its acknowledgement passes over the skipped one |
| `asset_overwrite` | nothing leads out of status 4 (`doc/04-workflow-rules.md:143`) | the update does not repeat the condition on the status; two instances interleave after a rebalance |

More differences between documents and code were met while modelling. They can be read off the
definitions and need no search, so they have no run:

* Workflow. The final approval does not ask asset-rpc again (`doc/04-workflow-rules.md:46`, `:164`); an update and
  its log entry are two statements, so the entry of a submission, a forwarding or a rejection may be missing
  (`:39`; `unlogged` counts them); `Create` does not ask for role 3
  for a scrap request (`:165`); PUT and DELETE do not ask about open requests
  (`doc/03-api-contract.md:314`, `:322`, `doc/04-workflow-rules.md:162-163`); PUT writes every column,
  department 0 when the body has none (`doc/03-api-contract.md:312`); a granted repair clears the user
  (`doc/04-workflow-rules.md:110`); the repair of an asset in use is not limited to its user and college
  admins (`:84`).
* Delivery. After a failed send the loop goes on with the next row, which can be of the same asset,
  where `doc/01-desgin.md:283` has the events of an asset in strict order; the writer awaits no
  acknowledgement (`service/workflow/outbox-dispatcher/main.go:30`, against `doc/01-desgin.md:389`, which has
  status 1 written after the ACK of the broker): an event can be marked as sent and never reach the topic
  (`lost`); the dedup row and the ledger row are two
  transactions (`service/asset/consumer/main.go:77`, against `doc/04-workflow-rules.md:131`).
* Inventory. The lock is per task, asset and user (`invhandler.go:344`), where
  `doc/07-inventory-ops.md:244` and `doc/01-desgin.md:416` describe one per asset; a draft submitted
  while the task is being archived can be answered with success and be in no record
  (`doc/01-desgin.md:425`); items can be replaced after the
  publication by a request that had seen the draft status (`invitems.go:87`, against the comment in
  `deploy/sql/postgres/005_inventory_task_items.sql`); the separate comparison worker scans five
  destinations from six columns (`comparison-worker/main.go:113`), but nothing sends to its topic; an error of
  asset-rpc, answered with status 200, is compared as an asset without a location (`comparison.go:104-125`).
* Accounts. Disabling an account does not put its tokens on the black list, and the middleware does not look
  at the account (`doc/03-api-contract.md:237`, `doc/01-desgin.md:374` claim that it takes effect at once;
  `DisabledRunsOut` says what it does); `CreateUser` restricts role 2 only, so a caller of role 3 may create any
  account (`doc/03-api-contract.md:205`); ForceLogout changes nothing
  (`doc/01-desgin.md:720`), a refresh token can be used again (`doc/01-desgin.md:718`), and only
  user-api reads the black list (`doc/01-desgin.md:373`).

### Bounds, and why they are enough

* **workflow.** Three handlers are the fewest that let two reviewers race while a third submits or
  reviews with a snapshot older than both; every guard relates at most two handlers and one row.
  Two submissions on one asset, from departments of different admins, exercise the index and the
  subtree check; two request ids let one be rejected and another opened afterwards. The theorems
  below remove these bounds.
* **outbox.** Two retries distinguish "failed once" from "given up"; three rows against batches of
  two leave a row for the other instance; two events share a partition and one does not. One
  rollback is what it takes to separate sends from outcomes, one lost message to separate both from
  the topic.
* **asset.** Three messages are enough for a message, its duplicate and its successor; an event that
  arrives before the asset exists is refused; two admins are what it takes for a session to act on
  a row another one has deleted; one failing statement, one crash and one rebalance can all happen,
  in any order, between any two statements. One asset on one partition: instances meet only over a
  partition that changes its owner, an event names one asset, and an asset has one partition.
* **drafts.** Two windows of one operator are what the lock is about, a window of another one is what
  it takes for drafts to disagree. Three submissions give each window a draft, or one window an
  old version after two others. The three contents are two spellings of one place and another
  place, one of them with notes that are blank: equal by words, unequal by text. Two milliseconds
  separate "same instant" from "later". No operator's draft depends on more than two others.
* **inventory.** Two assets tell "this conflict" from "the other one", which the last resolution and
  the comparison count; two submissions are a disagreement of two assignees, or one draft and a late
  one; two requests at a time are two archives, an archive and a submission, two resolutions or two
  comparisons. One kind of incident at a time keeps the explanations of the properties apart. The
  contents are the book's place in another spelling, and another place.
  Every exception of a property (`spoiled`, `overlapped`, the incidents) is reached.
* **accounts.** Three requests are a race of two and one that uses the outcome. The departments are
  numbered so that the next one, 150, begins with the digits of college 15. A token lives two
  ticks and a refresh token three, so that a session can outlive an access token within the bound.
* **export.** Two jobs and two workers: a race for an id, for a job and for a second (`Second` has one
  element: all files are created in the same second). One failure strands one job and leaves the other to be
  settled.
* **lifecycle.** Two requests on one asset are a use and the return that only the ledger after the
  use allows. At most `maxRetry` copies of each of two messages are ever sent, so `MaxTopic` 4
  never blocks a step.

`CHECK_DEADLOCK FALSE` is set where the system may come to rest: when no events are left to
queue and everything is settled (`outbox`, `asset`, `lifecycle_*`), when a task is compared or
never archived (`inventory`), when submissions, requests or jobs are used up (`drafts`, `accounts`,
`export`). `workflow` keeps deadlock
checking on: a handler can always read again or be abandoned.

Symmetry is used over request ids and handlers (`workflow`), dispatcher instances (`outbox`),
consumer instances (`asset`), request ids and consumer instances (`lifecycle_safety`), the windows of one operator (`drafts`),
assets, users and handlers (`inventory`), handlers and free names (`accounts`); no action orders
them. The runs with liveness properties use none. `lifecycle_safety` looks at states through the view `WithoutRecords`,
which leaves out the log and those history variables that no guard and neither of its two properties
mentions.

### Fairness

`lifecycle_live` (`LcFairness`): weak fairness of a dispatcher's step, because `Run` polls on every tick
(`dispatcher.go:118-134`) and a poll runs to its commit; weak fairness of the consumer's step and
strong fairness of a fetch: the loop in `main` has no exit but shutdown, and a reader that stays
assigned to a partition delivers what is in it; strong because an instance is busy with another
partition in between. Nothing obliges users to submit or review, sends may fail every time, and
the claim then is the dead letter. The run excludes what would make the claim false: a crash
between dedup and ledger, a failing dedup insert (`asset_skip`), a broker that loses messages.

That a task is compared in the end is not claimed: it would take fairness of an administrator who asks for
it, which nothing in the code provides. What the code does provide is the safety property
`ComparisonIsUnderWay`: a task with nothing left to resolve has its comparison under way, unless one was cut
short (`invhandler.go:621-628`) or the last two resolutions each counted the other one as pending
(`service/inventory/model/conflict.go:208`). In these two cases the task waits for a `POST .../compare`.

`export` (`ExFairness`): weak fairness of the steps of each request and of each worker, whose loop has
no exit but shutdown, including the restart of a worker that stopped. No fairness obliges a
failure to happen or not to; the claim excuses the jobs that one stranded.

### Mutants

Each property of a passing run is paired in `PROJECT.json` with a plausible bug (an `as` operator,
marked "Mutant:" in the module): a dropped index, a `WHERE` without the status, a dropped `SKIP
LOCKED`, an off-by-one of the retry limit, a retry that is never polled, `ReadMessage` for
`FetchMessage`, a path without its final slash, the text instead of its normal form, an id of MAX
instead of MAX + 1. Put in place of the definition, TLC finds the property violated.

## 4. Proofs

Each `*Proofs` module extends the module it is about and is checked by TLAPS. A theorem holds for
any values of the constants that meet the assumptions named in the module: any number of handlers,
instances, assets, users, messages, failures. The bounds of section 3 are bounds of TLC only; where
a module counts submissions, failures or jobs against a bound, the bound may be any number.
Every safety and action property of the runs has its theorem; what stays with TLC is liveness.

Throughout, an invariant is proved as a conjunct of an inductive one, whose named parts say what a
request or an instance holds in its hands between two statements, and why nobody can contradict it
in between. The parts hold on the instances of section 3 as well, where TLC checks them if they are
added to a configuration.

### Workflow

| Theorem | Statement |
|---|---|
| `WfTypeCorrect`, `OneOpenPerAssetHolds`, `EventIffArchivedHolds`, `AuditTruthfulHolds`, `SignedByAuthorityHolds` | `WfSpec => []` the property |
| `HandlersTruthfulHolds` | `WfSpec => []HandlersTruthful`, which no run repeats |
| `WorkflowImplementsApproval` | `WfSpec => ImplementsApproval` |

The inductive invariant is

    WfInv == WfTypeOK /\ InsertsFresh /\ StageThreeArchived /\ HandlersTruthful
             /\ LogIsTrue /\ NothingMissing /\ SignedByAuthority /\ EventIffArchived

None of the last five is inductive alone. An event is right because the handler that queues it
holds a snapshot that agrees with the row (`SnapshotAgrees`, part of `HandlersTruthful`), and the
snapshot still agrees although others have written since because rows only move forward (lemma
`AllAdvance`: the submission never changes, the stage never goes back, the status leaves "open" at
most once). A log entry is true when it is written although the update it reports was an earlier
statement, because it was true then (`PendingAgrees`) and what it says is stable under the same
lemma. `StageThreeArchived` is what turns "current_stage=2" into "not archived before", and
`InsertsFresh` says that a row waiting to be inserted is at stage 1 and open.

`OneOpenPerAsset` needs only the type invariant and the guard of `Insert`, the index: the
permission checks, the answer of asset-rpc and the snapshots play no part in it. The refinement
maps every step of a handler to a step of `Approval` or to a stutter.

`AuditTruthful` goes both ways. What is logged is true (`LogIsTrue`): a rejection by the college is of a request at stage 1,
or of one that a forwarding overtook. What happened is logged (`NothingMissing`), is about to be, or is in
`unlogged`. `SignedByAuthority` judges a signature by the stage the request was in when the step took
effect, not by the label of the entry; the exception is again `overtaken`, and `workflow_reject` shows that it
is needed.

### OutboxDispatcher

| Theorem | Statement |
|---|---|
| `TxInvHolds` | `ObSpec => []TxInv` |
| `SettledIsFinalHolds` | `ObSpec => SettledIsFinal` |
| `ObInvHolds`, `DeadAfterMaxRetryHolds`, `DuplicatesExplainedHolds`, `OvertakenOnlyIfFailedHolds` | `ObSpec => []` the property |

`TxInv` is the core: the batches of two instances are disjoint and hold pending rows only
(`LocksExclude`), and an outcome noted for a row is the one its send calls for, judged by the row as
it still is (`OutcomesTrue`). That makes a commit an atomic update of rows nobody else has touched,
hence the finality of rows and the count of retries: the failures that really happened are those noted, and at most
one more for each rollback (`Counted`). Two refinements of it speak of the topic: an
outcome "sent" has its message in the topic, or in `lost` (`SuccessPublished`), and the copies of a message are
counted against the failures noted, the rollbacks and the one send that is under way (`CopyInv`).
Overtaking needs the order within a batch as well (`PollOrder`). No theorem assumes a broker that keeps
what it is sent: the messages it did not keep are named in the properties.

### AssetService

| Theorem | Statement |
|---|---|
| `AsInvHolds`, `LossesExplainedHolds` | `AsSpec => []` the property |
| `DeletedStaysPutHolds` | `AsSpec => DeletedStaysPut` |
| `LegalUnlessTakenOverHolds` | `AsSpec => []LegalUnlessTakenOver`, if the events of an asset share a partition |

*At most once* (`OnceInv`): from the insert into the dedup table on, a request belongs to the one
instance that inserted it (`EffectOnce`), across crashes and rebalances, because an instance that
restarts or takes over begins with the insert again. *Losses* have two ledgers, kept apart: the messages that nobody will
look at again although their dedup row is missing are no more than the failed inserts (`MissedInv`; `Behind` says what
"nobody will look at again" means for a partition in the middle of a change of owner), and the events that
are recorded and will never take effect are no more than the failed statements of a change and the crashes
(`ForgottenInv`). Failed acknowledgements are in neither count. *Legal history* (`LegalInv`): as long as an asset's partition
is not taken from an instance with an event of it in hand, an instance is alone on it (`OwnInv`), so the
status it read is the status it writes over (`AllowedInv`). A partition may otherwise change hands as
often as it likes. Without the exception the property is false, which `asset_overwrite` shows.

A first version of the type invariant had the committed offset never beyond the position. That is
not inductive, and it is false: a partition that is given away and given back is fetched from the
committed offset while its former message is still to be acknowledged. It takes two rebalances, one
more than the run has.

### Lifecycle

| Theorem | Statement |
|---|---|
| `LifecycleImplementsAssetService` | `LcSpec => AsP!AsSpec` |
| `LifecycleImplementsApproval` | `LcSpec => ImplementsApproval` |
| `AppliedWasGrantedHolds` | `LcSpec => []AppliedWasGranted` |
| `AppliedAtMostOnceHolds` | `LcSpec => []As!AppliedAtMostOnce` |
| `LegalUnlessTakenOverHolds` | `LcSpec => []As!LegalUnlessTakenOver` |
| `HeldByGranteeHolds` | `LcSpec => []HeldByGrantee`, if the seed has a user exactly on the rows in use |

The composition is proved from the components, not again from the ground: every step of the whole is a
step of one component, and for the others it is a step of the environment they allow for. A
dispatcher's send is for the ledger the arrival of some message, so `Lifecycle` implements `AssetService`
and what was proved there holds here; what a dispatcher does to the outbox leaves the handlers'
invariant intact, so `Approval` is still implemented. `LcInv` adds to the components' invariants only
that what is in the topic or the ledger was queued (`OnlyQueued`); with `EventIffArchived` that
makes every change of the ledger one that was granted. The key of a message is its asset, which is where the
hypothesis of `AssetService`'s `LegalUnlessTakenOverHolds` is discharged.

### DraftStore

| Theorem | Statement |
|---|---|
| `DsInvHolds`, `NoUnseenOverwriteHolds`, `ConsensusSpeaksForAllHolds`, `ConflictIsOfWordsHolds` | `DsSpec => []` the property |
| `VersionsAdvanceHolds` | `DsSpec => VersionsAdvance` |

`DsIInv`: while the lock does its work the window inside is the one that holds it (`HolderInside`), so
the time it is about to stamp is not before the draft it found (`StampsFresh`), so a version a
window has seen is older than a draft it has not (`ViewsKept`), unless two writes fell into one
millisecond (`tied`). `ConsensusSpeaksForAll` is about the operators of `InventoryDraft`: two members of a
set of cardinality at most one are equal. It is the reason for assuming that there are finitely
many operators.

`ConflictIsOfWords` is about texts of any length: `LocationIsOfWords` says that two texts have the same
`Location` exactly if they have the same `Words`. `Location` looks at the whole text (both ends are cut
off first), so what one more character does to it has to be found out before anything can be said by
induction: a blank changes nothing, a letter is appended, after a space if the text did not end in a
letter (`LocationAppend`). The invariant behind that is `Reads`: what lies between the first letter and
the end, its runs of spaces merged, is the location, and one space more if the text ends in blanks.
`Words`, the lengths of the words, follows in step (`WordsBlank`, `WordsLetter`). Both steps can be undone, and
in both whether the text ended in a letter can be told from the result, so an induction on the length
of two texts together shows that they agree.

### Inventory

| Theorem | Statement |
|---|---|
| `InvInvHolds`, `DraftsReachRecordsHolds`, `ItemsAreRecordedHolds`, `VerdictIsRecordedHolds`, `DifferenceIsRealHolds`, `ComparedIsSettledHolds`, `ComparisonIsUnderWayHolds` | `InvSpec => []` the property |
| `BackOnlyByOverlapHolds` | `InvSpec => BackOnlyByOverlap` |

The proof is in layers over one shape. `Shape` has the types, what the tables keep (a draft for each
operator, a known row for each asset), what a request carries (`Carries`), that one transaction at a time
decides a conflict (`OneCommit`) and what there can be at each stage of the task (`Stages`). The lemma
`StepCases` then separates the steps that touch neither the drafts nor the tables (`Inert`) from the
eleven others, and `TablesOnward`, `DraftsOnward` and `TaskOnward` say what no step undoes. On top of these:

* `DraftsInv`, `ItemsInv`: what an archive has read is in the rows and conflicts it is about to write,
  for any drafts written meanwhile, as those are dated later.
* `SettledInv`: a comparison that is under way covers every undecided row, and no conflict is
  pending. That the count of pending conflicts is taken before the commit is harmless here, because a
  resolution that finds itself the last one *is* the last one.
* `UnderWayInv`: while a task is archived with no conflict pending, a handler is at its comparison. The step that
  could break it is the commit of a resolution that did not find itself the last one, which leaves another
  conflict pending or was overlapped by another resolution.
* `DifferenceInv`: a row speaks for what every assignee had counted when the archive read
  (`SpeaksFor`), an asset whose conflict is pending has no row, and a decision follows from the row
  it is on (`Decided`). The comparison decides on a row it read before; the row that is there when it
  writes is the same but for its decision (`RowsOnward`, `InHand`), because the only step that replaces a row
  is the resolution of a conflict, and such an asset had none. This is the layer that fails once a
  second archive commits, hence `Once` in the property.
* `Count`: archives requested, having read, and committed are counted against the one incident "again",
  which bounds `commits` and `clock` in `InvTypeOK`.

### ExportJob and Accounts

| Theorem | Statement |
|---|---|
| `ExInvHolds`, `DoneHoldsWhatWasThereHolds` | `ExSpec => []` the property |
| `OutcomeIsFinalHolds` | `ExSpec => OutcomeIsFinal` |
| `AcInvHolds`, `DisabledRunsOutHolds`, `SignedOutStaysOutHolds`, `ScopesFollowTreeHolds`, `MadeInOwnCollegeHolds` | `AcSpec => []` the property |

`PlaceInv`: a job is with one request, at one place of the list or with one worker, and in none of
these once it has an outcome (`OnePlace`, `SomePlace`). From there `FileInv` follows a job's file: it is its own, and it has
all the rows there were when the job was ordered but for the assets deleted since. Ids are `1 .. n`, so that the id a request computed
is the next one or taken.

`AcIInv`: the claims of a token, and of a request about to issue one, were read of their account and not
after it was disabled (`ReadFrom`); a listed token stays listed for its life (`ListShape`). The id of
a new row is larger than all that were there when it was computed, which needs the largest element of
a finite set of numbers to exist (lemmas `LeastNatural` and `FiniteHasGreatest`, by well-founded induction).

`TreeIInv` is a second invariant beside it, of the departments. Every row is a root or has for its path
the path of its parent and one segment more, its own id (`PathsFollow`). Rows never change and are never removed,
so what a request read of them is still true when it inserts (`CarriesTree`), however many requests create
departments at the same time; and an account is made in the subtree its maker was authorised for (`MadeBelow`).
The rest is about texts, in this order: an id has one notation and no slash in it, so a path is a
prefix of another exactly if its department is that one or above it (`SubtreesAreDescendants`); the second
segment of a path is the college it is in, which is what `CollegeSubtreeIDs` looks for (`SegmentsOfPath`,
`CollegeIsAbove`, `CollegesDivide`); and the tree that is drawn from the rows of a scope reaches each of them
(`TreeShowsAll`, `TreeShowsSubtree`).

### Recursion

The operators on texts and trees are recursive functions. To the prover such a definition says only
that the function is some one that satisfies its equation *if there is one*. That there is one
follows for a function whose value at an argument depends on arguments of a smaller measure
(`RecursionIsDefined` in `AccountsProofs`; `TableExists` in `DraftStoreProofs` for a loop that goes from left to
right), and inductions are made over sets in place of predicates (`ByMeasure`, `ByNumber`, `ByText`), which
takes no theorem with an operator as a parameter. Both rest on the library's theorem that every set of
natural numbers that is not empty has a least element.

### Assumptions

Beside types (`RoleAssumption`, `EventAssumption`, `VisibleAssumption`, ...) and bounds that are numbers
(`BoundAssumption`), the proofs rest on: `Nobody` and `NoDept` are no user and no department;
`MaxRetry` and `BatchLimit` are positive, as in the code; `AccessTTL <= RefreshTTL`, both
literals in the code; the departments and the staff a system starts with are consistent
(`FoundedAssumption`, `StaffAssumption`: what the seed script inserts; its departments are a tree, each
path being that of the department above and one segment more); finitely many operators
(`OperatorAssumption`); locations are texts (`CellsAssumption`); an asset's key
determines its partition (`KeyAssumption`). The instances of section 3 meet all of them: TLC evaluates
each in every run. The hypotheses of single theorems are in the tables above.

### Only model-checked

* The liveness properties `GrantEventuallySettled` and `EventuallySettled`:
  temporal reasoning under fairness is outside what the prover supports.

## 5. Assumptions and omissions

* PostgreSQL runs at its default isolation, so a single `UPDATE ... WHERE` is atomic and re-checks
  its condition on the row version it locks; a unique index is checked at the insert.
* Kafka loses at most `MaxLost` of the messages it was sent without an acknowledgement, and keeps the others. A partition
  is a sequence.
* The consumer group gives a partition to one instance at a time and refuses acknowledgements of a
  former owner. How long a rebalance takes is not modelled.
* Asset columns that no rule looks at (names, price, location), paging, JSON and wording are left
  out. Time is a small clock where the code reads one for a decision (`DraftStore`, `Accounts`,
  `ExportJob`), and left out elsewhere (`RetryBackoff` has no caller).
* Ids that tables generate are taken as fresh. The script declares `BIGINT` keys; the test set-up
  (`doc/09-testing.md:151`) adds the identity columns.
* Redis, MongoDB, MySQL and the file system keep what they answered to have stored.
* The Redis client's own retry of an LPUSH whose answer was late, which can queue an export job twice
  (`reporthandler.go:281`), is not modelled: `Push` adds an entry once or not at all.
* A comparison that runs is not started twice from one request; `inventory.compare` as a topic is left
  out with the worker that nobody feeds.
* Not modelled: the handlers that only read (lists, details, dashboards, job status); the summary row
  of a comparison, which is only displayed; passwords; the session key `Login` writes and nobody reads;
  ForceLogout, which changes no state; `pkg/kafka` (no caller); error codes and mains; the React front
  end.

## 6. Plan

What is left:

1. **What the properties leave out.** `OvertakenOnlyIfFailed` after a rollback; a job queued twice by the
   Redis client.

Further modelling would be of the handlers that only read, under properties of what they show.
