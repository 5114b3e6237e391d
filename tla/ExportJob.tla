----------------------------- MODULE ExportJob ------------------------------
(***************************************************************************)
(* Asynchronous exports: report-api inserts a row of rpt_export_job and    *)
(* pushes the job onto a list in Redis; an export worker pops it, writes a *)
(* CSV file from one query and records the outcome in the row.             *)
(*                                                                         *)
(* The row and the list are two stores with nothing between them, the pop  *)
(* removes the only copy of the job, and the errors of the push and of the *)
(* status updates are ignored.                                             *)
(***************************************************************************)
EXTENDS Integers, SequencesExt, FiniteSets

CONSTANTS
    Handler,      \* Export requests in progress at one time
    Worker,       \* export worker processes
    Kind,         \* what requests ask for: tables and unusable orders
    Row,          \* rows of the exported tables
    TableOf,      \* the table of a row
    MaxJobs,      \* bound on the jobs
    Second,       \* the seconds in which files are created
    MaxFaults     \* bound on the failures

(* The exports generateCSV knows; any other order fails, as does an        *)
(* inventory_diff without a task ("no task").                              *)
Table == {"asset_list", "workflow_log", "inventory_diff"}

ASSUME TableAssumption == TableOf \in [Row -> Table]
ASSUME BoundAssumption == MaxJobs \in Nat /\ MaxFaults \in Nat

VARIABLES
    source,     \* the rows of the exported tables
    deleted,    \* those of asset_ledger with a deleted_at
    jobs,       \* rpt_export_job: id -> [kind, status, path]
    queue,      \* fams:export:queue, the oldest job first
    files,      \* the export directory: name -> [job, rows]
    handler,    \* the request each handler is serving
    worker,     \* the job each worker is processing
    faults,     \* failures so far
    asked,      \* history: the rows of the job's table when it was ordered
    lost,       \* history: jobs whose push, worker or status update failed
    torn        \* history: jobs whose file was not written out

history == <<asked, lost, torn>>
vars == <<source, deleted, jobs, queue, files, handler, worker, faults, history>>

Idle == [pc |-> "idle"]
Down == [pc |-> "down"]
NoPath == <<0, 0>>

(* rpt_export_job.status *)
Queued == 0
Running == 1
Done == 2
Failed == 3

(* The name of a file: job id and second. *)
Path == (0 .. MaxJobs) \X ({0} \cup Second)

ExInit ==
    /\ source = {} /\ deleted = {}
    /\ jobs = <<>> /\ queue = <<>> /\ files = <<>>
    /\ handler = [h \in Handler |-> Idle]
    /\ worker = [w \in Worker |-> Idle]
    /\ faults = 0
    /\ asked = <<>> /\ lost = {} /\ torn = {}

Fault == faults < MaxFaults /\ faults' = faults + 1

(* A row or a file is added to those there are, or replaces its namesake.  *)
With(f, key, value) ==
    [k \in DOMAIN f \cup {key} |-> IF k = key THEN value ELSE f[k]]

(***************************************************************************)
(* The exported tables, written by the other services                      *)
(***************************************************************************)
(* A row of a workflow request counts from its first log on: before, the   *)
(* NULLs of the join do not scan into strings and the export skips it.     *)
Add(r) ==
    /\ r \notin source
    /\ source' = source \cup {r}
    /\ UNCHANGED <<deleted, jobs, queue, files, handler, worker, faults, history>>

(* An asset is deleted by a date in its row, and nothing takes that back.  *)
DeleteAsset(r) ==
    /\ r \in source \ deleted /\ TableOf[r] = "asset_list"
    /\ deleted' = deleted \cup {r}
    /\ UNCHANGED <<source, jobs, queue, files, handler, worker, faults, history>>

OfTable(kind) == {r \in source : TableOf[r] = kind}

(* Mutant: the condition on deleted_at is the wrong way round. *)
ReadableDeleted(kind) ==
    {r \in OfTable(kind) : kind = "asset_list" => r \in deleted}

(* The rows one query writes out: deleted assets are left out. *)
Readable(kind) == OfTable(kind) \ deleted

(***************************************************************************)
(* POST /report/export                                                     *)
(***************************************************************************)
Step(h, request) == handler' = [handler EXCEPT ![h] = request]

(* nextExportJobID: COALESCE(MAX(id), 0) + 1. *)
NextJobID == Max({0} \cup DOMAIN jobs) + 1

JobID(h) ==
    /\ handler[h] = Idle
    /\ Cardinality(DOMAIN jobs) < MaxJobs
    /\ \E kind \in Kind :
          Step(h, [pc |-> "insert", kind |-> kind, id |-> NextJobID])
    /\ UNCHANGED <<source, deleted, jobs, queue, files, worker, faults, history>>

(* Mutant: an id that is taken does not stop the request. *)
InsertOrReuse(h) ==
    /\ handler[h].pc = "insert"
    /\ LET id == handler[h].id IN
       /\ jobs' = With(jobs, id, [kind |-> handler[h].kind, status |-> Queued, path |-> NoPath])
       /\ asked' = With(asked, id, OfTable(handler[h].kind))
       /\ Step(h, [pc |-> "push", id |-> id])
    /\ UNCHANGED <<source, deleted, queue, files, worker, faults, lost, torn>>

(* The insert: the loser of two requests with the same id gets an error. *)
InsertJob(h) ==
    /\ handler[h].pc = "insert"
    /\ LET id == handler[h].id IN
       \/ /\ id \in DOMAIN jobs
          /\ Step(h, Idle)
          /\ UNCHANGED <<jobs, asked>>
       \/ /\ id \notin DOMAIN jobs
          /\ jobs' = With(jobs, id, [kind |-> handler[h].kind, status |-> Queued, path |-> NoPath])
          /\ asked' = With(asked, id, OfTable(handler[h].kind))
          /\ Step(h, [pc |-> "push", id |-> id])
    /\ UNCHANGED <<source, deleted, queue, files, worker, faults, lost, torn>>

(* LPUSH, and the answer.  A failed push, or a process that dies before    *)
(* it, leaves a row nobody will look at again.                             *)
Push(h) ==
    /\ handler[h].pc = "push"
    /\ \/ queue' = Append(queue, handler[h].id) /\ UNCHANGED <<faults, lost>>
       \/ Fault /\ lost' = lost \cup {handler[h].id} /\ UNCHANGED queue
    /\ Step(h, Idle)
    /\ UNCHANGED <<source, deleted, jobs, files, worker, asked, torn>>

(***************************************************************************)
(* The export worker                                                       *)
(***************************************************************************)
Turn(w, state) == worker' = [worker EXCEPT ![w] = state]

Busy(w) == worker[w] \notin {Idle, Down}

(* BRPOP *)
Pop(w) ==
    /\ worker[w] = Idle
    /\ queue # <<>>
    /\ queue' = Tail(queue)
    /\ Turn(w, [pc |-> "mark", job |-> Head(queue)])
    /\ UNCHANGED <<source, deleted, jobs, files, handler, faults, asked, lost, torn>>

(* status = 1; an error is ignored. *)
MarkRunning(w) ==
    /\ worker[w].pc = "mark"
    /\ \/ jobs' = [jobs EXCEPT ![worker[w].job].status = Running] /\ UNCHANGED faults
       \/ Fault /\ UNCHANGED jobs
    /\ Turn(w, [worker[w] EXCEPT !.pc = "create"])
    /\ UNCHANGED <<source, deleted, queue, files, handler, history>>

(* Mutant: a file is named by the second alone. *)
FileNameBySecond(job, now) == <<0, now>>

FileName(job, now) == <<job, now>>

Outcome(w, path, ok) == Turn(w, [pc |-> "settle", job |-> worker[w].job, path |-> path, ok |-> ok])

(* os.Create truncates a file of that name; an order that cannot be met    *)
(* fails only now and leaves the empty file behind.                        *)
CreateFile(w) ==
    /\ worker[w].pc = "create"
    /\ \E now \in Second :
       LET job == worker[w].job
           path == FileName(job, now)
       IN  \/ /\ files' = With(files, path, [job |-> job, rows |-> {}])
              /\ IF jobs[job].kind \in Table
                 THEN Turn(w, [pc |-> "write", job |-> job, path |-> path])
                 ELSE Outcome(w, path, FALSE)
              /\ UNCHANGED faults
           \/ /\ Fault
              /\ Outcome(w, path, FALSE)
              /\ UNCHANGED files
    /\ UNCHANGED <<source, deleted, jobs, queue, handler, history>>

(* One query and the rows it yields.  It can fail; so can the writes, and  *)
(* nobody asks the CSV writer for its error.                               *)
WriteRows(w) ==
    /\ worker[w].pc = "write"
    /\ LET job == worker[w].job
           path == worker[w].path
           rows == Readable(jobs[job].kind)
       IN  \/ /\ files' = With(files, path, [job |-> job, rows |-> rows])
              /\ Outcome(w, path, TRUE)
              /\ UNCHANGED <<faults, torn>>
           \/ Fault /\ Outcome(w, path, FALSE) /\ UNCHANGED <<files, torn>>
           \/ Fault /\ Outcome(w, path, TRUE) /\ torn' = torn \cup {job} /\ UNCHANGED files
    /\ UNCHANGED <<source, deleted, jobs, queue, handler, asked, lost>>

(* Mutant: an error of generateCSV is logged and nothing else. *)
SettleOnlyGood(w) ==
    /\ worker[w].pc = "settle"
    /\ jobs' = IF worker[w].ok
               THEN [jobs EXCEPT ![worker[w].job] = [@ EXCEPT !.status = Done,
                                                              !.path = worker[w].path]]
               ELSE jobs
    /\ Turn(w, Idle)
    /\ UNCHANGED <<source, deleted, queue, files, handler, faults, history>>

(* status = 2 with the path, or 3 with a message; an error is ignored. *)
Settle(w) ==
    /\ worker[w].pc = "settle"
    /\ LET job == worker[w].job IN
       \/ /\ jobs' = IF worker[w].ok
                     THEN [jobs EXCEPT ![job] = [@ EXCEPT !.status = Done, !.path = worker[w].path]]
                     ELSE [jobs EXCEPT ![job].status = Failed]
          /\ UNCHANGED <<faults, lost>>
       \/ Fault /\ lost' = lost \cup {job} /\ UNCHANGED jobs
    /\ Turn(w, Idle)
    /\ UNCHANGED <<source, deleted, queue, files, handler, asked, torn>>

(* The worker stops, on a signal or by a crash: its context is cancelled,  *)
(* so what it was doing is not recorded.                                   *)
Stop(w) ==
    /\ worker[w] # Down
    /\ Fault
    /\ lost' = lost \cup (IF Busy(w) THEN {worker[w].job} ELSE {})
    /\ Turn(w, Down)
    /\ UNCHANGED <<source, deleted, jobs, queue, files, handler, asked, torn>>

Start(w) ==
    /\ worker[w] = Down
    /\ Turn(w, Idle)
    /\ UNCHANGED <<source, deleted, jobs, queue, files, handler, faults, history>>

HandlerStep(h) == InsertJob(h) \/ Push(h)

WorkerStep(w) ==
    \/ Pop(w) \/ MarkRunning(w) \/ CreateFile(w) \/ WriteRows(w) \/ Settle(w)
    \/ Start(w)

ExNext ==
    \/ \E r \in Row : Add(r) \/ DeleteAsset(r)
    \/ \E h \in Handler : JobID(h) \/ HandlerStep(h)
    \/ \E w \in Worker : WorkerStep(w) \/ Stop(w)

ExSpec == ExInit /\ [][ExNext]_vars

(* A request that began goes on, a worker that can go on does, and one     *)
(* that stopped is started again (it has to run beside report-api).        *)
ExFairness ==
    /\ \A h \in Handler : WF_vars(HandlerStep(h))
    /\ \A w \in Worker : WF_vars(WorkerStep(w))

ExFairSpec == ExSpec /\ ExFairness

(***************************************************************************)
(* Properties                                                              *)
(***************************************************************************)
(* Types of the job table, of the queue, of the files and of the workers.  *)
ExTypeOK ==
    /\ deleted \subseteq source /\ source \subseteq Row
    /\ \A j \in DOMAIN jobs :
          /\ j \in 1 .. MaxJobs
          /\ jobs[j] \in [kind : Kind, status : Queued .. Failed, path : Path]
    /\ \A i \in DOMAIN queue : queue[i] \in DOMAIN jobs
    /\ \A p \in DOMAIN files : p \in Path /\ files[p].job \in DOMAIN jobs
    /\ \A w \in Worker : Busy(w) => worker[w].job \in DOMAIN jobs

Settled(j) == jobs[j].status \in {Done, Failed}

(* Where a job is: being pushed, at a place of the queue, with a worker. *)
Places(j) ==
    {h \in Handler : handler[h].pc = "push" /\ handler[h].id = j}
        \cup {i \in DOMAIN queue : queue[i] = j}
        \cup {w \in Worker : Busy(w) /\ worker[w].job = j}

(* A job is generated once, although two requests can compute the same id  *)
(* and several workers wait at one list: it is nowhere once it has an      *)
(* outcome, and in one place before, unless its push, its worker or its    *)
(* status update failed: nothing else strands a job.                       *)
GeneratedOnce ==
    \A j \in DOMAIN jobs :
        /\ Cardinality(Places(j)) <= IF Settled(j) THEN 0 ELSE 1
        /\ Settled(j) \/ Places(j) # {} \/ j \in lost

(* The types together with the whereabouts of the jobs. *)
ExInv == ExTypeOK /\ GeneratedOnce

(* A job that is marked as done was an order that can be met and has a     *)
(* file of its own, with rows of its table alone and all of them that were *)
(* there when the export was ordered, whatever came and went meanwhile:    *)
(* only an asset deleted since may be missing.  A file whose writes failed *)
(* can fall short of this, as nobody asks for those errors.                *)
DoneHoldsWhatWasThere ==
    \A j \in DOMAIN jobs : jobs[j].status = Done =>
        /\ jobs[j].kind \in Table
        /\ jobs[j].path \in DOMAIN files
        /\ files[jobs[j].path].job = j
        /\ \A r \in files[jobs[j].path].rows : TableOf[r] = jobs[j].kind
        /\ j \notin torn => asked[j] \ deleted \subseteq files[jobs[j].path].rows

(* An outcome is final: its status, its path and the bytes a client        *)
(* downloads stay the same, whichever jobs run in the same second.         *)
OutcomeIsFinal ==
    [][\A j \in DOMAIN jobs : Settled(j) =>
          /\ jobs'[j] = jobs[j]
          /\ jobs[j].status = Done => files'[jobs[j].path] = files[jobs[j].path]]_vars

(* Every job gets an outcome, or something that failed stranded it. *)
EventuallySettled ==
    \A j \in 1 .. MaxJobs :
        (j \in DOMAIN jobs) ~> ((j \in DOMAIN jobs /\ Settled(j)) \/ j \in lost)
=============================================================================
