--------------------------- MODULE ExportJobProofs ---------------------------
(***************************************************************************)
(* The invariants of ExportJob, for any number of requests, workers, jobs, *)
(* rows and failures.                                                      *)
(***************************************************************************)
EXTENDS ExportJob, FiniteSetTheorems, TLAPS

-------------------------------------------------------------------------------
(***************************************************************************)
(* The inductive invariant                                                 *)
(***************************************************************************)
HandlerState ==
    {Idle}
    \cup [pc : {"insert"}, kind : Kind, id : Nat]
    \cup [pc : {"push"}, id : Nat]

WorkerState ==
    {Idle, Down}
    \cup [pc : {"mark", "create"}, job : Nat]
    \cup [pc : {"write"}, job : Nat, path : Path]
    \cup [pc : {"settle"}, job : Nat, path : Path, ok : BOOLEAN]

JobRow == [kind : Kind, status : Queued .. Failed, path : Path]

(* The ids are those up to the largest; a request that computed the next   *)
(* one may have been overtaken by another.                                 *)
Shape ==
    /\ source \subseteq Row /\ deleted \subseteq source
    /\ \E n \in 0 .. MaxJobs :
          /\ jobs \in [1 .. n -> JobRow]
          /\ asked \in [1 .. n -> SUBSET Row]
          /\ \A h \in Handler : handler[h].pc = "insert" => handler[h].id \in 1 .. n + 1
    /\ \A h \in Handler : handler[h].pc = "insert" => handler[h].id <= MaxJobs
    /\ queue \in Seq(DOMAIN jobs)
    /\ files \in [DOMAIN files -> [job : DOMAIN jobs, rows : SUBSET Row]]
    /\ DOMAIN files \subseteq Path
    /\ handler \in [Handler -> HandlerState]
    /\ worker \in [Worker -> WorkerState]

Pushing(h, j) == handler[h].pc = "push" /\ handler[h].id = j
Working(w, j) == Busy(w) /\ worker[w].job = j

(* A job is in one place at most, and nowhere once it has an outcome.      *)
OnePlace ==
    /\ \A h \in Handler : handler[h].pc = "push" =>
          /\ handler[h].id \in DOMAIN jobs
          /\ ~Settled(handler[h].id)
          /\ \A g \in Handler : Pushing(g, handler[h].id) => g = h
          /\ \A i \in DOMAIN queue : queue[i] # handler[h].id
          /\ \A w \in Worker : ~Working(w, handler[h].id)
    /\ \A i \in DOMAIN queue :
          /\ ~Settled(queue[i])
          /\ \A k \in DOMAIN queue : queue[k] = queue[i] => k = i
          /\ \A w \in Worker : ~Working(w, queue[i])
    /\ \A w \in Worker : Busy(w) =>
          /\ worker[w].job \in DOMAIN jobs
          /\ ~Settled(worker[w].job)
          /\ \A v \in Worker : Working(v, worker[w].job) => v = w

(* A job that is in no place has an outcome or was stranded.               *)
SomePlace ==
    \A j \in DOMAIN jobs :
        \/ Settled(j)
        \/ j \in lost
        \/ \E h \in Handler : Pushing(h, j)
        \/ \E i \in DOMAIN queue : queue[i] = j
        \/ \E w \in Worker : Working(w, j)

PlaceInv == Shape /\ OnePlace /\ SomePlace

(* The file a job was given is its own and holds rows of its table only,   *)
(* all of them if it was written out.                                      *)
OwnFile(j, path) ==
    /\ jobs[j].kind \in Table
    /\ path \in DOMAIN files
    /\ files[path].job = j
    /\ \A r \in files[path].rows : TableOf[r] = jobs[j].kind

Complete(j, path) == j \notin torn => asked[j] \ deleted \subseteq files[path].rows

FileInv ==
    /\ \A j \in DOMAIN jobs : asked[j] \subseteq OfTable(jobs[j].kind)
    /\ \A w \in Worker : worker[w].pc = "write" =>
          worker[w].path[1] = worker[w].job /\ OwnFile(worker[w].job, worker[w].path)
    /\ \A w \in Worker : worker[w].pc = "settle" =>
          /\ worker[w].path[1] = worker[w].job
          /\ worker[w].ok => /\ OwnFile(worker[w].job, worker[w].path)
                             /\ Complete(worker[w].job, worker[w].path)
    /\ \A j \in DOMAIN jobs : jobs[j].status = Done =>
          /\ jobs[j].path[1] = j
          /\ OwnFile(j, jobs[j].path)
          /\ Complete(j, jobs[j].path)
-------------------------------------------------------------------------------
(***************************************************************************)
(* Facts about states and single steps                                     *)
(***************************************************************************)
LEMMA WithType ==
    ASSUME NEW D, NEW S, NEW f \in [D -> S], NEW k, NEW v \in S
    PROVE  With(f, k, v) \in [D \cup {k} -> S]
BY DEF With

LEMMA WorkerFacts ==
    ASSUME worker \in [Worker -> WorkerState], NEW w \in Worker
    PROVE  /\ Busy(w) <=> worker[w].pc \in {"mark", "create", "write", "settle"}
           /\ Busy(w) => worker[w].job \in Nat
           /\ worker[w].pc \in {"write", "settle"} => worker[w].path \in Path
           /\ worker[w].pc = "settle" => worker[w].ok \in BOOLEAN
           /\ worker[w].pc = "mark" => worker[w] = [pc |-> "mark", job |-> worker[w].job]
<1>1. worker[w] \in WorkerState
    OBVIOUS
<1>. QED
    BY <1>1 DEF WorkerState, Busy, Idle, Down

LEMMA HandlerFacts ==
    ASSUME handler \in [Handler -> HandlerState], NEW h \in Handler
    PROVE  /\ handler[h].pc \in {"insert", "push"} => handler[h].id \in Nat
           /\ handler[h].pc = "insert" => handler[h].kind \in Kind
<1>1. handler[h] \in HandlerState
    OBVIOUS
<1>. QED
    BY <1>1 DEF HandlerState, Idle

LEMMA TurnEffect ==
    ASSUME worker \in [Worker -> WorkerState], NEW w \in Worker, NEW s \in WorkerState, Turn(w, s)
    PROVE  /\ worker' \in [Worker -> WorkerState]
           /\ worker'[w] = s
           /\ \A v \in Worker : v # w => worker'[v] = worker[v]
BY DEF Turn

LEMMA StepEffect ==
    ASSUME handler \in [Handler -> HandlerState], NEW h \in Handler, NEW s \in HandlerState, Step(h, s)
    PROVE  /\ handler' \in [Handler -> HandlerState]
           /\ handler'[h] = s
           /\ \A g \in Handler : g # h => handler'[g] = handler[g]
BY DEF Step

(* The jobs and their rows.                                                *)
LEMMA JobFacts ==
    ASSUME Shape
    PROVE  /\ DOMAIN jobs \subseteq 1 .. MaxJobs
           /\ DOMAIN asked = DOMAIN jobs
           /\ jobs \in [DOMAIN jobs -> JobRow]
           /\ asked \in [DOMAIN jobs -> SUBSET Row]
           /\ \A j \in DOMAIN jobs :
                 /\ j \in Nat
                 /\ jobs[j].kind \in Kind
                 /\ jobs[j].status \in Queued .. Failed
                 /\ jobs[j].path \in Path
                 /\ jobs[j] = [kind |-> jobs[j].kind, status |-> jobs[j].status, path |-> jobs[j].path]
<1>1. PICK n \in 0 .. MaxJobs :
          /\ jobs \in [1 .. n -> JobRow]
          /\ asked \in [1 .. n -> SUBSET Row]
    BY DEF Shape
<1>2. n \in Nat /\ DOMAIN jobs = 1 .. n /\ DOMAIN asked = 1 .. n /\ 1 .. n \subseteq 1 .. MaxJobs
    BY <1>1, BoundAssumption
<1>3. \A j \in DOMAIN jobs : j \in Nat /\ jobs[j] \in JobRow
    BY <1>1, <1>2
<1>. QED
    BY <1>1, <1>2, <1>3 DEF JobRow

(* A row whose status and path change.                                     *)
LEMMA UpdateEffect ==
    ASSUME Shape, NEW j \in DOMAIN jobs, NEW st \in Queued .. Failed, NEW path \in Path,
           jobs' = [jobs EXCEPT ![j] = [kind |-> jobs[j].kind, status |-> st, path |-> path]]
    PROVE  /\ DOMAIN jobs' = DOMAIN jobs
           /\ \A n : jobs \in [1 .. n -> JobRow] => jobs' \in [1 .. n -> JobRow]
           /\ jobs'[j].kind = jobs[j].kind
           /\ jobs'[j].status = st
           /\ jobs'[j].path = path
           /\ \A k \in DOMAIN jobs : k # j => jobs'[k] = jobs[k]
<1>. DEFINE row == [kind |-> jobs[j].kind, status |-> st, path |-> path]
<1>1. row \in JobRow
    BY JobFacts DEF JobRow
<1>2. row.kind = jobs[j].kind /\ row.status = st /\ row.path = path
    OBVIOUS
<1>3. jobs' = [jobs EXCEPT ![j] = row] /\ jobs \in [DOMAIN jobs -> JobRow]
    BY JobFacts
<1>. HIDE DEF row
<1>4. /\ jobs'[j] = row
      /\ jobs' \in [DOMAIN jobs -> JobRow]
      /\ \A k \in DOMAIN jobs : k # j => jobs'[k] = jobs[k]
    BY <1>1, <1>3
<1>. QED
    BY <1>2, <1>4

(* The first element leaves a queue without repetitions.                   *)
LEMMA TailEffect ==
    ASSUME NEW S, NEW q \in Seq(S), q # <<>>
    PROVE  /\ Head(q) = q[1] /\ 1 \in DOMAIN q
           /\ Tail(q) \in Seq(S)
           /\ \A i \in DOMAIN Tail(q) : i + 1 \in DOMAIN q /\ Tail(q)[i] = q[i + 1]
           /\ \A i \in DOMAIN q : i = 1 \/ (i - 1 \in DOMAIN Tail(q) /\ Tail(q)[i - 1] = q[i])
<1>1. Len(q) \in Nat \ {0} /\ DOMAIN q = 1 .. Len(q)
    OBVIOUS
<1>2. Tail(q) \in Seq(S) /\ Len(Tail(q)) = Len(q) - 1
    OBVIOUS
<1>3. DOMAIN Tail(q) = 1 .. Len(q) - 1
    BY <1>2
<1>4. \A i \in 1 .. Len(q) - 1 : Tail(q)[i] = q[i + 1]
    BY <1>1
<1>5. \A i \in 1 .. Len(q) : i = 1 \/ (i - 1 \in 1 .. Len(q) - 1 /\ (i - 1) + 1 = i)
    BY <1>1
<1>6. \A i \in 1 .. Len(q) - 1 : i + 1 \in 1 .. Len(q)
    BY <1>1
<1>7. Head(q) = q[1] /\ 1 \in 1 .. Len(q)
    BY <1>1
<1>. QED
    BY <1>1, <1>2, <1>3, <1>4, <1>5, <1>6, <1>7

(* COALESCE(MAX(id), 0) over the ids that are taken.                       *)
LEMMA NextIsNext ==
    ASSUME NEW n \in Nat, DOMAIN jobs = 1 .. n
    PROVE  NextJobID = n + 1
<1>. DEFINE S == {0} \cup 1 .. n
<1>1. n \in S /\ \A x \in S : n >= x
    OBVIOUS
<1>2. \A x \in S : (\A y \in S : x >= y) => x = n
    BY <1>1
<1>3. Max(S) = n
    BY <1>1, <1>2 DEF Max
<1>. QED
    BY <1>3 DEF NextJobID

(* A worker that has marked the row, created the file or written it keeps  *)
(* its job; the outcomes of the jobs do not change.                        *)
Move(w) == MarkRunning(w) \/ CreateFile(w) \/ WriteRows(w)

LEMMA MoveEffect ==
    ASSUME Shape, OnePlace, NEW w \in Worker, Move(w)
    PROVE  /\ Busy(w) /\ Busy(w)'
           /\ worker'[w].job = worker[w].job
           /\ worker' \in [Worker -> WorkerState]
           /\ \A v \in Worker : v # w => worker'[v] = worker[v]
           /\ DOMAIN jobs' = DOMAIN jobs
           /\ \A j \in DOMAIN jobs : /\ Settled(j)' <=> Settled(j)
                                     /\ Settled(j) => jobs'[j] = jobs[j]
                                     /\ jobs'[j].kind = jobs[j].kind
           /\ \A n : jobs \in [1 .. n -> JobRow] => jobs' \in [1 .. n -> JobRow]
           /\ UNCHANGED <<source, deleted, queue, handler, asked, lost>>
<1>. DEFINE j == worker[w].job
<1>1. Busy(w) /\ j \in DOMAIN jobs /\ ~Settled(j) /\ j \in Nat
    BY WorkerFacts DEF Move, MarkRunning, CreateFile, WriteRows, Shape, OnePlace
<1>2. worker \in [Worker -> WorkerState]
    BY DEF Shape
<1>3. CASE MarkRunning(w)
    <2>. DEFINE s == [pc |-> "create", job |-> j]
    <2>1. s \in WorkerState
        BY <1>1 DEF WorkerState
    <2>2. Turn(w, s)
        BY <1>2, <1>3, WorkerFacts DEF MarkRunning
    <2>3. s.job = j /\ s \notin {Idle, Down}
        BY DEF Idle, Down
    <2>. HIDE DEF s
    <2>4. CASE jobs' = [jobs EXCEPT ![j].status = Running]
        <3>1. Running \in Queued .. Failed /\ Running \notin {Done, Failed}
            BY DEF Queued, Running, Done, Failed
        <3>2. jobs[j].path \in Path
            BY <1>1, JobFacts
        <3>3. jobs' = [jobs EXCEPT ![j] = [kind |-> jobs[j].kind, status |-> Running,
                                           path |-> jobs[j].path]]
            <4>. DEFINE z == [jobs[j] EXCEPT !.status = Running]
            <4>1. jobs' = [jobs EXCEPT ![j] = z]
                BY <2>4
            <4>2. z = [kind |-> jobs[j].kind, status |-> Running, path |-> jobs[j].path]
                BY <1>1, JobFacts
            <4>. QED
                BY <4>1, <4>2
        <3>4. /\ DOMAIN jobs' = DOMAIN jobs
              /\ \A n : jobs \in [1 .. n -> JobRow] => jobs' \in [1 .. n -> JobRow]
              /\ jobs'[j].kind = jobs[j].kind
              /\ jobs'[j].status = Running
              /\ \A k \in DOMAIN jobs : k # j => jobs'[k] = jobs[k]
            BY <1>1, <3>1, <3>2, <3>3, UpdateEffect
        <3>5. \A k \in DOMAIN jobs : /\ Settled(k)' <=> Settled(k)
                                     /\ Settled(k) => jobs'[k] = jobs[k]
                                     /\ jobs'[k].kind = jobs[k].kind
            BY <1>1, <3>1, <3>4 DEF Settled
        <3>6. /\ worker' \in [Worker -> WorkerState]
              /\ worker'[w] = s
              /\ \A v \in Worker : v # w => worker'[v] = worker[v]
            BY <1>2, <2>1, <2>2, TurnEffect
        <3>. QED
            BY <1>1, <1>3, <2>3, <3>4, <3>5, <3>6 DEF MarkRunning, Busy, history
    <2>5. CASE UNCHANGED jobs
        BY <1>1, <1>2, <1>3, <2>1, <2>2, <2>3, <2>5, TurnEffect
        DEF MarkRunning, Settled, Busy, history
    <2>. QED
        BY <1>3, <2>4, <2>5 DEF MarkRunning
<1>4. CASE CreateFile(w) \/ WriteRows(w)
    <2>1. PICK s \in WorkerState : Turn(w, s) /\ s.job = j /\ s \notin {Idle, Down}
        <3>1. \A path \in Path, ok \in BOOLEAN :
                 LET s == [pc |-> "settle", job |-> j, path |-> path, ok |-> ok] IN
                 s \in WorkerState /\ s.job = j /\ s \notin {Idle, Down}
            BY <1>1 DEF WorkerState, Idle, Down
        <3>2. \A path \in Path :
                 LET s == [pc |-> "write", job |-> j, path |-> path] IN
                 s \in WorkerState /\ s.job = j /\ s \notin {Idle, Down}
            BY <1>1 DEF WorkerState, Idle, Down
        <3>3. \A now \in Second : FileName(j, now) \in Path
            BY <1>1, JobFacts DEF FileName, Path
        <3>4. CASE CreateFile(w)
            BY <3>1, <3>2, <3>3, <3>4 DEF CreateFile, Outcome
        <3>5. CASE WriteRows(w)
            <4>1. worker[w].path \in Path
                BY <1>2, <3>5, WorkerFacts DEF WriteRows
            <4>. QED
                BY <3>1, <3>5, <4>1 DEF WriteRows, Outcome
        <3>. QED
            BY <1>4, <3>4, <3>5
    <2>2. UNCHANGED <<source, deleted, jobs, queue, handler, asked, lost>>
        BY <1>4 DEF CreateFile, WriteRows, history
    <2>. QED
        BY <1>1, <1>2, <2>1, <2>2, TurnEffect DEF Settled, Busy
<1>. QED
    BY <1>3, <1>4 DEF Move
(* The outcome of a job is recorded, or the update failed.                 *)
LEMMA SettleEffect ==
    ASSUME Shape, OnePlace, NEW w \in Worker, Settle(w)
    PROVE  LET j == worker[w].job IN
           /\ Busy(w) /\ worker[w].pc = "settle" /\ j \in DOMAIN jobs /\ ~Settled(j)
           /\ worker' \in [Worker -> WorkerState]
           /\ worker'[w] = Idle
           /\ \A v \in Worker : v # w => worker'[v] = worker[v]
           /\ DOMAIN jobs' = DOMAIN jobs
           /\ \A n : jobs \in [1 .. n -> JobRow] => jobs' \in [1 .. n -> JobRow]
           /\ \A k \in DOMAIN jobs : k # j => jobs'[k] = jobs[k]
           /\ jobs'[j].kind = jobs[j].kind
           /\ jobs'[j].status = Done => worker[w].ok /\ jobs'[j].path = worker[w].path
           /\ \/ jobs'[j].status \in {Done, Failed} /\ lost' = lost
              \/ UNCHANGED jobs /\ lost' = lost \cup {j}
           /\ UNCHANGED <<source, deleted, queue, files, handler, asked, torn>>
<1>. DEFINE j == worker[w].job
<1>1. worker \in [Worker -> WorkerState] /\ worker[w].pc = "settle"
    BY DEF Settle, Shape
<1>2. Busy(w) /\ worker[w].path \in Path /\ worker[w].ok \in BOOLEAN
    BY <1>1, WorkerFacts
<1>3. j \in DOMAIN jobs /\ ~Settled(j)
    BY <1>2 DEF OnePlace
<1>4. /\ worker' \in [Worker -> WorkerState]
      /\ worker'[w] = Idle
      /\ \A v \in Worker : v # w => worker'[v] = worker[v]
    <2>1. Idle \in WorkerState /\ Turn(w, Idle)
        BY DEF Settle, WorkerState
    <2>. QED
        BY <1>1, <2>1, TurnEffect
<1>5. UNCHANGED <<source, deleted, queue, files, handler, asked, torn>>
    BY DEF Settle
<1>6. CASE UNCHANGED jobs /\ lost' = lost \cup {j}
    BY <1>1, <1>2, <1>3, <1>4, <1>5, <1>6 DEF Settled
<1>7. ASSUME NEW st \in {Done, Failed}, NEW path \in Path, st = Done => worker[w].ok /\ path = worker[w].path,
             jobs' = [jobs EXCEPT ![j] = [kind |-> jobs[j].kind, status |-> st, path |-> path]],
             lost' = lost
      PROVE  /\ DOMAIN jobs' = DOMAIN jobs
             /\ \A n : jobs \in [1 .. n -> JobRow] => jobs' \in [1 .. n -> JobRow]
             /\ \A k \in DOMAIN jobs : k # j => jobs'[k] = jobs[k]
             /\ jobs'[j].kind = jobs[j].kind
             /\ jobs'[j].status = Done => worker[w].ok /\ jobs'[j].path = worker[w].path
             /\ jobs'[j].status \in {Done, Failed}
    <2>1. st \in Queued .. Failed
        BY DEF Queued, Done, Failed
    <2>. HIDE DEF j
    <2>2. /\ DOMAIN jobs' = DOMAIN jobs
          /\ \A n : jobs \in [1 .. n -> JobRow] => jobs' \in [1 .. n -> JobRow]
          /\ jobs'[j].kind = jobs[j].kind
          /\ jobs'[j].status = st
          /\ jobs'[j].path = path
          /\ \A k \in DOMAIN jobs : k # j => jobs'[k] = jobs[k]
        BY <1>3, <1>7, <2>1, UpdateEffect
    <2>. QED
        BY <1>7, <2>2
<1>8. CASE /\ lost' = lost
           /\ worker[w].ok
           /\ jobs' = [jobs EXCEPT ![j] = [@ EXCEPT !.status = Done, !.path = worker[w].path]]
    <2>. PICK z : z = [jobs[j] EXCEPT !.status = Done, !.path = worker[w].path]
        OBVIOUS
    <2>1. jobs' = [jobs EXCEPT ![j] = z]
        BY <1>8
    <2>2. z = [kind |-> jobs[j].kind, status |-> Done, path |-> worker[w].path]
        <3>1. jobs[j] = [kind |-> jobs[j].kind, status |-> jobs[j].status, path |-> jobs[j].path]
            BY <1>3, JobFacts
        <3>. QED
            BY <3>1
    <2>3. jobs' = [jobs EXCEPT ![j] = [kind |-> jobs[j].kind, status |-> Done,
                                       path |-> worker[w].path]]
        BY <2>1, <2>2
    <2>. HIDE DEF j
    <2>. QED
        BY <1>1, <1>2, <1>3, <1>4, <1>5, <1>7, <1>8, <2>3 DEF j
<1>9. CASE /\ lost' = lost
           /\ jobs' = [jobs EXCEPT ![j].status = Failed]
    <2>. DEFINE z == [jobs[j] EXCEPT !.status = Failed]
    <2>1. jobs' = [jobs EXCEPT ![j] = z]
        BY <1>9
    <2>2. z = [kind |-> jobs[j].kind, status |-> Failed, path |-> jobs[j].path]
        BY <1>3, JobFacts
    <2>3. jobs' = [jobs EXCEPT ![j] = [kind |-> jobs[j].kind, status |-> Failed,
                                       path |-> jobs[j].path]]
        BY <2>1, <2>2
    <2>4. Failed # Done /\ jobs[j].path \in Path
        BY <1>3, JobFacts DEF Done, Failed
    <2>. HIDE DEF j
    <2>. QED
        BY <1>1, <1>2, <1>3, <1>4, <1>5, <1>7, <1>9, <2>3, <2>4 DEF j
<1>. QED
    BY <1>6, <1>8, <1>9 DEF Settle

(* An insert finds its id taken, or adds the row and goes on to the push.  *)
LEMMA InsertEffect ==
    ASSUME Shape, NEW h \in Handler, InsertJob(h)
    PROVE  LET id == handler[h].id IN
           /\ handler[h].pc = "insert"
           /\ \A g \in Handler : g # h => handler'[g] = handler[g]
           /\ handler' \in [Handler -> HandlerState]
           /\ UNCHANGED <<source, deleted, queue, files, worker, faults, lost, torn>>
           /\ \/ handler'[h] = Idle /\ UNCHANGED <<jobs, asked>>
              \/ \E n \in 0 .. MaxJobs :
                    /\ id = n + 1 /\ n + 1 \in 1 .. MaxJobs
                    /\ DOMAIN jobs = 1 .. n
                    /\ jobs' \in [1 .. n + 1 -> JobRow]
                    /\ asked' \in [1 .. n + 1 -> SUBSET Row]
                    /\ asked'[id] = OfTable(jobs'[id].kind)
                    /\ jobs'[id].status = Queued
                    /\ \A j \in DOMAIN jobs : j # id /\ jobs'[j] = jobs[j] /\ asked'[j] = asked[j]
                    /\ handler'[h] = [pc |-> "push", id |-> id]
                    /\ \A g \in Handler : handler[g].pc = "insert" => handler[g].id \in 1 .. n + 1
<1>. DEFINE id == handler[h].id
            row == [kind |-> handler[h].kind, status |-> Queued, path |-> NoPath]
<1>1. handler \in [Handler -> HandlerState] /\ handler[h].pc = "insert"
    BY DEF Shape, InsertJob
<1>2. id \in Nat /\ handler[h].kind \in Kind
    BY <1>1, HandlerFacts
<1>3. UNCHANGED <<source, deleted, queue, files, worker, faults, lost, torn>>
    BY DEF InsertJob
<1>4. CASE Step(h, Idle) /\ UNCHANGED <<jobs, asked>>
    <2>1. Idle \in HandlerState
        BY DEF HandlerState
    <2>. QED
        BY <1>1, <1>3, <1>4, <2>1, StepEffect
<1>5. CASE /\ id \notin DOMAIN jobs
           /\ jobs' = With(jobs, id, row)
           /\ asked' = With(asked, id, OfTable(handler[h].kind))
           /\ Step(h, [pc |-> "push", id |-> id])
    <2>1. PICK n \in 0 .. MaxJobs :
              /\ jobs \in [1 .. n -> JobRow]
              /\ asked \in [1 .. n -> SUBSET Row]
              /\ \A g \in Handler : handler[g].pc = "insert" => handler[g].id \in 1 .. n + 1
        BY DEF Shape
    <2>2. id = n + 1 /\ n + 1 \in 1 .. MaxJobs /\ DOMAIN jobs = 1 .. n /\ DOMAIN asked = 1 .. n
        <3>1. id <= MaxJobs /\ id \in 1 .. n + 1
            BY <1>1, <2>1 DEF Shape
        <3>2. n \in Nat /\ DOMAIN jobs = 1 .. n /\ DOMAIN asked = 1 .. n
            BY <2>1, BoundAssumption
        <3>3. id \notin 1 .. n
            BY <1>5, <3>2
        <3>. QED
            BY <3>1, <3>2, <3>3, BoundAssumption
    <2>3. row \in JobRow /\ row.kind = handler[h].kind /\ row.status = Queued
        BY <1>2, BoundAssumption DEF JobRow, Path, NoPath, Queued, Failed
    <2>4. OfTable(handler[h].kind) \in SUBSET Row
        BY DEF OfTable, Shape
    <2>5. (1 .. n) \cup {n + 1} = 1 .. n + 1 /\ n + 1 \notin 1 .. n
        OBVIOUS
    <2>. HIDE DEF row
    <2>6. jobs' \in [1 .. n + 1 -> JobRow] /\ jobs'[id] = row
        <3>1. With(jobs, n + 1, row) \in [(1 .. n) \cup {n + 1} -> JobRow]
            BY <2>1, <2>3, WithType
        <3>2. With(jobs, n + 1, row)[n + 1] = row
            BY DEF With
        <3>. QED
            BY <1>5, <2>2, <2>5, <3>1, <3>2
    <2>7. asked' \in [1 .. n + 1 -> SUBSET Row] /\ asked'[id] = OfTable(handler[h].kind)
        <3>. DEFINE rows == OfTable(handler[h].kind)
        <3>. HIDE DEF rows
        <3>0. rows \in SUBSET Row
            BY <2>4 DEF rows
        <3>1. With(asked, n + 1, rows) \in [(1 .. n) \cup {n + 1} -> SUBSET Row]
            BY <2>1, <3>0, WithType
        <3>2. With(asked, n + 1, rows)[n + 1] = rows
            BY DEF With
        <3>3. asked' = With(asked, n + 1, rows)
            BY <1>5, <2>2 DEF rows
        <3>. QED
            BY <2>2, <2>5, <3>1, <3>2, <3>3 DEF rows
    <2>8. \A j \in DOMAIN jobs : j # id /\ jobs'[j] = jobs[j] /\ asked'[j] = asked[j]
        <3>. DEFINE rows == OfTable(handler[h].kind)
        <3>. HIDE DEF rows
        <3>1. asked' = With(asked, n + 1, rows) /\ jobs' = With(jobs, n + 1, row)
            BY <1>5, <2>2 DEF rows
        <3>2. \A j \in 1 .. n : j # n + 1
            BY <2>5
        <3>. QED
            BY <2>2, <3>1, <3>2 DEF With
    <2>9. [pc |-> "push", id |-> id] \in HandlerState
        BY <1>2 DEF HandlerState
    <2>10. /\ handler' \in [Handler -> HandlerState]
           /\ handler'[h] = [pc |-> "push", id |-> id]
           /\ \A g \in Handler : g # h => handler'[g] = handler[g]
        BY <1>1, <1>5, <2>9, StepEffect
    <2>11. asked'[id] = OfTable(jobs'[id].kind) /\ jobs'[id].status = Queued
        BY <2>3, <2>6, <2>7
    <2>. QED
        BY <1>1, <1>3, <2>1, <2>2, <2>6, <2>7, <2>8, <2>10, <2>11
<1>. QED
    BY <1>4, <1>5 DEF InsertJob

LEMMA PushEffect ==
    ASSUME Shape, OnePlace, NEW h \in Handler, Push(h)
    PROVE  /\ handler[h].pc = "push" /\ handler[h].id \in DOMAIN jobs
           /\ handler' \in [Handler -> HandlerState]
           /\ handler'[h] = Idle
           /\ \A g \in Handler : g # h => handler'[g] = handler[g]
           /\ \/ queue' = Append(queue, handler[h].id) /\ lost' = lost
              \/ lost' = lost \cup {handler[h].id} /\ UNCHANGED queue
           /\ UNCHANGED <<source, deleted, jobs, files, worker, asked, torn>>
<1>1. Idle \in HandlerState /\ Step(h, Idle) /\ handler \in [Handler -> HandlerState]
    BY DEF Push, HandlerState, Shape
<1>. QED
    BY <1>1, StepEffect DEF Push, OnePlace

LEMMA PopEffect ==
    ASSUME Shape, NEW w \in Worker, Pop(w)
    PROVE  /\ worker[w] = Idle /\ queue # <<>>
           /\ queue' = Tail(queue)
           /\ worker' \in [Worker -> WorkerState]
           /\ worker'[w] = [pc |-> "mark", job |-> Head(queue)]
           /\ \A v \in Worker : v # w => worker'[v] = worker[v]
           /\ UNCHANGED <<source, deleted, jobs, files, handler, asked, lost, torn>>
<1>1. worker \in [Worker -> WorkerState] /\ queue \in Seq(DOMAIN jobs)
    BY DEF Shape
<1>2. Head(queue) \in DOMAIN jobs /\ Head(queue) \in Nat
    BY <1>1, JobFacts DEF Pop
<1>3. [pc |-> "mark", job |-> Head(queue)] \in WorkerState
    BY <1>2 DEF WorkerState
<1>. QED
    BY <1>1, <1>3, TurnEffect DEF Pop

(* A request computes its id; the worker stops or starts again.            *)
LEMMA JobIDEffect ==
    ASSUME Shape, NEW h \in Handler, JobID(h)
    PROVE  /\ handler[h] = Idle
           /\ handler' \in [Handler -> HandlerState]
           /\ \A g \in Handler : g # h => handler'[g] = handler[g]
           /\ handler'[h].pc = "insert"
           /\ handler'[h].id <= MaxJobs
           /\ \A n \in Nat : DOMAIN jobs = 1 .. n => handler'[h].id = n + 1
           /\ UNCHANGED <<source, deleted, jobs, queue, files, worker, asked, lost, torn>>
<1>1. PICK kind \in Kind : Step(h, [pc |-> "insert", kind |-> kind, id |-> NextJobID])
    BY DEF JobID
<1>2. PICK n \in Nat : DOMAIN jobs = 1 .. n
    BY DEF Shape
<1>3. NextJobID = n + 1 /\ Cardinality(1 .. n) = n
    BY <1>2, NextIsNext, FS_Interval
<1>4. n + 1 <= MaxJobs /\ n + 1 \in Nat
    BY <1>2, <1>3, BoundAssumption DEF JobID
<1>. DEFINE s == [pc |-> "insert", kind |-> kind, id |-> NextJobID]
<1>5. s \in HandlerState /\ s.pc = "insert" /\ s.id = n + 1
    BY <1>3, <1>4 DEF HandlerState
<1>6. \A m \in Nat : 1 .. m = 1 .. n => m = n
    BY FS_Interval, <1>3
<1>7. handler \in [Handler -> HandlerState]
    BY DEF Shape
<1>. HIDE DEF s
<1>8. /\ handler' \in [Handler -> HandlerState]
      /\ handler'[h] = s
      /\ \A g \in Handler : g # h => handler'[g] = handler[g]
    BY <1>1, <1>5, <1>7, StepEffect DEF s
<1>. QED
    BY <1>2, <1>4, <1>5, <1>6, <1>8 DEF JobID, history

LEMMA StopStartEffect ==
    ASSUME Shape, NEW w \in Worker, Stop(w) \/ Start(w)
    PROVE  /\ worker' \in [Worker -> WorkerState]
           /\ worker'[w] \in {Idle, Down}
           /\ \A v \in Worker : v # w => worker'[v] = worker[v]
           /\ lost' = lost \cup (IF Busy(w) THEN {worker[w].job} ELSE {})
           /\ UNCHANGED <<source, deleted, jobs, queue, files, handler, asked, torn>>
<1>1. Idle \in WorkerState /\ Down \in WorkerState /\ worker \in [Worker -> WorkerState]
    BY DEF WorkerState, Shape
<1>2. CASE Stop(w)
    BY <1>1, <1>2, TurnEffect DEF Stop
<1>3. CASE Start(w)
    BY <1>1, <1>3, TurnEffect DEF Start, Busy, history
<1>. QED
    BY <1>2, <1>3
-------------------------------------------------------------------------------
(***************************************************************************)
(* Where the jobs are                                                      *)
(***************************************************************************)
LEMMA PlaceInit == ExInit => PlaceInv
<1>. SUFFICES ASSUME ExInit
              PROVE  PlaceInv
    OBVIOUS
<1>1. DOMAIN jobs = {} /\ DOMAIN queue = {} /\ DOMAIN files = {} /\ DOMAIN asked = {}
    BY DEF ExInit
<1>2. \A h \in Handler : handler[h] = Idle
    BY DEF ExInit
<1>3. \A w \in Worker : worker[w] = Idle
    BY DEF ExInit
<1>4. Shape
    <2>1. 0 \in 0 .. MaxJobs /\ 1 .. 0 = {}
        BY BoundAssumption
    <2>2. jobs \in [1 .. 0 -> JobRow] /\ asked \in [1 .. 0 -> SUBSET Row]
        BY <2>1 DEF ExInit
    <2>3. \A h \in Handler : handler[h].pc # "insert"
        BY <1>2 DEF Idle
    <2>4. /\ files \in [DOMAIN files -> [job : DOMAIN jobs, rows : SUBSET Row]]
          /\ queue \in Seq(DOMAIN jobs)
          /\ source = {} /\ deleted = {}
        BY <1>1 DEF ExInit
    <2>5. handler \in [Handler -> HandlerState] /\ worker \in [Worker -> WorkerState]
        BY DEF ExInit, HandlerState, WorkerState
    <2>. QED
        BY <1>1, <2>1, <2>2, <2>3, <2>4, <2>5 DEF Shape
<1>5. OnePlace
    BY <1>1, <1>2, <1>3 DEF OnePlace, Busy, Idle
<1>6. SomePlace
    BY <1>1 DEF SomePlace
<1>. QED
    BY <1>4, <1>5, <1>6 DEF PlaceInv

(* A step that leaves jobs and files as they are, as far as Shape goes.    *)
LEMMA ShapeStays ==
    ASSUME Shape, source' \subseteq Row /\ deleted' \subseteq source', UNCHANGED <<jobs, asked, files>>,
           queue' \in Seq(DOMAIN jobs),
           handler' \in [Handler -> HandlerState], worker' \in [Worker -> WorkerState],
           \A h \in Handler : handler'[h].pc = "insert" =>
              \/ handler[h].pc = "insert" /\ handler'[h].id = handler[h].id
              \/ /\ handler'[h].id <= MaxJobs
                 /\ \A n \in Nat : DOMAIN jobs = 1 .. n => handler'[h].id = n + 1
    PROVE  Shape'
<1>1. PICK n \in 0 .. MaxJobs :
          /\ jobs \in [1 .. n -> JobRow]
          /\ asked \in [1 .. n -> SUBSET Row]
          /\ \A h \in Handler : handler[h].pc = "insert" => handler[h].id \in 1 .. n + 1
    BY DEF Shape
<1>2. n \in Nat /\ DOMAIN jobs = 1 .. n /\ n + 1 \in 1 .. n + 1
    BY <1>1, BoundAssumption
<1>3. \A h \in Handler : handler'[h].pc = "insert" =>
          handler'[h].id \in 1 .. n + 1 /\ handler'[h].id <= MaxJobs
    BY <1>1, <1>2 DEF Shape
<1>. QED
    BY <1>1, <1>3 DEF Shape

LEMMA PlaceJobID ==
    ASSUME PlaceInv, NEW h \in Handler, JobID(h)
    PROVE  PlaceInv'
<1>1. /\ handler[h] = Idle
      /\ handler' \in [Handler -> HandlerState]
      /\ \A g \in Handler : g # h => handler'[g] = handler[g]
      /\ handler'[h].pc = "insert"
      /\ handler'[h].id <= MaxJobs
      /\ \A n \in Nat : DOMAIN jobs = 1 .. n => handler'[h].id = n + 1
      /\ UNCHANGED <<source, deleted, jobs, queue, files, worker, asked, lost, torn>>
    BY JobIDEffect DEF PlaceInv
<1>2. Shape'
    <2>1. source' \subseteq Row /\ deleted' \subseteq source' /\ queue' \in Seq(DOMAIN jobs) /\ worker' \in [Worker -> WorkerState]
        BY <1>1 DEF PlaceInv, Shape
    <2>. QED
        BY <1>1, <2>1, ShapeStays DEF PlaceInv
<1>3. \A g \in Handler : \A j : Pushing(g, j)' <=> Pushing(g, j)
    BY <1>1 DEF Pushing, Idle
<1>4. \A w \in Worker : \A j : Working(w, j)' <=> Working(w, j)
    BY <1>1 DEF Working, Busy
<1>5. OnePlace'
    BY <1>1, <1>3, <1>4 DEF PlaceInv, OnePlace, Settled, Busy, Idle
<1>6. SomePlace'
    BY <1>1, <1>3, <1>4 DEF PlaceInv, SomePlace, Settled
<1>. QED
    BY <1>2, <1>5, <1>6 DEF PlaceInv

LEMMA PlaceInsert ==
    ASSUME PlaceInv, NEW h \in Handler, InsertJob(h)
    PROVE  PlaceInv'
<1>. PICK id : id = handler[h].id
    OBVIOUS
<1>1. /\ handler[h].pc = "insert"
      /\ \A g \in Handler : g # h => handler'[g] = handler[g]
      /\ handler' \in [Handler -> HandlerState]
      /\ UNCHANGED <<source, deleted, queue, files, worker, faults, lost, torn>>
    BY InsertEffect DEF PlaceInv
<1>2. \A w \in Worker : \A j : Working(w, j)' <=> Working(w, j)
    BY <1>1 DEF Working, Busy
<1>3. CASE handler'[h] = Idle /\ UNCHANGED <<jobs, asked>>
    <2>1. handler'[h].pc = "idle"
        BY <1>3 DEF Idle
    <2>2. Shape'
        <3>1. source' \subseteq Row /\ deleted' \subseteq source' /\ queue' \in Seq(DOMAIN jobs) /\ worker' \in [Worker -> WorkerState]
            BY <1>1 DEF PlaceInv, Shape
        <3>. QED
            BY <1>1, <1>3, <2>1, <3>1, ShapeStays DEF PlaceInv
    <2>3. \A g \in Handler : \A j : Pushing(g, j)' <=> Pushing(g, j)
        BY <1>1, <2>1 DEF Pushing
    <2>4. OnePlace'
        BY <1>1, <1>2, <1>3, <2>1, <2>3 DEF PlaceInv, OnePlace, Settled, Busy
    <2>5. SomePlace'
        BY <1>1, <1>2, <1>3, <2>3 DEF PlaceInv, SomePlace, Settled
    <2>. QED
        BY <2>2, <2>4, <2>5 DEF PlaceInv
<1>4. ASSUME NEW n \in 0 .. MaxJobs,
             id = n + 1, n + 1 \in 1 .. MaxJobs,
             DOMAIN jobs = 1 .. n,
             jobs' \in [1 .. n + 1 -> JobRow],
             asked' \in [1 .. n + 1 -> SUBSET Row],
             jobs'[id].status = Queued,
             \A j \in DOMAIN jobs : j # id /\ jobs'[j] = jobs[j] /\ asked'[j] = asked[j],
             handler'[h] = [pc |-> "push", id |-> id],
             \A g \in Handler : handler[g].pc = "insert" => handler[g].id \in 1 .. n + 1
      PROVE  PlaceInv'
    <2>1. handler'[h].pc = "push" /\ handler'[h].id = id
        BY <1>4
    <2>2. n \in Nat /\ n + 1 \in 0 .. MaxJobs /\ DOMAIN jobs' = DOMAIN jobs \cup {id} /\ id \notin DOMAIN jobs
        BY <1>4, BoundAssumption
    <2>3. Shape'
        <3>1. \A g \in Handler : handler'[g].pc = "insert" =>
                  handler'[g].id \in 1 .. (n + 1) + 1 /\ handler'[g].id <= MaxJobs
            <4>1. \A g \in Handler : handler'[g].pc = "insert" => handler'[g] = handler[g]
                BY <1>1, <2>1
            <4>2. \A g \in Handler : handler'[g].pc = "insert" =>
                      handler'[g].id \in 1 .. n + 1 /\ handler'[g].id <= MaxJobs
                BY <1>4, <4>1 DEF PlaceInv, Shape
            <4>3. 1 .. n + 1 \subseteq 1 .. (n + 1) + 1
                BY <2>2
            <4>. QED
                BY <4>2, <4>3
        <3>2. queue' \in Seq(DOMAIN jobs')
            <4>1. queue \in Seq(DOMAIN jobs) /\ DOMAIN jobs \subseteq DOMAIN jobs'
                BY <2>2 DEF PlaceInv, Shape
            <4>. QED
                BY <1>1, <4>1
        <3>3. files' \in [DOMAIN files' -> [job : DOMAIN jobs', rows : SUBSET Row]]
            <4>1. files \in [DOMAIN files -> [job : DOMAIN jobs, rows : SUBSET Row]]
                BY DEF PlaceInv, Shape
            <4>2. [job : DOMAIN jobs, rows : SUBSET Row] \subseteq [job : DOMAIN jobs', rows : SUBSET Row]
                BY <2>2
            <4>. QED
                BY <1>1, <4>1, <4>2
        <3>. QED
            BY <1>1, <1>4, <2>2, <3>1, <3>2, <3>3 DEF PlaceInv, Shape
    <2>4. /\ ~Settled(id)'
          /\ \A j \in DOMAIN jobs : Settled(j)' <=> Settled(j)
        <3>1. jobs'[id].status \notin {Done, Failed}
            BY <1>4 DEF Queued, Done, Failed
        <3>2. \A j \in DOMAIN jobs : jobs'[j].status = jobs[j].status
            BY <1>4
        <3>. QED
            BY <1>4, <2>1, <3>1, <3>2 DEF Settled
    <2>5. \A g \in Handler : \A j : Pushing(g, j)' <=> (Pushing(g, j) \/ (g = h /\ j = id))
        BY <1>1, <2>1 DEF Pushing
    <2>6. /\ \A g \in Handler : ~Pushing(g, id)
          /\ \A i \in DOMAIN queue : queue[i] # id /\ queue[i] \in DOMAIN jobs
          /\ \A w \in Worker : ~Working(w, id)
        BY <2>2 DEF PlaceInv, OnePlace, Shape, Pushing, Working
    <2>7. OnePlace'
        <3>1. ASSUME NEW g \in Handler, handler'[g].pc = "push"
              PROVE  /\ handler'[g].id \in DOMAIN jobs'
                     /\ ~Settled(handler[g].id)'
                     /\ \A f \in Handler : Pushing(f, handler[g].id)' => f = g
                     /\ \A i \in DOMAIN queue' : queue'[i] # handler'[g].id
                     /\ \A w \in Worker : ~Working(w, handler[g].id)'
            <4>1. PICK j : j = handler'[g].id
                OBVIOUS
            <4>2. CASE g = h
                BY <1>1, <1>2, <2>1, <2>2, <2>4, <2>5, <2>6, <4>1, <4>2
            <4>3. CASE g # h
                <5>1. handler[g].pc = "push" /\ handler[g].id = j /\ j \in DOMAIN jobs /\ j # id
                    BY <1>1, <2>2, <3>1, <4>1, <4>3 DEF PlaceInv, OnePlace
                <5>. QED
                    BY <1>1, <1>2, <2>2, <2>4, <2>5, <4>1, <4>3, <5>1 DEF PlaceInv, OnePlace
            <4>. QED
                BY <4>2, <4>3
        <3>2. ASSUME NEW i \in DOMAIN queue'
              PROVE  /\ ~Settled(queue[i])'
                     /\ \A k \in DOMAIN queue' : queue'[k] = queue'[i] => k = i
                     /\ \A w \in Worker : ~Working(w, queue[i])'
            <4>1. PICK j : j = queue[i] /\ j = queue'[i]
                BY <1>1
            <4>2. j \in DOMAIN jobs /\ ~Settled(j)
                BY <1>1, <2>6, <4>1 DEF PlaceInv, OnePlace
            <4>. QED
                BY <1>1, <1>2, <2>4, <4>1, <4>2 DEF PlaceInv, OnePlace
        <3>3. ASSUME NEW w \in Worker, Busy(w)'
              PROVE  /\ worker'[w].job \in DOMAIN jobs'
                     /\ ~Settled(worker[w].job)'
                     /\ \A v \in Worker : Working(v, worker[w].job)' => v = w
            <4>1. PICK j : j = worker[w].job /\ j = worker'[w].job
                BY <1>1
            <4>2. Busy(w) /\ j \in DOMAIN jobs /\ ~Settled(j)
                BY <1>1, <3>3, <4>1 DEF PlaceInv, OnePlace, Busy
            <4>. QED
                BY <1>1, <1>2, <2>2, <2>4, <4>1, <4>2 DEF PlaceInv, OnePlace
        <3>. QED
            BY <3>1, <3>2, <3>3 DEF OnePlace
    <2>8. SomePlace'
        BY <1>1, <1>2, <2>2, <2>4, <2>5 DEF PlaceInv, SomePlace
    <2>. QED
        BY <2>3, <2>7, <2>8 DEF PlaceInv
<1>. QED
    BY <1>3, <1>4, InsertEffect DEF PlaceInv
(* Whatever leaves its place, gets an outcome or moves on where it is,     *)
(* the jobs stay in one place each.                                        *)
LEMMA OnePlaceShrinks ==
    ASSUME OnePlace, DOMAIN jobs' = DOMAIN jobs, UNCHANGED queue,
           \A i \in DOMAIN queue : queue[i] \in DOMAIN jobs,
           \A h \in Handler : \A j : Pushing(h, j)' => Pushing(h, j),
           \A w \in Worker : \A j : Working(w, j)' => Working(w, j),
           \A j \in DOMAIN jobs : Settled(j)' =>
              \/ Settled(j)
              \/ /\ \A h \in Handler : ~Pushing(h, j)
                 /\ \A i \in DOMAIN queue : queue[i] # j
                 /\ \A w \in Worker : ~Working(w, j)'
    PROVE  OnePlace'
<1>1. ASSUME NEW g \in Handler, handler'[g].pc = "push"
      PROVE  /\ handler'[g].id \in DOMAIN jobs'
             /\ ~Settled(handler[g].id)'
             /\ \A f \in Handler : Pushing(f, handler[g].id)' => f = g
             /\ \A i \in DOMAIN queue' : queue'[i] # handler'[g].id
             /\ \A w \in Worker : ~Working(w, handler[g].id)'
    <2>1. PICK j : j = handler'[g].id
        OBVIOUS
    <2>2. Pushing(g, j)
        BY <1>1, <2>1 DEF Pushing
    <2>3. j \in DOMAIN jobs /\ ~Settled(j) /\ ~Settled(j)'
        BY <2>2 DEF OnePlace, Pushing
    <2>. QED
        BY <2>1, <2>2, <2>3 DEF OnePlace, Pushing
<1>2. ASSUME NEW i \in DOMAIN queue'
      PROVE  /\ ~Settled(queue[i])'
             /\ \A k \in DOMAIN queue' : queue'[k] = queue'[i] => k = i
             /\ \A w \in Worker : ~Working(w, queue[i])'
    <2>1. PICK j : j = queue[i] /\ j = queue'[i]
        OBVIOUS
    <2>2. ~Settled(j)'
        <3>1. ~Settled(j) /\ j \in DOMAIN jobs
            BY <2>1 DEF OnePlace
        <3>. QED
            BY <2>1, <3>1
    <2>. QED
        BY <2>1, <2>2 DEF OnePlace
<1>3. ASSUME NEW w \in Worker, Busy(w)'
      PROVE  /\ worker'[w].job \in DOMAIN jobs'
             /\ ~Settled(worker[w].job)'
             /\ \A v \in Worker : Working(v, worker[w].job)' => v = w
    <2>1. PICK j : j = worker'[w].job
        OBVIOUS
    <2>2. Working(w, j) /\ Working(w, j)'
        BY <1>3, <2>1 DEF Working
    <2>3. j \in DOMAIN jobs /\ ~Settled(j)
        BY <2>2 DEF OnePlace, Working
    <2>. QED
        BY <2>1, <2>2, <2>3 DEF OnePlace, Working
<1>. QED
    BY <1>1, <1>2, <1>3 DEF OnePlace

LEMMA PlacePush ==
    ASSUME PlaceInv, NEW h \in Handler, Push(h)
    PROVE  PlaceInv'
<1>. PICK id : id = handler[h].id
    OBVIOUS
<1>1. /\ handler[h].pc = "push" /\ id \in DOMAIN jobs
      /\ handler' \in [Handler -> HandlerState]
      /\ handler'[h] = Idle
      /\ \A g \in Handler : g # h => handler'[g] = handler[g]
      /\ \/ queue' = Append(queue, id) /\ lost' = lost
         \/ lost' = lost \cup {id} /\ UNCHANGED queue
      /\ UNCHANGED <<source, deleted, jobs, files, worker, asked, torn>>
    BY PushEffect DEF PlaceInv
<1>2. handler'[h].pc = "idle"
    BY <1>1 DEF Idle
<1>3. queue \in Seq(DOMAIN jobs) /\ queue' \in Seq(DOMAIN jobs)
    <2>1. queue \in Seq(DOMAIN jobs)
        BY DEF PlaceInv, Shape
    <2>2. Append(queue, id) \in Seq(DOMAIN jobs)
        BY <1>1, <2>1
    <2>. QED
        BY <1>1, <2>1, <2>2
<1>4. Shape'
    <2>1. source' \subseteq Row /\ deleted' \subseteq source' /\ worker' \in [Worker -> WorkerState]
        BY <1>1 DEF PlaceInv, Shape
    <2>. QED
        BY <1>1, <1>2, <1>3, <2>1, ShapeStays DEF PlaceInv
<1>5. \A g \in Handler : \A j : Pushing(g, j)' <=> (Pushing(g, j) /\ g # h)
    BY <1>1, <1>2 DEF Pushing
<1>6. \A w \in Worker : \A j : Working(w, j)' <=> Working(w, j)
    BY <1>1 DEF Working, Busy
<1>7. \A j \in DOMAIN jobs : Settled(j)' <=> Settled(j)
    BY <1>1 DEF Settled
<1>8. CASE UNCHANGED queue /\ lost' = lost \cup {id}
    <2>1. OnePlace'
        BY <1>1, <1>3, <1>5, <1>6, <1>7, <1>8, OnePlaceShrinks DEF PlaceInv
    <2>2. SomePlace'
        BY <1>1, <1>5, <1>6, <1>7, <1>8 DEF PlaceInv, SomePlace, Pushing
    <2>. QED
        BY <1>4, <2>1, <2>2 DEF PlaceInv
<1>9. CASE queue' = Append(queue, id) /\ lost' = lost
    <2>. DEFINE n == Len(queue) + 1
    <2>1. /\ DOMAIN queue' = DOMAIN queue \cup {n} /\ n \notin DOMAIN queue
          /\ queue'[n] = id
          /\ \A i \in DOMAIN queue : queue'[i] = queue[i]
        BY <1>3, <1>9
    <2>2. /\ ~Settled(id)
          /\ \A g \in Handler : Pushing(g, id) => g = h
          /\ \A i \in DOMAIN queue : queue[i] # id
          /\ \A w \in Worker : ~Working(w, id)
        BY <1>1 DEF PlaceInv, OnePlace
    <2>. HIDE DEF n
    <2>3. OnePlace'
        <3>1. ASSUME NEW g \in Handler, handler'[g].pc = "push"
              PROVE  /\ handler'[g].id \in DOMAIN jobs'
                     /\ ~Settled(handler[g].id)'
                     /\ \A f \in Handler : Pushing(f, handler[g].id)' => f = g
                     /\ \A i \in DOMAIN queue' : queue'[i] # handler'[g].id
                     /\ \A w \in Worker : ~Working(w, handler[g].id)'
            <4>1. g # h
                BY <1>2, <3>1
            <4>2. PICK j : j = handler'[g].id /\ j = handler[g].id
                BY <1>1, <4>1
            <4>3. Pushing(g, j) /\ handler[g].pc = "push" /\ j # id
                BY <1>1, <2>2, <3>1, <4>1, <4>2 DEF Pushing
            <4>4. j \in DOMAIN jobs /\ ~Settled(j)
                BY <4>2, <4>3 DEF PlaceInv, OnePlace
            <4>. QED
                BY <1>1, <1>5, <1>6, <1>7, <2>1, <4>2, <4>3, <4>4 DEF PlaceInv, OnePlace
        <3>2. ASSUME NEW i \in DOMAIN queue'
              PROVE  /\ ~Settled(queue[i])'
                     /\ \A k \in DOMAIN queue' : queue'[k] = queue'[i] => k = i
                     /\ \A w \in Worker : ~Working(w, queue[i])'
            <4>1. PICK j : j = queue'[i]
                OBVIOUS
            <4>2. CASE i = n
                BY <1>1, <1>6, <1>7, <2>1, <2>2, <4>1, <4>2
            <4>3. CASE i # n
                <5>1. i \in DOMAIN queue /\ j = queue[i] /\ j # id /\ j \in DOMAIN jobs /\ ~Settled(j)
                    BY <1>3, <2>1, <2>2, <4>1, <4>3 DEF PlaceInv, OnePlace
                <5>. QED
                    BY <1>6, <1>7, <2>1, <4>1, <5>1 DEF PlaceInv, OnePlace
            <4>. QED
                BY <4>2, <4>3
        <3>3. ASSUME NEW w \in Worker, Busy(w)'
              PROVE  /\ worker'[w].job \in DOMAIN jobs'
                     /\ ~Settled(worker[w].job)'
                     /\ \A v \in Worker : Working(v, worker[w].job)' => v = w
            <4>1. PICK j : j = worker[w].job /\ j = worker'[w].job
                BY <1>1
            <4>2. Busy(w) /\ j \in DOMAIN jobs /\ ~Settled(j)
                BY <1>1, <3>3, <4>1 DEF PlaceInv, OnePlace, Busy
            <4>. QED
                BY <1>1, <1>6, <1>7, <4>1, <4>2 DEF PlaceInv, OnePlace
        <3>. QED
            BY <3>1, <3>2, <3>3 DEF OnePlace
    <2>4. SomePlace'
        BY <1>1, <1>5, <1>6, <1>7, <1>9, <2>1 DEF PlaceInv, SomePlace, Pushing
    <2>. QED
        BY <1>4, <2>3, <2>4 DEF PlaceInv
<1>. QED
    BY <1>1, <1>8, <1>9

LEMMA PlacePop ==
    ASSUME PlaceInv, NEW w \in Worker, Pop(w)
    PROVE  PlaceInv'
<1>. PICK id : id = Head(queue)
    OBVIOUS
<1>1. /\ worker[w] = Idle /\ queue # <<>>
      /\ queue' = Tail(queue)
      /\ worker' \in [Worker -> WorkerState]
      /\ worker'[w] = [pc |-> "mark", job |-> id]
      /\ \A v \in Worker : v # w => worker'[v] = worker[v]
      /\ UNCHANGED <<source, deleted, jobs, files, handler, asked, lost, torn>>
    BY PopEffect DEF PlaceInv
<1>2. /\ queue \in Seq(DOMAIN jobs) /\ queue' \in Seq(DOMAIN jobs)
      /\ id = queue[1] /\ 1 \in DOMAIN queue
      /\ \A i \in DOMAIN queue' : i + 1 \in DOMAIN queue /\ queue'[i] = queue[i + 1]
      /\ \A i \in DOMAIN queue : i = 1 \/ (i - 1 \in DOMAIN queue' /\ queue'[i - 1] = queue[i])
    BY <1>1, TailEffect DEF PlaceInv, Shape
<1>3. Shape'
    <2>1. source' \subseteq Row /\ deleted' \subseteq source' /\ handler' \in [Handler -> HandlerState]
        BY <1>1 DEF PlaceInv, Shape
    <2>. QED
        BY <1>1, <1>2, <2>1, ShapeStays DEF PlaceInv
<1>4. \A g \in Handler : \A j : Pushing(g, j)' <=> Pushing(g, j)
    BY <1>1 DEF Pushing
<1>5. \A v \in Worker : \A j : Working(v, j)' <=> (Working(v, j) \/ (v = w /\ j = id))
    <2>1. worker'[w].job = id /\ worker'[w] \notin {Idle, Down} /\ ~Busy(w)
        BY <1>1 DEF Idle, Down, Busy
    <2>. QED
        BY <1>1, <2>1 DEF Working, Busy
<1>6. \A j \in DOMAIN jobs : Settled(j)' <=> Settled(j)
    BY <1>1 DEF Settled
<1>7. /\ id \in DOMAIN jobs /\ ~Settled(id)
      /\ \A k \in DOMAIN queue : queue[k] = id => k = 1
      /\ \A v \in Worker : ~Working(v, id)
      /\ \A g \in Handler : ~Pushing(g, id)
    BY <1>2 DEF PlaceInv, OnePlace, Pushing
<1>8. \A i \in DOMAIN queue' : queue'[i] # id /\ queue'[i] \in DOMAIN jobs
    <2>1. \A i \in DOMAIN queue' : i \in Nat \ {0}
        BY <1>2
    <2>. QED
        BY <1>2, <1>7, <2>1
<1>9. OnePlace'
    <2>1. ASSUME NEW g \in Handler, handler'[g].pc = "push"
          PROVE  /\ handler'[g].id \in DOMAIN jobs'
                 /\ ~Settled(handler[g].id)'
                 /\ \A f \in Handler : Pushing(f, handler[g].id)' => f = g
                 /\ \A i \in DOMAIN queue' : queue'[i] # handler'[g].id
                 /\ \A v \in Worker : ~Working(v, handler[g].id)'
        <3>1. PICK j : j = handler'[g].id /\ j = handler[g].id
            BY <1>1
        <3>2. handler[g].pc = "push" /\ j \in DOMAIN jobs /\ ~Settled(j) /\ j # id
            BY <1>1, <1>7, <2>1, <3>1 DEF PlaceInv, OnePlace, Pushing
        <3>. QED
            BY <1>1, <1>2, <1>4, <1>5, <1>6, <3>1, <3>2 DEF PlaceInv, OnePlace
    <2>2. ASSUME NEW i \in DOMAIN queue'
          PROVE  /\ ~Settled(queue[i])'
                 /\ \A k \in DOMAIN queue' : queue'[k] = queue'[i] => k = i
                 /\ \A v \in Worker : ~Working(v, queue[i])'
        <3>1. PICK j : j = queue'[i]
            OBVIOUS
        <3>2. j = queue[i + 1] /\ i + 1 \in DOMAIN queue /\ j # id /\ j \in DOMAIN jobs
            BY <1>2, <1>8, <3>1
        <3>3. ~Settled(j) /\ \A v \in Worker : ~Working(v, j)
            BY <3>2 DEF PlaceInv, OnePlace
        <3>4. \A k \in DOMAIN queue' : queue'[k] = j => k + 1 = i + 1
            BY <1>2, <3>2 DEF PlaceInv, OnePlace
        <3>5. \A k \in DOMAIN queue' : k \in Nat
            BY <1>2
        <3>6. \A k \in DOMAIN queue' : queue'[k] = j => k = i
            BY <3>4, <3>5
        <3>. QED
            BY <1>5, <1>6, <3>1, <3>2, <3>3, <3>6
    <2>3. ASSUME NEW v \in Worker, Busy(v)'
          PROVE  /\ worker'[v].job \in DOMAIN jobs'
                 /\ ~Settled(worker[v].job)'
                 /\ \A u \in Worker : Working(u, worker[v].job)' => u = v
        <3>1. PICK j : j = worker'[v].job
            OBVIOUS
        <3>2. Working(v, j)'
            BY <2>3, <3>1 DEF Working
        <3>3. CASE Working(v, j)
            <4>1. j \in DOMAIN jobs /\ ~Settled(j) /\ j # id /\ \A u \in Worker : Working(u, j) => u = v
                BY <1>7, <3>3 DEF PlaceInv, OnePlace, Working
            <4>. QED
                BY <1>1, <1>5, <1>6, <3>1, <4>1
        <3>4. CASE v = w /\ j = id
            BY <1>1, <1>5, <1>6, <1>7, <3>1, <3>4
        <3>. QED
            BY <1>5, <3>2, <3>3, <3>4
    <2>. QED
        BY <2>1, <2>2, <2>3 DEF OnePlace
<1>10. SomePlace'
    <2>1. \A i \in DOMAIN queue : queue[i] = id \/ \E k \in DOMAIN queue' : queue'[k] = queue[i]
        BY <1>2
    <2>2. \A j : (\E i \in DOMAIN queue : queue[i] = j) =>
                 j = id \/ \E k \in DOMAIN queue' : queue'[k] = j
        BY <2>1
    <2>3. Working(w, id)'
        BY <1>5
    <2>. QED
        BY <1>1, <1>4, <1>5, <1>6, <2>2, <2>3 DEF PlaceInv, SomePlace
<1>. QED
    BY <1>3, <1>9, <1>10 DEF PlaceInv
LEMMA PlaceMove ==
    ASSUME PlaceInv, Shape', NEW w \in Worker, Move(w)
    PROVE  PlaceInv'
<1>1. /\ Busy(w) /\ Busy(w)'
      /\ worker'[w].job = worker[w].job
      /\ \A v \in Worker : v # w => worker'[v] = worker[v]
      /\ DOMAIN jobs' = DOMAIN jobs
      /\ \A j \in DOMAIN jobs : Settled(j)' <=> Settled(j)
      /\ UNCHANGED <<queue, handler, lost>>
    BY MoveEffect DEF PlaceInv
<1>2. \A g \in Handler : \A j : Pushing(g, j)' <=> Pushing(g, j)
    BY <1>1 DEF Pushing
<1>3. \A v \in Worker : \A j : Working(v, j)' <=> Working(v, j)
    BY <1>1 DEF Working, Busy
<1>4. \A i \in DOMAIN queue : queue[i] \in DOMAIN jobs
    BY DEF PlaceInv, Shape
<1>5. OnePlace'
    BY <1>1, <1>2, <1>3, <1>4, OnePlaceShrinks DEF PlaceInv
<1>6. SomePlace'
    BY <1>1, <1>2, <1>3 DEF PlaceInv, SomePlace
<1>. QED
    BY <1>5, <1>6 DEF PlaceInv

(* The file of a move is in the directory under a name of its own.         *)
LEMMA FilesEffect ==
    ASSUME Shape, OnePlace, NEW w \in Worker, Move(w)
    PROVE  \/ UNCHANGED files
           \/ \E path \in Path, rows \in SUBSET Row :
                 /\ files' = With(files, path, [job |-> worker[w].job, rows |-> rows])
                 /\ path[1] = worker[w].job \/ (worker[w].pc = "write" /\ path = worker[w].path)
<1>1. worker \in [Worker -> WorkerState] /\ (Busy(w) => worker[w].job \in 1 .. MaxJobs)
    BY JobFacts DEF Shape, OnePlace
<1>2. Busy(w) /\ worker[w].job \in 0 .. MaxJobs
    <2>1. Busy(w)
        BY MoveEffect
    <2>. QED
        BY <1>1, <2>1, BoundAssumption
<1>3. CASE MarkRunning(w)
    BY <1>3 DEF MarkRunning
<1>4. CASE CreateFile(w)
    <2>1. \A now \in Second : FileName(worker[w].job, now) \in Path
                              /\ FileName(worker[w].job, now)[1] = worker[w].job
        BY <1>2 DEF FileName, Path
    <2>2. UNCHANGED files \/ \E now \in Second :
              files' = With(files, FileName(worker[w].job, now), [job |-> worker[w].job, rows |-> {}])
        BY <1>4 DEF CreateFile
    <2>3. CASE ~UNCHANGED files
        <3>1. PICK now \in Second :
                  files' = With(files, FileName(worker[w].job, now), [job |-> worker[w].job, rows |-> {}])
            BY <2>2, <2>3
        <3>2. FileName(worker[w].job, now) \in Path /\ {} \in SUBSET Row
            BY <2>1
        <3>. QED
            BY <2>1, <3>1, <3>2
    <2>. QED
        BY <2>3
<1>5. CASE WriteRows(w)
    <2>1. worker[w].pc = "write" /\ worker[w].path \in Path
        BY <1>1, <1>5, WorkerFacts DEF WriteRows
    <2>2. \A kind : Readable(kind) \in SUBSET Row
        BY DEF Readable, OfTable, Shape
    <2>. QED
        BY <1>5, <2>1, <2>2 DEF WriteRows
<1>. QED
    BY <1>3, <1>4, <1>5 DEF Move

LEMMA ShapeMove ==
    ASSUME PlaceInv, NEW w \in Worker, Move(w)
    PROVE  Shape'
<1>1. /\ worker' \in [Worker -> WorkerState]
      /\ DOMAIN jobs' = DOMAIN jobs
      /\ \A n : jobs \in [1 .. n -> JobRow] => jobs' \in [1 .. n -> JobRow]
      /\ UNCHANGED <<source, deleted, queue, handler, asked>>
    BY MoveEffect DEF PlaceInv
<1>2. /\ files' \in [DOMAIN files' -> [job : DOMAIN jobs, rows : SUBSET Row]]
      /\ DOMAIN files' \subseteq Path
    <2>1. /\ files \in [DOMAIN files -> [job : DOMAIN jobs, rows : SUBSET Row]]
          /\ DOMAIN files \subseteq Path
        BY DEF PlaceInv, Shape
    <2>2. worker[w].job \in DOMAIN jobs
        BY MoveEffect DEF PlaceInv, OnePlace
    <2>3. ASSUME NEW path \in Path, NEW rows \in SUBSET Row,
                 files' = With(files, path, [job |-> worker[w].job, rows |-> rows])
          PROVE  /\ files' \in [DOMAIN files' -> [job : DOMAIN jobs, rows : SUBSET Row]]
                 /\ DOMAIN files' \subseteq Path
        <3>. DEFINE S == [job : DOMAIN jobs, rows : SUBSET Row]
                    file == [job |-> worker[w].job, rows |-> rows]
        <3>1. file \in S
            BY <2>2
        <3>2. files \in [DOMAIN files -> S] /\ files' = With(files, path, file)
            BY <2>1, <2>3
        <3>. HIDE DEF S, file
        <3>3. files' \in [DOMAIN files \cup {path} -> S]
            BY <3>1, <3>2, WithType
        <3>. QED
            BY <2>1, <3>3 DEF S
    <2>. QED
        BY <2>1, <2>3, FilesEffect DEF PlaceInv
<1>. QED
    BY <1>1, <1>2 DEF PlaceInv, Shape

LEMMA PlaceSettle ==
    ASSUME PlaceInv, NEW w \in Worker, Settle(w)
    PROVE  PlaceInv'
<1>. PICK job : job = worker[w].job
    OBVIOUS
<1>1. /\ Busy(w) /\ job \in DOMAIN jobs /\ ~Settled(job)
      /\ worker' \in [Worker -> WorkerState]
      /\ worker'[w] = Idle
      /\ \A v \in Worker : v # w => worker'[v] = worker[v]
      /\ DOMAIN jobs' = DOMAIN jobs
      /\ \A n : jobs \in [1 .. n -> JobRow] => jobs' \in [1 .. n -> JobRow]
      /\ \A k \in DOMAIN jobs : k # job => jobs'[k] = jobs[k]
      /\ \/ jobs'[job].status \in {Done, Failed} /\ lost' = lost
         \/ UNCHANGED jobs /\ lost' = lost \cup {job}
      /\ UNCHANGED <<source, deleted, queue, files, handler, asked, torn>>
    BY SettleEffect DEF PlaceInv
<1>2. Shape'
    BY <1>1 DEF PlaceInv, Shape
<1>3. \A g \in Handler : \A j : Pushing(g, j)' <=> Pushing(g, j)
    BY <1>1 DEF Pushing
<1>4. \A v \in Worker : \A j : Working(v, j)' <=> (Working(v, j) /\ v # w)
    BY <1>1 DEF Working, Busy
<1>5. /\ \A g \in Handler : ~Pushing(g, job)
      /\ \A i \in DOMAIN queue : queue[i] # job /\ queue[i] \in DOMAIN jobs
      /\ \A v \in Worker : Working(v, job) <=> v = w
    BY <1>1 DEF PlaceInv, OnePlace, Shape, Pushing, Working
<1>6. \A j \in DOMAIN jobs : Settled(j)' => Settled(j) \/ j = job
    BY <1>1 DEF Settled
<1>7. OnePlace'
    BY <1>1, <1>3, <1>4, <1>5, <1>6, OnePlaceShrinks DEF PlaceInv
<1>8. SomePlace'
    <2>1. job \in lost' \/ Settled(job)'
        BY <1>1 DEF Settled
    <2>2. \A j \in DOMAIN jobs : Settled(j) => Settled(j)'
        BY <1>1 DEF Settled
    <2>3. \A j : Working(w, j) <=> j = job
        BY <1>1 DEF Working
    <2>4. \A j : j \in lost => j \in lost'
        BY <1>1
    <2>. QED
        BY <1>1, <1>3, <1>4, <2>1, <2>2, <2>3, <2>4 DEF PlaceInv, SomePlace
<1>. QED
    BY <1>2, <1>7, <1>8 DEF PlaceInv

LEMMA PlaceStopStart ==
    ASSUME PlaceInv, NEW w \in Worker, Stop(w) \/ Start(w)
    PROVE  PlaceInv'
<1>1. /\ worker' \in [Worker -> WorkerState]
      /\ worker'[w] \in {Idle, Down}
      /\ \A v \in Worker : v # w => worker'[v] = worker[v]
      /\ lost' = lost \cup (IF Busy(w) THEN {worker[w].job} ELSE {})
      /\ UNCHANGED <<source, deleted, jobs, queue, files, handler, asked, torn>>
    BY StopStartEffect DEF PlaceInv
<1>2. Shape'
    BY <1>1 DEF PlaceInv, Shape
<1>3. \A g \in Handler : \A j : Pushing(g, j)' <=> Pushing(g, j)
    BY <1>1 DEF Pushing
<1>4. \A v \in Worker : \A j : Working(v, j)' <=> (Working(v, j) /\ v # w)
    BY <1>1 DEF Working, Busy
<1>5. \A j : Settled(j)' <=> Settled(j)
    BY <1>1 DEF Settled
<1>6. OnePlace'
    <2>1. \A i \in DOMAIN queue : queue[i] \in DOMAIN jobs
        BY DEF PlaceInv, Shape
    <2>. QED
        BY <1>1, <1>3, <1>4, <1>5, <2>1, OnePlaceShrinks DEF PlaceInv
<1>7. SomePlace'
    BY <1>1, <1>3, <1>4, <1>5 DEF PlaceInv, SomePlace, Working
<1>. QED
    BY <1>2, <1>6, <1>7 DEF PlaceInv

LEMMA PlaceStep == PlaceInv /\ [ExNext]_vars => PlaceInv'
<1>. SUFFICES ASSUME PlaceInv, [ExNext]_vars
              PROVE  PlaceInv'
    OBVIOUS
<1>1. CASE UNCHANGED <<jobs, queue, files, handler, worker, history>> /\ source' \subseteq Row /\ deleted' \subseteq source'
    BY <1>1 DEF history, PlaceInv, Shape, OnePlace, SomePlace, Pushing, Working, Busy, Settled
<1>2. CASE UNCHANGED vars
    <2>1. source' \subseteq Row /\ deleted' \subseteq source'
        BY <1>2 DEF vars, PlaceInv, Shape
    <2>. QED
        BY <1>1, <1>2, <2>1 DEF vars
<1>3. ASSUME NEW r \in Row, Add(r) \/ DeleteAsset(r)
      PROVE  PlaceInv'
    <2>1. source' \subseteq Row /\ deleted' \subseteq source'
        BY <1>3 DEF Add, DeleteAsset, PlaceInv, Shape
    <2>. QED
        BY <1>1, <1>3, <2>1 DEF Add, DeleteAsset
<1>4. ASSUME NEW h \in Handler, JobID(h) \/ HandlerStep(h)
      PROVE  PlaceInv'
    BY <1>4, PlaceJobID, PlaceInsert, PlacePush DEF HandlerStep
<1>5. ASSUME NEW w \in Worker, WorkerStep(w) \/ Stop(w)
      PROVE  PlaceInv'
    <2>1. CASE Move(w)
        BY <2>1, ShapeMove, PlaceMove
    <2>. QED
        BY <1>5, <2>1, PlacePop, PlaceSettle, PlaceStopStart DEF WorkerStep, Move
<1>. QED
    BY <1>2, <1>3, <1>4, <1>5 DEF ExNext

LEMMA PlaceInvHolds == ExSpec => []PlaceInv
BY PlaceInit, PlaceStep, PTL DEF ExSpec

(* A job is generated once, although two requests can compute the same id, *)
(* several workers wait at one list and every process can stop: it is in   *)
(* one place at most, nowhere once it has an outcome, and lost only by a   *)
(* failure.                                                                *)
THEOREM ExInvHolds == ExSpec => []ExInv
<1>1. PlaceInv => ExInv
    <2>. SUFFICES ASSUME PlaceInv
                  PROVE  ExInv
        OBVIOUS
    <2>1. ExTypeOK
        <3>1. \A j \in DOMAIN jobs : j \in 1 .. MaxJobs /\ jobs[j] \in JobRow
            BY JobFacts DEF PlaceInv
        <3>2. \A i \in DOMAIN queue : queue[i] \in DOMAIN jobs
            BY DEF PlaceInv, Shape
        <3>3. \A p \in DOMAIN files : p \in Path /\ files[p].job \in DOMAIN jobs
            BY DEF PlaceInv, Shape
        <3>. QED
            BY <3>1, <3>2, <3>3 DEF ExTypeOK, JobRow, PlaceInv, Shape, OnePlace
    <2>2. ASSUME NEW j \in DOMAIN jobs
          PROVE  /\ Cardinality(Places(j)) <= IF Settled(j) THEN 0 ELSE 1
                 /\ Settled(j) \/ Places(j) # {} \/ j \in lost
        <3>1. \A x, y \in Places(j) : x = y
            BY DEF Places, PlaceInv, OnePlace, Pushing, Working
        <3>2. Settled(j) => Places(j) = {}
            BY DEF Places, PlaceInv, OnePlace, Pushing, Working
        <3>3. Cardinality(Places(j)) = 0 \/ Cardinality(Places(j)) = 1
            <4>1. CASE Places(j) = {}
                BY <4>1, FS_EmptySet
            <4>2. CASE Places(j) # {}
                <5>1. PICK x : Places(j) = {x}
                    BY <3>1, <4>2
                <5>. QED
                    BY <5>1, FS_Singleton
            <4>. QED
                BY <4>1, <4>2
        <3>4. Places(j) = {} => Cardinality(Places(j)) = 0
            BY FS_EmptySet
        <3>5. Settled(j) \/ Places(j) # {} \/ j \in lost
            BY DEF Places, PlaceInv, SomePlace, Pushing, Working
        <3>. QED
            BY <3>2, <3>3, <3>4, <3>5
    <2>. QED
        BY <2>1, <2>2 DEF ExInv, GeneratedOnce
<1>. QED
    BY <1>1, PlaceInvHolds, PTL
-------------------------------------------------------------------------------
(***************************************************************************)
(* What the files hold                                                     *)
(***************************************************************************)
LEMMA FileInit == ExInit => FileInv
<1>. SUFFICES ASSUME ExInit
              PROVE  FileInv
    OBVIOUS
<1>1. DOMAIN jobs = {} /\ \A w \in Worker : worker[w].pc = "idle"
    BY DEF ExInit, Idle
<1>. QED
    BY <1>1 DEF FileInv

(* A step that neither writes a file nor records an outcome.               *)
LEMMA FileStays ==
    ASSUME FileInv, UNCHANGED <<jobs, asked, files, torn>>,
           \A kind : OfTable(kind) \subseteq OfTable(kind)', deleted \subseteq deleted',
           \A w \in Worker : worker'[w].pc \in {"write", "settle"} => worker'[w] = worker[w]
    PROVE  FileInv'
<1>1. \A j, path : (OwnFile(j, path)' <=> OwnFile(j, path)) /\ (Complete(j, path) => Complete(j, path)')
    BY DEF OwnFile, Complete
<1>2. \A j \in DOMAIN jobs' : asked'[j] \subseteq OfTable(jobs[j].kind)'
    <2>. SUFFICES ASSUME NEW j \in DOMAIN jobs
                  PROVE  asked'[j] \subseteq OfTable(jobs[j].kind)'
        OBVIOUS
    <2>. PICK kind : kind = jobs[j].kind /\ kind = jobs'[j].kind
        OBVIOUS
    <2>. QED
        BY DEF FileInv
<1>3. ASSUME NEW w \in Worker, worker'[w].pc = "write"
      PROVE  worker'[w].path[1] = worker'[w].job /\ OwnFile(worker[w].job, worker[w].path)'
    <2>1. PICK j, path : /\ j = worker[w].job /\ j = worker'[w].job
                         /\ path = worker[w].path /\ path = worker'[w].path
        BY <1>3
    <2>2. path[1] = j /\ OwnFile(j, path)
        BY <1>3, <2>1 DEF FileInv
    <2>. QED
        BY <1>1, <2>1, <2>2
<1>4. ASSUME NEW w \in Worker, worker'[w].pc = "settle"
      PROVE  /\ worker'[w].path[1] = worker'[w].job
             /\ worker'[w].ok => /\ OwnFile(worker[w].job, worker[w].path)'
                                 /\ Complete(worker[w].job, worker[w].path)'
    <2>1. PICK j, path : /\ j = worker[w].job /\ j = worker'[w].job
                         /\ path = worker[w].path /\ path = worker'[w].path
        BY <1>4
    <2>2. path[1] = j /\ (worker'[w].ok => OwnFile(j, path) /\ Complete(j, path))
        BY <1>4, <2>1 DEF FileInv
    <2>. QED
        BY <1>1, <2>1, <2>2
<1>5. ASSUME NEW k \in DOMAIN jobs', jobs'[k].status = Done
      PROVE  jobs'[k].path[1] = k /\ OwnFile(k, jobs[k].path)' /\ Complete(k, jobs[k].path)'
    <2>1. PICK path : path = jobs[k].path /\ path = jobs'[k].path
        OBVIOUS
    <2>. QED
        BY <1>1, <1>5, <2>1 DEF FileInv
<1>. QED
    BY <1>2, <1>3, <1>4, <1>5 DEF FileInv

LEMMA FileInsert ==
    ASSUME PlaceInv, FileInv, NEW h \in Handler, InsertJob(h)
    PROVE  FileInv'
<1>1. UNCHANGED <<source, deleted, queue, files, worker, faults, lost, torn>>
    BY InsertEffect DEF PlaceInv
<1>2. CASE UNCHANGED <<jobs, asked>>
    BY <1>1, <1>2, FileStays DEF OfTable
<1>3. ASSUME NEW id, id \notin DOMAIN jobs,
             DOMAIN jobs' = DOMAIN jobs \cup {id},
             asked'[id] = OfTable(jobs'[id].kind),
             jobs'[id].status = Queued,
             \A j \in DOMAIN jobs : jobs'[j] = jobs[j] /\ asked'[j] = asked[j]
      PROVE  FileInv'
    <2>1. \A j \in DOMAIN jobs : \A path :
          /\ OwnFile(j, path)' <=> OwnFile(j, path)
          /\ Complete(j, path)' <=> Complete(j, path)
        BY <1>1, <1>3 DEF OwnFile, Complete
    <2>2. \A w \in Worker : worker[w].pc \in {"write", "settle"} => worker[w].job \in DOMAIN jobs
        BY WorkerFacts DEF PlaceInv, Shape, OnePlace
    <2>3. \A j \in DOMAIN jobs' : asked'[j] \subseteq OfTable(jobs[j].kind)'
        <3>. SUFFICES ASSUME NEW j \in DOMAIN jobs'
                      PROVE  asked'[j] \subseteq OfTable(jobs[j].kind)'
            OBVIOUS
        <3>. PICK kind : kind = jobs'[j].kind
            OBVIOUS
        <3>1. asked'[j] \subseteq OfTable(kind)
            BY <1>3 DEF FileInv
        <3>2. OfTable(kind)' = OfTable(kind)
            BY <1>1 DEF OfTable
        <3>. QED
            BY <3>1, <3>2
    <2>4. ASSUME NEW w \in Worker, worker'[w].pc = "write"
          PROVE  worker'[w].path[1] = worker'[w].job /\ OwnFile(worker[w].job, worker[w].path)'
        <3>1. PICK j, path : /\ j = worker[w].job /\ j = worker'[w].job
                             /\ path = worker[w].path /\ path = worker'[w].path
            BY <1>1
        <3>2. j \in DOMAIN jobs /\ path[1] = j /\ OwnFile(j, path)
            BY <1>1, <2>2, <2>4, <3>1 DEF FileInv
        <3>. QED
            BY <2>1, <3>1, <3>2
    <2>5. ASSUME NEW w \in Worker, worker'[w].pc = "settle"
          PROVE  /\ worker'[w].path[1] = worker'[w].job
                 /\ worker'[w].ok => /\ OwnFile(worker[w].job, worker[w].path)'
                                     /\ Complete(worker[w].job, worker[w].path)'
        <3>1. PICK j, path : /\ j = worker[w].job /\ j = worker'[w].job
                             /\ path = worker[w].path /\ path = worker'[w].path
            BY <1>1
        <3>2. j \in DOMAIN jobs /\ path[1] = j /\ (worker'[w].ok => OwnFile(j, path) /\ Complete(j, path))
            BY <1>1, <2>2, <2>5, <3>1 DEF FileInv
        <3>. QED
            BY <2>1, <3>1, <3>2
    <2>6. ASSUME NEW k \in DOMAIN jobs', jobs'[k].status = Done
          PROVE  jobs'[k].path[1] = k /\ OwnFile(k, jobs[k].path)' /\ Complete(k, jobs[k].path)'
        <3>1. k \in DOMAIN jobs
            BY <1>3, <2>6 DEF Queued, Done
        <3>2. PICK path : path = jobs[k].path /\ path = jobs'[k].path
            BY <1>3, <3>1
        <3>. QED
            BY <1>3, <2>1, <2>6, <3>1, <3>2 DEF FileInv
    <2>. QED
        BY <2>3, <2>4, <2>5, <2>6 DEF FileInv
<1>. QED
    <2>1. CASE ~UNCHANGED <<jobs, asked>>
        <3>1. PICK n \in 0 .. MaxJobs :
                  /\ handler[h].id = n + 1 /\ n + 1 \in 1 .. MaxJobs
                  /\ DOMAIN jobs = 1 .. n
                  /\ jobs' \in [1 .. n + 1 -> JobRow]
                  /\ asked'[handler[h].id] = OfTable(jobs'[handler[h].id].kind)
                  /\ jobs'[handler[h].id].status = Queued
                  /\ \A j \in DOMAIN jobs : jobs'[j] = jobs[j] /\ asked'[j] = asked[j]
            BY <2>1, InsertEffect DEF PlaceInv
        <3>2. n + 1 \notin DOMAIN jobs /\ DOMAIN jobs' = DOMAIN jobs \cup {n + 1}
            BY <3>1, BoundAssumption
        <3>. QED
            BY <1>3, <3>1, <3>2
    <2>. QED
        BY <1>2, <2>1

(* A worker touches the file of its own job only.                          *)
LEMMA OtherFiles ==
    ASSUME PlaceInv, FileInv, NEW w \in Worker, Move(w), NEW p \in DOMAIN files, p[1] # worker[w].job
    PROVE  p \in DOMAIN files' /\ files'[p] = files[p]
<1>1. CASE UNCHANGED files
    BY <1>1
<1>2. ASSUME NEW path, NEW file, files' = With(files, path, file), path[1] = worker[w].job
      PROVE  p \in DOMAIN files' /\ files'[p] = files[p]
    BY <1>2 DEF With
<1>3. CASE ~UNCHANGED files
    <2>1. PICK path \in Path, rows \in SUBSET Row :
              /\ files' = With(files, path, [job |-> worker[w].job, rows |-> rows])
              /\ path[1] = worker[w].job \/ (worker[w].pc = "write" /\ path = worker[w].path)
        BY <1>3, FilesEffect DEF PlaceInv
    <2>2. path[1] = worker[w].job
        BY <2>1 DEF FileInv
    <2>. QED
        BY <1>2, <2>1, <2>2
<1>. QED
    BY <1>1, <1>3

(* What a move makes of the file of its job.                               *)
LEMMA OwnMove ==
    ASSUME PlaceInv, FileInv, NEW w \in Worker, Move(w),
           NEW j, j = worker[w].job, NEW path, path = worker'[w].path
    PROVE  /\ worker'[w].pc \in {"write", "settle"} => path[1] = j
           /\ worker'[w].pc = "write" => OwnFile(j, path)'
           /\ worker'[w].pc = "settle" /\ worker'[w].ok => OwnFile(j, path)' /\ Complete(j, path)'
<1>1. /\ j \in DOMAIN jobs /\ worker \in [Worker -> WorkerState]
      /\ jobs'[j].kind = jobs[j].kind
      /\ UNCHANGED asked
    BY MoveEffect DEF PlaceInv, Shape, OnePlace
<1>2. CASE MarkRunning(w)
    <2>1. worker'[w].pc = "create"
        <3>1. worker[w] = [pc |-> "mark", job |-> worker[w].job]
            BY <1>1, <1>2, WorkerFacts DEF MarkRunning
        <3>2. worker' = [worker EXCEPT ![w] = [worker[w] EXCEPT !.pc = "create"]]
            BY <1>2 DEF MarkRunning, Turn
        <3>. QED
            BY <1>1, <3>1, <3>2
    <2>. QED
        BY <2>1
<1>3. CASE CreateFile(w)
    <2>1. PICK now \in Second :
             LET new == FileName(j, now) IN
             \/ /\ files' = With(files, new, [job |-> j, rows |-> {}])
                /\ jobs[j].kind \in Table
                /\ worker'[w] = [pc |-> "write", job |-> j, path |-> new]
             \/ worker'[w] = [pc |-> "settle", job |-> j, path |-> new, ok |-> FALSE]
        BY <1>1, <1>3 DEF CreateFile, Outcome, Turn
    <2>. DEFINE new == FileName(j, now)
    <2>2. new[1] = j
        BY DEF FileName
    <2>. HIDE DEF new
    <2>3. CASE /\ files' = With(files, new, [job |-> j, rows |-> {}])
               /\ jobs[j].kind \in Table
               /\ worker'[w] = [pc |-> "write", job |-> j, path |-> new]
        <3>1. worker'[w].pc = "write" /\ path = new
            BY <2>3
        <3>2. new \in DOMAIN files' /\ files'[new] = [job |-> j, rows |-> {}]
            BY <2>3 DEF With
        <3>3. files'[new].job = j /\ files'[new].rows = {}
            BY <3>2
        <3>4. OwnFile(j, new)'
            BY <1>1, <2>3, <3>2, <3>3 DEF OwnFile
        <3>. QED
            BY <2>2, <3>1, <3>4
    <2>4. CASE worker'[w] = [pc |-> "settle", job |-> j, path |-> new, ok |-> FALSE]
        BY <2>2, <2>4
    <2>. QED
        BY <2>1, <2>3, <2>4 DEF new
<1>4. CASE WriteRows(w)
    <2>1. worker[w].pc = "write" /\ UNCHANGED <<source, deleted, jobs, asked>>
        BY <1>4 DEF WriteRows
    <2>2. worker[w].path[1] = j /\ OwnFile(j, worker[w].path)
        BY <2>1 DEF FileInv
    <2>3. PICK ok : worker'[w] = [pc |-> "settle", job |-> j, path |-> worker[w].path, ok |-> ok]
        BY <1>1, <1>4 DEF WriteRows, Outcome, Turn
    <2>4. path = worker[w].path /\ worker'[w].pc = "settle" /\ worker'[w].ok = ok
        BY <2>3
    <2>5. CASE files' = With(files, path, [job |-> j, rows |-> Readable(jobs[j].kind)])
        <3>1. path \in DOMAIN files' /\ files'[path] = [job |-> j, rows |-> Readable(jobs[j].kind)]
            BY <2>5 DEF With
        <3>. PICK rows : rows = Readable(jobs[j].kind)
            OBVIOUS
        <3>2. asked[j] \ deleted \subseteq rows /\ \A r \in rows : TableOf[r] = jobs[j].kind
            BY <1>1 DEF FileInv, Readable, OfTable
        <3>3. files'[path].job = j /\ files'[path].rows = rows
            BY <3>1
        <3>4. OwnFile(j, path)'
            BY <1>1, <2>1, <2>2, <2>4, <3>1, <3>2, <3>3 DEF OwnFile
        <3>5. Complete(j, path)'
            BY <2>1, <3>2, <3>3 DEF Complete
        <3>. QED
            BY <2>2, <2>4, <3>4, <3>5
    <2>6. CASE ~ok
        BY <2>2, <2>4, <2>6
    <2>7. CASE torn' = torn \cup {j} /\ UNCHANGED files
        BY <1>1, <2>1, <2>2, <2>4, <2>7 DEF OwnFile, Complete
    <2>. QED
        <3>1. worker' = [worker EXCEPT ![w] = [pc |-> "settle", job |-> j, path |-> path, ok |-> FALSE]] => ~ok
            BY <1>1, <2>3
        <3>. QED
            BY <1>4, <2>4, <2>5, <2>6, <2>7, <3>1 DEF WriteRows, Outcome, Turn
<1>. QED
    BY <1>2, <1>3, <1>4 DEF Move
(* A move keeps what is known of the files of the other jobs.              *)
LEMMA OthersMove ==
    ASSUME PlaceInv, FileInv, NEW w \in Worker, Move(w),
           NEW j \in DOMAIN jobs, j # worker[w].job, NEW path, path[1] = j
    PROVE  /\ OwnFile(j, path) => OwnFile(j, path)'
           /\ OwnFile(j, path) /\ Complete(j, path) => Complete(j, path)'
<1>1. jobs'[j].kind = jobs[j].kind /\ UNCHANGED asked
    BY MoveEffect DEF PlaceInv
<1>2. torn \subseteq torn' /\ deleted' = deleted
    BY DEF Move, MarkRunning, CreateFile, WriteRows, history
<1>3. path \in DOMAIN files => path \in DOMAIN files' /\ files'[path] = files[path]
    BY OtherFiles
<1>. QED
    BY <1>1, <1>2, <1>3 DEF OwnFile, Complete

LEMMA FileMove ==
    ASSUME PlaceInv, FileInv, NEW w \in Worker, Move(w)
    PROVE  FileInv'
<1>1. /\ Busy(w) /\ worker[w].job \in DOMAIN jobs /\ ~Settled(worker[w].job)
      /\ worker'[w].job = worker[w].job
      /\ \A v \in Worker : v # w => worker'[v] = worker[v]
      /\ DOMAIN jobs' = DOMAIN jobs
      /\ \A j \in DOMAIN jobs : /\ Settled(j)' <=> Settled(j)
                                /\ Settled(j) => jobs'[j] = jobs[j]
                                /\ jobs'[j].kind = jobs[j].kind
      /\ UNCHANGED <<source, deleted, asked>>
    BY MoveEffect DEF PlaceInv, OnePlace
<1>2. \A j \in DOMAIN jobs' : asked'[j] \subseteq OfTable(jobs[j].kind)'
    <2>. SUFFICES ASSUME NEW j \in DOMAIN jobs'
                  PROVE  asked'[j] \subseteq OfTable(jobs[j].kind)'
        OBVIOUS
    <2>. PICK kind : kind = jobs'[j].kind
        OBVIOUS
    <2>1. kind = jobs[j].kind /\ asked'[j] \subseteq OfTable(kind)
        BY <1>1 DEF FileInv
    <2>. QED
        BY <1>1, <2>1 DEF OfTable
<1>3. ASSUME NEW v \in Worker, v # w, worker[v].pc \in {"write", "settle"}
      PROVE  worker[v].job \in DOMAIN jobs /\ worker[v].job # worker[w].job
    <2>1. Busy(v)
        BY <1>3, WorkerFacts DEF PlaceInv, Shape
    <2>. QED
        BY <1>1, <1>3, <2>1 DEF PlaceInv, OnePlace, Working
<1>4. ASSUME NEW v \in Worker, worker'[v].pc = "write"
      PROVE  worker'[v].path[1] = worker'[v].job /\ OwnFile(worker[v].job, worker[v].path)'
    <2>1. PICK j, path : j = worker'[v].job /\ path = worker'[v].path
        OBVIOUS
    <2>2. CASE v = w
        BY <1>1, <1>4, <2>1, <2>2, OwnMove
    <2>3. CASE v # w
        <3>1. worker[v].pc = "write" /\ j = worker[v].job /\ path = worker[v].path
            BY <1>1, <1>4, <2>1, <2>3
        <3>2. path[1] = j /\ OwnFile(j, path) /\ j \in DOMAIN jobs /\ j # worker[w].job
            BY <1>3, <2>3, <3>1 DEF FileInv
        <3>. QED
            BY <2>1, <3>2, OthersMove
    <2>. QED
        BY <2>2, <2>3
<1>5. ASSUME NEW v \in Worker, worker'[v].pc = "settle"
      PROVE  /\ worker'[v].path[1] = worker'[v].job
             /\ worker'[v].ok => /\ OwnFile(worker[v].job, worker[v].path)'
                                 /\ Complete(worker[v].job, worker[v].path)'
    <2>1. PICK j, path : j = worker'[v].job /\ path = worker'[v].path
        OBVIOUS
    <2>2. CASE v = w
        BY <1>1, <1>5, <2>1, <2>2, OwnMove
    <2>3. CASE v # w
        <3>1. worker[v].pc = "settle" /\ j = worker[v].job /\ path = worker[v].path
              /\ worker[v].ok = worker'[v].ok
            BY <1>1, <1>5, <2>1, <2>3
        <3>2. path[1] = j /\ j \in DOMAIN jobs /\ j # worker[w].job
            BY <1>3, <2>3, <3>1 DEF FileInv
        <3>3. worker'[v].ok => OwnFile(j, path) /\ Complete(j, path)
            BY <3>1 DEF FileInv
        <3>. QED
            BY <2>1, <3>2, <3>3, OthersMove
    <2>. QED
        BY <2>2, <2>3
<1>6. ASSUME NEW k \in DOMAIN jobs', jobs'[k].status = Done
      PROVE  jobs'[k].path[1] = k /\ OwnFile(k, jobs[k].path)' /\ Complete(k, jobs[k].path)'
    <2>1. k \in DOMAIN jobs /\ Settled(k)
        BY <1>1, <1>6 DEF Settled
    <2>2. PICK path : path = jobs[k].path /\ path = jobs'[k].path
        BY <1>1, <2>1
    <2>3. k # worker[w].job /\ jobs[k].status = Done
        BY <1>1, <1>6, <2>1
    <2>4. path[1] = k /\ OwnFile(k, path) /\ Complete(k, path)
        BY <2>1, <2>2, <2>3 DEF FileInv
    <2>. QED
        BY <2>1, <2>2, <2>3, <2>4, OthersMove
<1>. QED
    BY <1>2, <1>4, <1>5, <1>6 DEF FileInv

LEMMA FileSettle ==
    ASSUME PlaceInv, FileInv, NEW w \in Worker, Settle(w)
    PROVE  FileInv'
<1>. PICK job : job = worker[w].job
    OBVIOUS
<1>1. /\ worker[w].pc = "settle" /\ job \in DOMAIN jobs
      /\ worker'[w].pc = "idle"
      /\ \A v \in Worker : v # w => worker'[v] = worker[v]
      /\ DOMAIN jobs' = DOMAIN jobs
      /\ \A k \in DOMAIN jobs : k # job => jobs'[k] = jobs[k]
      /\ jobs'[job].kind = jobs[job].kind
      /\ jobs'[job].status = Done => worker[w].ok /\ jobs'[job].path = worker[w].path
      /\ UNCHANGED <<source, deleted, files, asked, torn>>
    BY SettleEffect DEF PlaceInv, Idle
<1>2. \A j \in DOMAIN jobs : \A path :
          /\ OwnFile(j, path)' <=> OwnFile(j, path)
          /\ Complete(j, path)' <=> Complete(j, path)
    BY <1>1 DEF OwnFile, Complete
<1>3. \A j \in DOMAIN jobs' : asked'[j] \subseteq OfTable(jobs[j].kind)'
    <2>. SUFFICES ASSUME NEW j \in DOMAIN jobs'
                  PROVE  asked'[j] \subseteq OfTable(jobs[j].kind)'
        OBVIOUS
    <2>. PICK kind : kind = jobs'[j].kind
        OBVIOUS
    <2>1. kind = jobs[j].kind /\ asked'[j] \subseteq OfTable(kind)
        BY <1>1 DEF FileInv
    <2>. QED
        BY <1>1, <2>1 DEF OfTable
<1>4. \A v \in Worker : worker[v].pc \in {"write", "settle"} => worker[v].job \in DOMAIN jobs
    BY WorkerFacts DEF PlaceInv, Shape, OnePlace
<1>5. ASSUME NEW v \in Worker, worker'[v].pc = "write"
      PROVE  worker'[v].path[1] = worker'[v].job /\ OwnFile(worker[v].job, worker[v].path)'
    <2>1. PICK j, path : j = worker'[v].job /\ path = worker'[v].path
        OBVIOUS
    <2>2. worker[v].pc = "write" /\ j = worker[v].job /\ path = worker[v].path
        BY <1>1, <1>5, <2>1
    <2>3. path[1] = j /\ OwnFile(j, path) /\ j \in DOMAIN jobs
        BY <1>4, <2>2 DEF FileInv
    <2>. QED
        BY <1>2, <2>1, <2>3
<1>6. ASSUME NEW v \in Worker, worker'[v].pc = "settle"
      PROVE  /\ worker'[v].path[1] = worker'[v].job
             /\ worker'[v].ok => /\ OwnFile(worker[v].job, worker[v].path)'
                                 /\ Complete(worker[v].job, worker[v].path)'
    <2>1. PICK j, path : j = worker'[v].job /\ path = worker'[v].path
        OBVIOUS
    <2>2. worker[v].pc = "settle" /\ j = worker[v].job /\ path = worker[v].path
          /\ worker'[v].ok = worker[v].ok
        BY <1>1, <1>6, <2>1
    <2>3. path[1] = j /\ j \in DOMAIN jobs /\ (worker'[v].ok => OwnFile(j, path) /\ Complete(j, path))
        BY <1>4, <2>2 DEF FileInv
    <2>. QED
        BY <1>2, <2>1, <2>3
<1>7. ASSUME NEW k \in DOMAIN jobs', jobs'[k].status = Done
      PROVE  jobs'[k].path[1] = k /\ OwnFile(k, jobs[k].path)' /\ Complete(k, jobs[k].path)'
    <2>1. PICK path : path = jobs'[k].path
        OBVIOUS
    <2>2. CASE k = job
        <3>1. worker[w].ok /\ path = worker[w].path
            BY <1>1, <1>7, <2>1, <2>2
        <3>2. path[1] = k /\ OwnFile(k, path) /\ Complete(k, path)
            BY <1>1, <2>2, <3>1 DEF FileInv
        <3>. QED
            BY <1>1, <1>2, <2>1, <2>2, <3>2
    <2>3. CASE k # job
        <3>1. k \in DOMAIN jobs /\ jobs[k].status = Done /\ path = jobs[k].path
            BY <1>1, <1>7, <2>1, <2>3
        <3>2. path[1] = k /\ OwnFile(k, path) /\ Complete(k, path)
            BY <3>1 DEF FileInv
        <3>. QED
            BY <1>2, <2>1, <3>1, <3>2
    <2>. QED
        BY <2>2, <2>3
<1>. QED
    BY <1>3, <1>5, <1>6, <1>7 DEF FileInv

LEMMA FileStep == PlaceInv /\ FileInv /\ [ExNext]_vars => FileInv'
<1>. SUFFICES ASSUME PlaceInv, FileInv, [ExNext]_vars
              PROVE  FileInv'
    OBVIOUS
<1>1. CASE UNCHANGED <<source, deleted, jobs, files, worker, history>>
    BY <1>1, FileStays DEF history, OfTable
<1>2. CASE UNCHANGED vars
    BY <1>1, <1>2 DEF vars
<1>3. ASSUME NEW r \in Row, Add(r) \/ DeleteAsset(r)
      PROVE  FileInv'
    <2>1. \A kind : OfTable(kind) \subseteq OfTable(kind)'
        BY <1>3 DEF Add, DeleteAsset, OfTable
    <2>2. deleted \subseteq deleted'
        BY <1>3 DEF Add, DeleteAsset
    <2>. QED
        BY <1>3, <2>1, <2>2, FileStays DEF Add, DeleteAsset, history
<1>4. ASSUME NEW h \in Handler, JobID(h)
      PROVE  FileInv'
    BY <1>1, <1>4 DEF JobID
<1>5. ASSUME NEW h \in Handler, Push(h)
      PROVE  FileInv'
    <2>1. UNCHANGED <<source, deleted, jobs, files, worker, asked, torn>>
        BY <1>5 DEF Push
    <2>. QED
        BY <2>1, FileStays DEF OfTable
<1>6. ASSUME NEW w \in Worker, Pop(w)
      PROVE  FileInv'
    <2>1. /\ worker'[w].pc = "mark"
          /\ \A v \in Worker : v # w => worker'[v] = worker[v]
          /\ UNCHANGED <<source, deleted, jobs, files, asked, torn>>
        BY <1>6, PopEffect DEF PlaceInv
    <2>. QED
        BY <2>1, FileStays DEF OfTable
<1>7. ASSUME NEW w \in Worker, Stop(w) \/ Start(w)
      PROVE  FileInv'
    <2>1. /\ worker'[w].pc \in {"idle", "down"}
          /\ \A v \in Worker : v # w => worker'[v] = worker[v]
          /\ UNCHANGED <<source, deleted, jobs, files, asked, torn>>
        BY <1>7, StopStartEffect DEF PlaceInv, Idle, Down
    <2>. QED
        BY <2>1, FileStays DEF OfTable
<1>. QED
    BY <1>2, <1>3, <1>4, <1>5, <1>6, <1>7, FileInsert, FileMove, FileSettle
    DEF ExNext, HandlerStep, WorkerStep, Move

LEMMA FileInvHolds == ExSpec => []FileInv
BY FileInit, FileStep, PlaceInvHolds, PTL DEF ExSpec

(* A job that is marked as done (main.go of the export worker) has a file  *)
(* of its own with every row its table held when the export was ordered,   *)
(* assets too unless deleted since, and unless the writes failed           *)
(* unnoticed, whichever jobs run in the same second and whatever is added  *)
(* meanwhile.                                                              *)
THEOREM DoneHoldsWhatWasThereHolds == ExSpec => []DoneHoldsWhatWasThere
<1>1. FileInv => DoneHoldsWhatWasThere
    BY DEF FileInv, DoneHoldsWhatWasThere, OwnFile, Complete
<1>. QED
    BY <1>1, FileInvHolds, PTL

(* An outcome is final: a job is in no place any more, and no other job    *)
(* has a file of that name.                                                *)
THEOREM OutcomeIsFinalHolds == ExSpec => OutcomeIsFinal
<1>. DEFINE Final == \A j \in DOMAIN jobs : Settled(j) =>
                        /\ jobs'[j] = jobs[j]
                        /\ jobs[j].status = Done => files'[jobs[j].path] = files[jobs[j].path]
<1>1. PlaceInv /\ FileInv /\ [ExNext]_vars => [Final]_vars
    <2>. SUFFICES ASSUME PlaceInv, FileInv, ExNext, NEW j \in DOMAIN jobs, Settled(j)
                  PROVE  /\ jobs'[j] = jobs[j]
                         /\ jobs[j].status = Done => files'[jobs[j].path] = files[jobs[j].path]
        OBVIOUS
    <2>1. CASE UNCHANGED <<jobs, files>>
        BY <2>1
    <2>2. ASSUME NEW h \in Handler, InsertJob(h)
          PROVE  jobs'[j] = jobs[j] /\ UNCHANGED files
        BY <2>2, InsertEffect DEF PlaceInv
    <2>3. ASSUME NEW w \in Worker, Settle(w)
          PROVE  jobs'[j] = jobs[j] /\ UNCHANGED files
        BY <2>3, SettleEffect DEF PlaceInv
    <2>4. ASSUME NEW w \in Worker, Move(w)
          PROVE  /\ jobs'[j] = jobs[j]
                 /\ jobs[j].status = Done => files'[jobs[j].path] = files[jobs[j].path]
        <3>1. jobs'[j] = jobs[j] /\ j # worker[w].job
            BY <2>4, MoveEffect DEF PlaceInv, OnePlace
        <3>2. CASE jobs[j].status = Done
            <4>1. jobs[j].path \in DOMAIN files /\ jobs[j].path[1] = j
                BY <3>2 DEF FileInv, OwnFile
            <4>. QED
                BY <2>4, <3>1, <4>1, OtherFiles
        <3>. QED
            BY <3>1, <3>2
    <2>. QED
        BY <2>1, <2>2, <2>3, <2>4
        DEF ExNext, HandlerStep, WorkerStep, Move, Add, DeleteAsset, JobID, Push, Pop, Stop, Start
<1>. QED
    BY <1>1, PlaceInvHolds, FileInvHolds, PTL DEF ExSpec, OutcomeIsFinal
=============================================================================
