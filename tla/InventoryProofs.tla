--------------------------- MODULE InventoryProofs ---------------------------
(***************************************************************************)
(* The invariants of Inventory, for any assets, users and contents of      *)
(* drafts, any number of requests at once, of submissions and of           *)
(* incidents.                                                              *)
(***************************************************************************)
EXTENDS Inventory, FiniteSetTheorems, TLAPS

-------------------------------------------------------------------------------
(***************************************************************************)
(* Shapes: the types, with what the tables keep and what a request carries *)
(* from one of its steps to the next                                       *)
(***************************************************************************)
Entry == [operator : User, cells : Cells, at : Nat]

\* Mongo keeps one draft for each asset and operator.
DraftsShape ==
  /\ drafts \in [Asset -> SUBSET Entry]
  /\ \A a \in Asset :
       /\ IsFiniteSet(drafts[a])
       /\ \A e \in drafts[a] : e.at \in 1 .. clock
       /\ \A e, f \in drafts[a] : e.operator = f.operator => e = f

PendingConflict == [pending : {TRUE}, candidates : SUBSET Entry]
ResolvedConflict == [pending : {FALSE}, candidates : SUBSET Entry,
                     operator : User \cup {Nobody}, location : Place]

\* A conflict is pending before it is resolved, and has no verdict until then.
ConflictsShape ==
  /\ DOMAIN conflicts = Asset
  /\ \A a \in Asset :
       /\ conflicts[a] \in {NoConflict} \cup PendingConflict \cup ResolvedConflict
       /\ \A e \in conflicts[a].candidates : e.at \in 1 .. clock

Resolved(a) == conflicts[a] \in ResolvedConflict

RecordsShape ==
  /\ records \in [Asset -> Seq(Row)]
  /\ \A a \in Asset :
       /\ \A i, j \in DOMAIN records[a] : records[a][i].known /\ records[a][j].known => i = j
       /\ Len(records[a]) <= commits + (IF Resolved(a) THEN 1 ELSE 0)

\* A row that has just been computed is not decided.
Fresh(row) == row \in Row /\ row.diff = Undecided

Carries(r) ==
  /\ r.pc = "items" => r.chosen \subseteq Asset
  /\ r.pc = "submit" =>
       /\ r = [pc |-> "submit", operator |-> r.operator, todo |-> r.todo]
       /\ r.operator \in User /\ r.todo \subseteq Asset
       /\ clock >= 1 /\ status >= Running
  /\ r.pc \in {"archive", "records"} => started
  /\ r.pc \in {"resolve", "commit", "compare", "run"} => commits > 0
  /\ r.pc = "records" =>
       /\ r.read \in Nat /\ r.read < clock
       /\ \A a \in Asset : r.rows[a] = NoRow \/ Fresh(r.rows[a])
       /\ \A a \in Asset : \A e \in r.candidates[a] : e \in Entry /\ e.at \in 1 .. clock
  /\ r.pc \in {"resolve", "commit"} => r.asset \in Asset /\ Fresh(r.row) /\ r.row.scanned
  /\ r.pc = "commit" => conflicts[r.asset] \in PendingConflict
  /\ r.pc = "run" =>
       /\ r = [pc |-> "run", todo |-> r.todo]
       /\ \A t \in r.todo : t.asset \in Asset /\ t.index \in DOMAIN records[t.asset] /\ t.row \in Row

\* No conflict is being decided in two transactions.
OneCommit ==
  \A g, h \in Handler :
    At(g, "commit") /\ At(h, "commit") /\ handler[g].asset = handler[h].asset => g = h

\* What there can be before the publication, the first archive and its commit.
Stages ==
  /\ started => status \in Running .. Compared
  /\ commits > 0 <=> status \in Archived .. Compared
  /\ commits = 0 => conflicts = [a \in Asset |-> NoConflict]
  /\ commits > 0 => cut < clock
  /\ status >= Running /\ ~Happened({"late"}) => items # {}
  /\ ~Happened({"deleted"}) => gone = {}

Scalars ==
  /\ status \in NoTask .. Compared
  /\ assignees \subseteq User /\ items \subseteq Asset /\ gone \subseteq Asset
  /\ submits \in 0 .. MaxSubmits
  /\ clock \in Nat /\ commits \in Nat /\ started \in BOOLEAN /\ cut \in 0 .. clock

Shape ==
  /\ Scalars /\ DraftsShape /\ ConflictsShape /\ RecordsShape
  /\ DOMAIN handler = Handler
  /\ \A h \in Handler : Carries(handler[h])
  /\ OneCommit /\ Stages

-------------------------------------------------------------------------------
(***************************************************************************)
(* How many archives there can be                                          *)
(***************************************************************************)
Busy(pc) == {h \in Handler : At(h, pc)}

Requested == IF ~started THEN 0 ELSE IF "again" \in incidents THEN 2 ELSE 1

\* An archive is requested, has read, or has committed, or has failed.
Count ==
  /\ "again" \in incidents => started
  /\ IsFiniteSet(Busy("archive")) /\ IsFiniteSet(Busy("records"))
  /\ submits <= clock
  /\ Cardinality(Busy("archive")) + (clock - submits) <= Requested
  /\ Cardinality(Busy("archive")) + Cardinality(Busy("records")) + commits <= Requested

-------------------------------------------------------------------------------
(***************************************************************************)
(* What reaches the records                                                *)
(***************************************************************************)
ItemsRead(r) ==
  /\ r.pc = "records" =>
       \A a \in items \ gone :
         /\ r.rows[a] # NoRow => r.rows[a].known
         /\ r.rows[a] # NoRow \/ r.candidates[a] # {}
  /\ r.pc \in {"resolve", "commit"} => (r.asset \notin gone => r.row.known)

ItemsInv ==
  /\ ItemsAreRecorded
  /\ ~Happened({"assets", "late"}) => \A h \in Handler : ItemsRead(handler[h])

DraftsRead(r) ==
  r.pc = "records" =>
    \A a \in Asset : {e \in drafts[a] : e.at <= r.read} # {} =>
      \/ r.rows[a] # NoRow /\ r.rows[a].scanned
      \/ r.candidates[a] # {}

DraftsInv ==
  /\ DraftsReachRecords
  /\ ~Happened({"drafts"}) => \A h \in Handler : DraftsRead(handler[h])

-------------------------------------------------------------------------------
(***************************************************************************)
(* When a comparison is complete                                           *)
(***************************************************************************)
\* The asset and the place of a row that waits for a decision.
Waiting(a, i) == a \notin spoiled /\ i \in DOMAIN records[a] /\ records[a][i].diff = Undecided

Settling(r) ==
  /\ r.pc = "commit" /\ r.all => Pending = {r.asset}
  /\ r.pc \in {"compare", "run"} => Pending = {}
  /\ r.pc = "run" => \A a \in Asset : \A i : Waiting(a, i) => \E t \in r.todo : t.asset = a /\ t.index = i

SettlingAll ==
  /\ status = Compared => Pending = {} /\ \A a \in Asset : \A i : ~Waiting(a, i)
  /\ \A g \in Handler : Settling(handler[g])

SettledInv == Once /\ ~Happened({"count"}) => SettlingAll

-------------------------------------------------------------------------------
(***************************************************************************)
(* What a difference means                                                 *)
(***************************************************************************)
Plain == Once /\ ~Happened({"drafts", "assignees", "assets", "deleted", "late"})

\* What the assignees had counted by then.
Counted(a, by) == {e \in drafts[a] : e.at <= by /\ e.operator \in assignees}

\* A row speaks for all of them.
SpeaksFor(row, a, by) ==
  /\ row.scanned => \A e \in Counted(a, by) : SameLocation(e.cells.location, row.location)
  /\ ~row.scanned => Counted(a, by) = {}
  /\ ~row.known => a \notin items

\* A decision follows from the row it is on.
Decided(row, a) ==
  /\ row.diff = Match => row.known /\ row.scanned /\ SameLocation(row.location, BookLocation[a])
  /\ row.diff = Loss => row.known /\ ~(row.scanned /\ SameLocation(row.location, BookLocation[a]))
  /\ row.diff = Surplus => ~row.known

SameRow(row, other) ==
  row.known = other.known /\ row.scanned = other.scanned /\ row.location = other.location

InHand(r) ==
  /\ r.pc = "records" =>
       \A a \in Asset : r.rows[a] # NoRow => r.candidates[a] = {} /\ SpeaksFor(r.rows[a], a, r.read)
  /\ r.pc \in {"resolve", "commit"} => r.row.known
  /\ r.pc = "run" => \A t \in r.todo : SameRow(t.row, records[t.asset][t.index])

OnRecord(a) ==
  /\ conflicts[a] = NoConflict => \A i \in DOMAIN records[a] : SpeaksFor(records[a][i], a, cut)
  /\ conflicts[a].pending => records[a] = << >>
  /\ Resolved(a) => \A i \in DOMAIN records[a] :
       records[a][i].known /\ records[a][i].scanned /\ records[a][i].location = conflicts[a].location
  /\ a \notin spoiled => \A i \in DOMAIN records[a] : Decided(records[a][i], a)

DifferenceInv ==
  Plain => (\A h \in Handler : InHand(handler[h])) /\ (\A a \in Asset : OnRecord(a))
-------------------------------------------------------------------------------
(***************************************************************************)
(* Facts about sequences and single steps                                  *)
(***************************************************************************)
LEMMA AppendFacts ==
  ASSUME NEW S, NEW s \in Seq(S), NEW x \in S
  PROVE  /\ Append(s, x) \in Seq(S)
         /\ Len(s) \in Nat /\ Len(Append(s, x)) = Len(s) + 1
         /\ DOMAIN s = 1 .. Len(s)
         /\ DOMAIN Append(s, x) = DOMAIN s \cup {Len(s) + 1}
         /\ \A i \in DOMAIN s : Append(s, x)[i] = s[i]
         /\ Append(s, x)[Len(s) + 1] = x
<1>. PICK n \in Nat : n = Len(s)
  OBVIOUS
<1>1. Append(s, x) \in Seq(S) /\ Len(Append(s, x)) = n + 1
  OBVIOUS
<1>2. DOMAIN s = 1 .. n /\ DOMAIN Append(s, x) = 1 .. (n + 1)
  BY <1>1
<1>3. \A i \in 1 .. n : Append(s, x)[i] = s[i]
  OBVIOUS
<1>4. Append(s, x)[n + 1] = x
  OBVIOUS
<1>5. 1 .. (n + 1) = (1 .. n) \cup {n + 1}
  OBVIOUS
<1>. QED
  BY <1>1, <1>2, <1>3, <1>4, <1>5

LEMMA MoveFacts ==
  ASSUME DOMAIN handler = Handler, NEW h \in Handler, NEW r, Continue(h, r)
  PROVE  /\ DOMAIN handler' = Handler
         /\ handler'[h] = r
         /\ \A g \in Handler \ {h} : handler'[g] = handler[g]
BY DEF Continue

\* What no step undoes.
Onward ==
  /\ clock' \in Nat /\ clock <= clock'
  /\ commits' \in Nat /\ commits <= commits'
  /\ status' \in NoTask .. Compared /\ (status >= Running => status' >= Running)
  /\ started' \in BOOLEAN /\ (started => started')
  /\ \A a \in Asset : DOMAIN records[a] \subseteq DOMAIN records'[a]

\* A request that stays as it is still carries what it did.
LEMMA CarriesIsKept ==
  ASSUME Shape, Onward, NEW r, Carries(r),
         r.pc = "commit" => conflicts'[r.asset] \in PendingConflict
  PROVE  Carries(r)'
<1>1. clock \in Nat /\ commits \in Nat
  BY DEF Shape, Scalars
<1>2. \A n \in Nat : n < clock => n < clock'
  BY <1>1 DEF Onward
<1>3. \A n \in 1 .. clock : n \in 1 .. clock'
  BY <1>1 DEF Onward
<1>4. /\ r.pc = "submit" => clock' >= 1 /\ status' >= Running
      /\ r.pc \in {"resolve", "commit", "compare", "run"} => commits' > 0
  BY <1>1 DEF Carries, Onward
<1>5. r.pc = "run" => \A t \in r.todo : t.index \in DOMAIN records'[t.asset]
  BY DEF Carries, Onward
<1>. QED
  BY <1>2, <1>3, <1>4, <1>5 DEF Carries, Onward

\* A step of one request in which every other carries on as before.
LEMMA RequestStep ==
  ASSUME Shape, Onward, NEW h \in Handler, NEW r, Continue(h, r), Carries(r)',
         \A g \in Handler \ {h} :
           At(g, "commit") => conflicts'[handler[g].asset] \in PendingConflict
  PROVE  DOMAIN handler' = Handler /\ \A g \in Handler : Carries(handler[g])'
<1>1. /\ DOMAIN handler' = Handler
      /\ handler'[h] = r
      /\ \A g \in Handler \ {h} : handler'[g] = handler[g]
  BY MoveFacts DEF Shape
<1>2. ASSUME NEW g \in Handler \ {h}
      PROVE  Carries(handler[g])'
  <2>1. PICK o : o = handler[g]
    OBVIOUS
  <2>2. Carries(o) /\ (o.pc = "commit" => conflicts'[o.asset] \in PendingConflict)
    BY <2>1 DEF Shape, At
  <2>3. Carries(o)'
    BY <2>2, CarriesIsKept
  <2>4. handler'[g] = o
    BY <1>1, <2>1
  <2>. QED
    BY <2>3, <2>4
<1>. QED
  BY <1>1, <1>2

LEMMA OneCommitStep ==
  ASSUME Shape, NEW h \in Handler, NEW r, Continue(h, r),
         r.pc = "commit" => \A g \in Handler \ {h} : At(g, "commit") => handler[g].asset # r.asset
  PROVE  OneCommit'
<1>1. /\ handler'[h] = r
      /\ \A g \in Handler \ {h} : handler'[g] = handler[g]
  BY MoveFacts DEF Shape
<1>. QED
  BY <1>1 DEF OneCommit, Shape, At

LEMMA IdleCarries == Carries(Idle)'
BY DEF Carries, Idle

LEMMA TablesAreKept ==
  ASSUME Shape, UNCHANGED <<drafts, tables, commits>>, clock' \in Nat, clock <= clock'
  PROVE  DraftsShape' /\ ConflictsShape' /\ RecordsShape'
<1>1. clock \in Nat
  BY DEF Shape, Scalars
<1>2. \A n \in 1 .. clock : n \in 1 .. clock'
  BY <1>1
<1>3. DraftsShape'
  BY <1>2 DEF Shape, DraftsShape
<1>4. ConflictsShape'
  BY <1>2 DEF Shape, ConflictsShape, tables
<1>5. RecordsShape'
  BY DEF Shape, RecordsShape, Resolved, tables
<1>. QED
  BY <1>3, <1>4, <1>5

\* A step of one request that writes no table.
LEMMA MoveStep ==
  ASSUME Shape, NEW h \in Handler, NEW r, Continue(h, r),
         UNCHANGED <<drafts, tables, commits>>, clock <= clock',
         status >= Running => status' >= Running, started => started',
         Scalars', Stages', Carries(r)',
         r.pc = "commit" => \A g \in Handler \ {h} : At(g, "commit") => handler[g].asset # r.asset
  PROVE  Shape'
<1>1. commits \in Nat /\ commits' \in Nat /\ clock' \in Nat /\ status' \in NoTask .. Compared
      /\ started' \in BOOLEAN
  BY DEF Shape, Scalars
<1>2. Onward
  BY <1>1 DEF Onward, tables
<1>3. \A g \in Handler \ {h} : At(g, "commit") => conflicts'[handler[g].asset] \in PendingConflict
  BY DEF Shape, At, Carries, tables
<1>4. DOMAIN handler' = Handler /\ \A g \in Handler : Carries(handler[g])'
  BY <1>2, <1>3, RequestStep
<1>5. OneCommit'
  BY OneCommitStep
<1>6. DraftsShape' /\ ConflictsShape' /\ RecordsShape'
  BY <1>1, TablesAreKept
<1>. QED
  BY <1>4, <1>5, <1>6 DEF Shape

\* A step that no request takes.
LEMMA TaskStep ==
  ASSUME Shape, UNCHANGED <<drafts, tables, commits, clock, handler>>,
         status >= Running => status' >= Running, started => started', Scalars', Stages'
  PROVE  Shape'
<1>1. commits \in Nat /\ commits' \in Nat /\ clock \in Nat /\ clock' \in Nat /\ clock <= clock'
      /\ status' \in NoTask .. Compared /\ started' \in BOOLEAN
  BY DEF Shape, Scalars
<1>2. Onward
  BY <1>1 DEF Onward, tables
<1>3. ASSUME NEW g \in Handler
      PROVE  Carries(handler[g])'
  <2>1. PICK o : o = handler[g]
    OBVIOUS
  <2>2. Carries(o) /\ (o.pc = "commit" => conflicts'[o.asset] \in PendingConflict)
    BY <2>1 DEF Shape, Carries, tables
  <2>3. Carries(o)'
    BY <1>2, <2>2, CarriesIsKept
  <2>4. handler'[g] = o
    BY <2>1
  <2>. QED
    BY <2>3, <2>4
<1>4. OneCommit'
  BY DEF Shape, OneCommit, At
<1>5. DraftsShape' /\ ConflictsShape' /\ RecordsShape'
  BY <1>1, TablesAreKept
<1>. QED
  BY <1>3, <1>4, <1>5 DEF Shape

-------------------------------------------------------------------------------
(***************************************************************************)
(* Shape is kept                                                           *)
(***************************************************************************)
LEMMA ShapeInit == InvInit => Shape
<1>. SUFFICES ASSUME InvInit
              PROVE  Shape
  OBVIOUS
<1>1. Scalars
  <2>1. 0 \in 0 .. MaxSubmits /\ 0 \in 0 .. 0 /\ NoTask \in NoTask .. Compared
    BY BoundAssumption DEF NoTask, Compared
  <2>. QED
    BY <2>1 DEF InvInit, Scalars
<1>2. DraftsShape
  <2>1. IsFiniteSet({})
    BY FS_EmptySet
  <2>. QED
    BY <2>1 DEF InvInit, DraftsShape
<1>3. ConflictsShape
  BY DEF InvInit, ConflictsShape, NoConflict
<1>4. RecordsShape
  <2>1. << >> \in Seq(Row) /\ Len(<< >>) = 0 /\ DOMAIN << >> = {}
    OBVIOUS
  <2>2. \A a \in Asset : records[a] = << >>
    BY DEF InvInit
  <2>3. \A a \in Asset : Len(records[a]) <= commits + (IF Resolved(a) THEN 1 ELSE 0)
    BY <2>1, <2>2 DEF InvInit
  <2>4. records \in [Asset -> Seq(Row)]
    BY <2>1 DEF InvInit
  <2>. QED
    BY <2>1, <2>2, <2>3, <2>4 DEF RecordsShape
<1>5. DOMAIN handler = Handler /\ \A h \in Handler : Carries(handler[h])
  BY DEF InvInit, Carries, Idle
<1>6. OneCommit
  BY DEF InvInit, OneCommit, At, Idle
<1>7. Stages
  BY DEF InvInit, Stages, NoTask, Archived, Compared, Running, Happened
<1>. QED
  BY <1>1, <1>2, <1>3, <1>4, <1>5, <1>6, <1>7 DEF Shape

LEMMA ShapeTask ==
  ASSUME Shape, CreateTask \/ PublishTask \/ \E a \in Asset : AssetDeleted(a)
  PROVE  Shape'
<1>1. CASE CreateTask
  <2>1. Scalars' /\ Stages'
    BY <1>1 DEF Shape, CreateTask, Scalars, Stages, tables, counters,
       NoTask, Unpublished, Running, Archived, Compared, Happened
  <2>. QED
    BY <1>1, <2>1, TaskStep DEF CreateTask, counters, NoTask, Running
<1>2. CASE PublishTask
  <2>1. Scalars'
    BY <1>2 DEF Shape, PublishTask, Scalars, counters, NoTask, Running, Compared
  <2>2. ~started /\ ~(commits > 0)
    BY <1>2 DEF Shape, PublishTask, Stages, Unpublished, Running, Archived, Compared
  <2>3. Stages'
    <3>1. ~(commits' > 0) /\ status' \notin Archived .. Compared /\ items' # {} /\ ~started'
      BY <1>2, <2>2 DEF PublishTask, counters, Running, Archived, Compared
    <3>2. UNCHANGED <<conflicts, commits, incidents, gone>>
      BY <1>2 DEF PublishTask, tables, counters
    <3>3. commits = 0 => conflicts = [a \in Asset |-> NoConflict]
      BY DEF Shape, Stages
    <3>4. ~Happened({"deleted"}) => gone = {}
      BY DEF Shape, Stages
    <3>. QED
      BY <3>1, <3>2, <3>3, <3>4 DEF Stages, Happened
  <2>. QED
    BY <1>2, <2>1, <2>3, TaskStep DEF PublishTask, counters, Running
<1>3. CASE \E a \in Asset : AssetDeleted(a)
  <2>. PICK a \in Asset : AssetDeleted(a)
    BY <1>3
  <2>1. Scalars' /\ Stages'
    BY DEF Shape, AssetDeleted, Scalars, Stages, tables, task, counters, Incident, Happened
  <2>. QED
    BY <2>1, TaskStep DEF AssetDeleted, counters, task
<1>. QED
  BY <1>1, <1>2, <1>3

LEMMA ScalarsAreKept ==
  ASSUME Shape, UNCHANGED <<status, assignees, gone, submits, commits, cut>>,
         items' \subseteq Asset, clock' \in Nat, clock <= clock', started' \in BOOLEAN
  PROVE  Scalars'
<1>1. cut' \in 0 .. clock'
  BY DEF Shape, Scalars
<1>. QED
  BY <1>1 DEF Shape, Scalars

LEMMA ConflictFields ==
  ASSUME NEW c
  PROVE  /\ c \in PendingConflict =>
              /\ c.pending = TRUE /\ c.candidates \subseteq Entry
              /\ DOMAIN c = {"pending", "candidates"}
         /\ c \in ResolvedConflict =>
              /\ c.pending = FALSE /\ c.candidates \subseteq Entry
              /\ DOMAIN c = {"pending", "candidates", "operator", "location"}
         /\ c = NoConflict =>
              /\ c.pending = FALSE /\ c.candidates = {}
              /\ DOMAIN c = {"pending", "candidates"}
<1>1. ASSUME c \in PendingConflict
      PROVE  /\ c.pending = TRUE /\ c.candidates \subseteq Entry
             /\ DOMAIN c = {"pending", "candidates"}
  BY <1>1 DEF PendingConflict
<1>2. ASSUME c \in ResolvedConflict
      PROVE  /\ c.pending = FALSE /\ c.candidates \subseteq Entry
             /\ DOMAIN c = {"pending", "candidates", "operator", "location"}
  BY <1>2 DEF ResolvedConflict
<1>3. ASSUME c = NoConflict
      PROVE  /\ c.pending = FALSE /\ c.candidates = {}
             /\ DOMAIN c = {"pending", "candidates"}
  BY <1>3 DEF NoConflict
<1>. QED
  BY <1>1, <1>2, <1>3

LEMMA ConflictFacts ==
  ASSUME Shape, NEW a \in Asset
  PROVE  /\ conflicts[a].candidates \subseteq Entry
         /\ conflicts[a].pending <=> conflicts[a] \in PendingConflict
         /\ Resolved(a) <=> "operator" \in DOMAIN conflicts[a]
         /\ conflicts[a] \in PendingConflict => conflicts[a] # NoConflict /\ ~Resolved(a)
         /\ Resolved(a) => conflicts[a] # NoConflict /\ ~conflicts[a].pending
         /\ conflicts[a] = NoConflict \/ conflicts[a].pending \/ Resolved(a)
         /\ conflicts[a].pending \in BOOLEAN
<1>. PICK c : c = conflicts[a]
  OBVIOUS
<1>0. "operator" \notin {"pending", "candidates"}
  OBVIOUS
<1>1. CASE c = NoConflict
  BY <1>0, <1>1, ConflictFields DEF Resolved
<1>2. CASE c \in PendingConflict
  BY <1>0, <1>2, ConflictFields DEF Resolved
<1>3. CASE c \in ResolvedConflict
  BY <1>0, <1>3, ConflictFields DEF Resolved
<1>. QED
  BY <1>1, <1>2, <1>3 DEF Shape, ConflictsShape

LEMMA StageFacts ==
  ASSUME Shape
  PROVE  /\ started => status \in Running .. Compared
         /\ (commits > 0) <=> (status \in Archived .. Compared)
         /\ commits = 0 => conflicts = [a \in Asset |-> NoConflict]
         /\ commits > 0 => cut < clock
         /\ (status >= Running /\ ~Happened({"late"})) => items # {}
         /\ ~Happened({"deleted"}) => gone = {}
         /\ clock \in Nat /\ commits \in Nat /\ started \in BOOLEAN /\ cut \in Nat
<1>1. Stages /\ Scalars
  BY DEF Shape
<1>2. clock \in Nat /\ commits \in Nat /\ started \in BOOLEAN /\ cut \in Nat
  BY <1>1 DEF Scalars
<1>3. started => status \in Running .. Compared
  BY <1>1 DEF Stages
<1>4. (commits > 0) <=> (status \in Archived .. Compared)
  BY <1>1 DEF Stages
<1>5. commits = 0 => conflicts = [a \in Asset |-> NoConflict]
  BY <1>1 DEF Stages
<1>6. commits > 0 => cut < clock
  BY <1>1 DEF Stages
<1>7. (status >= Running /\ ~Happened({"late"})) => items # {}
  BY <1>1 DEF Stages
<1>8. ~Happened({"deleted"}) => gone = {}
  BY <1>1 DEF Stages
<1>. QED
  BY <1>2, <1>3, <1>4, <1>5, <1>6, <1>7, <1>8

LEMMA StagesAreKept ==
  ASSUME Shape, UNCHANGED <<status, gone, items, conflicts, commits, cut>>,
         clock' \in Nat, clock <= clock', started' = started \/ status \in Running .. Compared,
         incidents \subseteq incidents'
  PROVE  Stages'
<1>1. commits > 0 => cut' < clock'
  BY StageFacts
<1>2. Happened({"late"}) => Happened({"late"})'
  BY DEF Happened
<1>3. Happened({"deleted"}) => Happened({"deleted"})'
  BY DEF Happened
<1>. QED
  BY <1>1, <1>2, <1>3, StageFacts DEF Stages

LEMMA RequestCarries ==
  ASSUME Shape, NEW h \in Handler
  PROVE  Carries(handler[h])
BY DEF Shape

\* A step of one request that touches neither the task nor the tables.
LEMMA PlainMoveStep ==
  ASSUME Shape, NEW h \in Handler, NEW r, Continue(h, r),
         UNCHANGED <<task, gone, drafts, tables, commits, cut, submits>>,
         clock' \in Nat, clock <= clock', incidents \subseteq incidents',
         started' \in BOOLEAN, started => started',
         started' = started \/ status \in Running .. Compared,
         Carries(r)',
         r.pc = "commit" => \A g \in Handler \ {h} : At(g, "commit") => handler[g].asset # r.asset
  PROVE  Shape'
<1>1. Scalars'
  <2>1. items' \subseteq Asset
    BY DEF Shape, Scalars, task
  <2>. QED
    BY <2>1, ScalarsAreKept DEF task
<1>2. Stages'
  BY StagesAreKept DEF task, tables
<1>. QED
  BY <1>1, <1>2, MoveStep DEF task

LEMMA ShapeSimple ==
  ASSUME Shape, NEW h \in Handler,
         \/ UpdateTaskItems(h) \/ Archive(h) \/ Compare(h)
         \/ ArchiveFails(h) \/ AlreadyResolved(h) \/ Abort(h)
  PROVE  Shape'
<1>1. PICK r : /\ Continue(h, r)
               /\ \/ r = Idle
                  \/ \E chosen \in SUBSET Asset : r = [pc |-> "items", chosen |-> chosen]
                  \/ r = [pc |-> "archive"] /\ started'
                  \/ r = [pc |-> "compare"] /\ status = Archived
  BY DEF UpdateTaskItems, Archive, Compare, ArchiveFails, AlreadyResolved, Abort,
         Start, Continue, Finish
<1>2. /\ UNCHANGED <<task, gone, drafts, tables, clock, commits, cut, submits>>
      /\ incidents \subseteq incidents'
      /\ started' = started \/ (started' = TRUE /\ status = Running)
  BY DEF UpdateTaskItems, Archive, Compare, ArchiveFails, AlreadyResolved, Abort,
         task, counters, tables, Incident
<1>3. clock \in Nat /\ started \in BOOLEAN
  BY DEF Shape, Scalars
<1>4. status = Archived => commits' > 0
  BY <1>2, StageFacts DEF Archived, Compared
<1>5. Carries(r)'
  BY <1>1, <1>4 DEF Carries, Idle
<1>6. r.pc # "commit"
  BY <1>1 DEF Idle
<1>7. /\ started' \in BOOLEAN /\ (started => started')
      /\ started' = started \/ status \in Running .. Compared
  <2>1. Running \in Running .. Compared
    BY DEF Running, Compared
  <2>. QED
    BY <1>2, <1>3, <2>1
<1>8. clock' \in Nat /\ clock <= clock'
  BY <1>2, <1>3
<1>. QED
  BY <1>1, <1>2, <1>5, <1>6, <1>7, <1>8, PlainMoveStep

LEMMA ShapeReplaceTaskItems ==
  ASSUME Shape, NEW h \in Handler, ReplaceTaskItems(h)
  PROVE  Shape'
<1>1. UNCHANGED <<status, assignees, gone, drafts, tables, counters>> /\ Continue(h, Idle)
  BY DEF ReplaceTaskItems, Finish
<1>2. clock \in Nat /\ started \in BOOLEAN
  BY DEF Shape, Scalars
<1>3. items' \subseteq Asset
  BY RequestCarries DEF ReplaceTaskItems, Carries, At
<1>4. Scalars'
  BY <1>1, <1>2, <1>3, ScalarsAreKept DEF counters
<1>5. Stages'
  <2>1. status >= Running => status # Unpublished
    BY DEF Running, Unpublished
  <2>2. status # Unpublished => "late" \in incidents'
    BY DEF ReplaceTaskItems, Incident
  <2>3. incidents \subseteq incidents'
    BY DEF ReplaceTaskItems, Incident
  <2>4. status' >= Running => Happened({"late"})'
    BY <1>1, <2>1, <2>2 DEF Happened
  <2>5. Happened({"deleted"}) => Happened({"deleted"})'
    BY <2>3 DEF Happened
  <2>. QED
    BY <1>1, <2>4, <2>5, StageFacts DEF Stages, counters, tables
<1>6. Idle.pc # "commit"
  BY DEF Idle
<1>. QED
  BY <1>1, <1>2, <1>4, <1>5, <1>6, IdleCarries, MoveStep DEF counters

LEMMA ShapeSubmit ==
  ASSUME Shape, NEW h \in Handler, Submit(h)
  PROVE  Shape'
<1>1. PICK u \in User, todo \in SUBSET Asset :
        Continue(h, [pc |-> "submit", operator |-> u, todo |-> todo])
  <2>1. Expected \subseteq Asset
    BY DEF Shape, Scalars, Expected
  <2>. QED
    BY <2>1 DEF Submit, Start, Continue
<1>. PICK r : r = [pc |-> "submit", operator |-> u, todo |-> todo]
  OBVIOUS
<1>2. UNCHANGED <<status, assignees, items, gone, drafts, tables, started, commits, cut, incidents>>
  BY DEF Submit, task
<1>3. clock \in Nat /\ clock' = clock + 1 /\ clock' \in Nat /\ clock <= clock' /\ clock' >= 1
  BY DEF Submit, Shape, Scalars
<1>4. Scalars'
  <2>1. submits' \in 0 .. MaxSubmits
    BY BoundAssumption DEF Submit, Shape, Scalars
  <2>2. cut' \in 0 .. clock'
    BY <1>2, <1>3 DEF Shape, Scalars
  <2>. QED
    BY <1>2, <1>3, <2>1, <2>2 DEF Shape, Scalars
<1>5. Stages'
  BY <1>2, <1>3, StagesAreKept DEF tables
<1>6. Carries(r)'
  BY <1>2, <1>3 DEF Carries, Submit, Running
<1>. QED
  BY <1>1, <1>2, <1>3, <1>4, <1>5, <1>6, MoveStep

LEMMA ShapeResolveConflict ==
  ASSUME Shape, NEW h \in Handler, NEW a \in Asset, ResolveConflict(h, a)
  PROVE  Shape'
<1>1. PICK answered \in BOOLEAN :
        \E verdict \in {[operator |-> e.operator, location |-> e.cells.location] :
                            e \in conflicts[a].candidates}
                         \cup {[operator |-> Nobody, location |-> TrimSpace(c.location)] :
                                 c \in {d \in Cells : TrimSpace(d.location) # Nowhere}} :
            Start(h, [pc |-> "resolve", asset |-> a,
                      row |-> [known |-> answered /\ a \notin gone,
                               operator |-> verdict.operator, scanned |-> TRUE,
                               location |-> verdict.location, diff |-> Undecided]])
  BY DEF ResolveConflict
<1>2. PICK verdict \in {[operator |-> e.operator, location |-> e.cells.location] :
                            e \in conflicts[a].candidates}
                         \cup {[operator |-> Nobody, location |-> TrimSpace(c.location)] :
                                 c \in {d \in Cells : TrimSpace(d.location) # Nowhere}} :
            Start(h, [pc |-> "resolve", asset |-> a,
                      row |-> [known |-> answered /\ a \notin gone,
                               operator |-> verdict.operator, scanned |-> TRUE,
                               location |-> verdict.location, diff |-> Undecided]])
  BY <1>1
<1>3. /\ verdict.operator \in User \cup {Nobody}
      /\ verdict.location \in Place
  <2>1. \A e \in conflicts[a].candidates : e \in Entry
    BY ConflictFacts
  <2>2. \A e \in conflicts[a].candidates : e.operator \in User /\ e.cells \in Cells
    BY <2>1 DEF Entry
  <2>. QED
    BY <2>2 DEF Place
<1>4. PICK known \in BOOLEAN : known = (answered /\ a \notin gone)
  OBVIOUS
<1>. PICK row : row = [known |-> known, operator |-> verdict.operator, scanned |-> TRUE,
                       location |-> verdict.location, diff |-> Undecided]
  OBVIOUS
<1>5. Fresh(row) /\ row.scanned
  BY <1>3 DEF Fresh, Row, Undecided, Loss
<1>. PICK r : r = [pc |-> "resolve", asset |-> a, row |-> row]
  OBVIOUS
<1>6. Continue(h, r)
  BY <1>2, <1>4, Zenon DEF Start, Continue
<1>7. UNCHANGED <<task, gone, drafts, tables, counters>> /\ incidents \subseteq incidents'
  BY DEF ResolveConflict, Incident
<1>8. clock \in Nat /\ started \in BOOLEAN
  BY DEF Shape, Scalars
<1>9. commits' > 0
  BY <1>7, StageFacts DEF ResolveConflict, Archived, Compared, counters
<1>10. Carries(r)'
  BY <1>5, <1>9 DEF Carries, Fresh, Row
<1>. QED
  BY <1>6, <1>7, <1>8, <1>10, PlainMoveStep DEF counters

LEMMA ShapeResolveTx ==
  ASSUME Shape, NEW h \in Handler, ResolveTx(h)
  PROVE  Shape'
<1>. PICK o : o = handler[h]
  OBVIOUS
<1>1. PICK all : all = LastPending(o.asset)
  OBVIOUS
<1>. PICK r : r = [pc |-> "commit", asset |-> o.asset, row |-> o.row, all |-> all]
  OBVIOUS
<1>2. Continue(h, r)
  BY <1>1 DEF ResolveTx
<1>3. UNCHANGED <<task, gone, drafts, tables, clock, submits, started, commits, cut, incidents>>
  BY DEF ResolveTx
<1>4. o.asset \in Asset /\ Fresh(o.row) /\ o.row.scanned /\ commits > 0
  BY RequestCarries DEF ResolveTx, At, Carries
<1>5. conflicts[o.asset] \in PendingConflict
  <2>1. conflicts[o.asset].pending
    BY DEF ResolveTx, Pending
  <2>. QED
    BY <1>4, <2>1, ConflictFacts
<1>6. Carries(r)'
  BY <1>3, <1>4, <1>5 DEF Carries, tables, Fresh, Row
<1>7. \A g \in Handler \ {h} : At(g, "commit") => handler[g].asset # r.asset
  BY DEF ResolveTx
<1>8. clock \in Nat /\ started \in BOOLEAN
  BY DEF Shape, Scalars
<1>. QED
  BY <1>2, <1>3, <1>6, <1>7, <1>8, PlainMoveStep
-------------------------------------------------------------------------------
(***************************************************************************)
(* What an archive reads                                                   *)
(***************************************************************************)
LEMMA PickedIsEntry ==
  ASSUME NEW entries, NEW assigned, NEW e \in PickConsensus(entries, assigned)
  PROVE  e \in entries
BY DEF PickConsensus, PickForArchive, AssigneeEntries, LatestPerOperator, Newest

\* The three ways an asset is dealt with.
RowCases(entries, assigned, expected, a, row) ==
  \/ /\ entries # {} /\ ~HasAssigneeConflict(entries, assigned)
     /\ \E e \in PickConsensus(entries, assigned) : \E known \in BOOLEAN :
          known = (a \in expected) /\ row = ScannedRow(e, known)
  \/ entries = {} /\ a \in expected /\ row = MissingRow
  \/ /\ row = NoRow
     /\ \/ entries # {} /\ HasAssigneeConflict(entries, assigned)
        \/ entries = {} /\ a \notin expected

\* What the reads returned, of which one may have failed.
Returned(lost, entries, assigned, expected) ==
  /\ lost \in {"nothing", "drafts", "assignees", "assets"}
  /\ entries = IF lost = "drafts" THEN [a \in Asset |-> {}] ELSE drafts
  /\ assigned = IF lost = "assignees" THEN {} ELSE assignees
  /\ expected = IF lost = "assets" THEN {} ELSE Expected
  /\ incidents \subseteq incidents' /\ (lost # "nothing" => lost \in incidents')

\* What is made of it.
Computed(h, entries, assigned, expected, rows, candidates) ==
  /\ Continue(h, [pc |-> "records", rows |-> rows, candidates |-> candidates, read |-> clock])
  /\ \A a \in Asset :
       /\ RowCases(entries[a], assigned, expected, a, rows[a])
       /\ candidates[a] = IF HasAssigneeConflict(entries[a], assigned)
                          THEN AssigneeEntries(entries[a], assigned) ELSE {}

LEMMA ArchiveReadEffect ==
  ASSUME NEW h, ArchiveRead(h)
  PROVE  \E lost, entries, assigned, expected, rows, candidates :
           /\ Returned(lost, entries, assigned, expected)
           /\ Computed(h, entries, assigned, expected, rows, candidates)
<1>1. PICK lost \in {"nothing", "drafts", "assignees", "assets"} :
       LET entries == IF lost = "drafts" THEN [a \in Asset |-> {}] ELSE drafts
           assigned == IF lost = "assignees" THEN {} ELSE assignees
           expected == IF lost = "assets" THEN {} ELSE Expected
           choices == RowsOf(entries, assigned, expected)
       IN /\ \E rows \in [Asset -> UNION Range(choices)] :
               /\ \A a \in Asset : rows[a] \in choices[a]
               /\ Continue(h, [pc |-> "records", rows |-> rows,
                               candidates |-> CandidatesOf(entries, assigned), read |-> clock])
          /\ IF lost = "nothing" THEN UNCHANGED incidents ELSE Incident(lost)
  BY DEF ArchiveRead
<1>2. PICK entries : entries = IF lost = "drafts" THEN [a \in Asset |-> {}] ELSE drafts
  OBVIOUS
<1>3. PICK assigned : assigned = IF lost = "assignees" THEN {} ELSE assignees
  OBVIOUS
<1>4. PICK expected : expected = IF lost = "assets" THEN {} ELSE Expected
  OBVIOUS
<1>5. PICK rows :
        /\ \A a \in Asset : rows[a] \in RowsOf(entries, assigned, expected)[a]
        /\ Continue(h, [pc |-> "records", rows |-> rows,
                        candidates |-> CandidatesOf(entries, assigned), read |-> clock])
  BY <1>1, <1>2, <1>3, <1>4
<1>6. Returned(lost, entries, assigned, expected)
  BY <1>1, <1>2, <1>3, <1>4 DEF Returned, Incident
<1>7. ASSUME NEW a \in Asset
      PROVE  RowCases(entries[a], assigned, expected, a, rows[a])
  <2>1. rows[a] \in
          IF entries[a] # {} /\ ~HasAssigneeConflict(entries[a], assigned)
          THEN {ScannedRow(e, a \in expected) : e \in PickConsensus(entries[a], assigned)}
          ELSE IF entries[a] = {} /\ a \in expected THEN {MissingRow} ELSE {NoRow}
    BY <1>5 DEF RowsOf
  <2>2. PICK known \in BOOLEAN : known = (a \in expected)
    <3>1. (a \in expected) \in BOOLEAN
      OBVIOUS
    <3>. QED
      BY <3>1, Zenon
  <2>3. rows[a] \in
          IF entries[a] # {} /\ ~HasAssigneeConflict(entries[a], assigned)
          THEN {ScannedRow(e, known) : e \in PickConsensus(entries[a], assigned)}
          ELSE IF entries[a] = {} /\ a \in expected THEN {MissingRow} ELSE {NoRow}
    BY <2>1, <2>2, Zenon
  <2>. QED
    BY <2>2, <2>3 DEF RowCases
<1>8. \A a \in Asset :
        CandidatesOf(entries, assigned)[a] =
          IF HasAssigneeConflict(entries[a], assigned)
          THEN AssigneeEntries(entries[a], assigned) ELSE {}
  BY DEF CandidatesOf
<1>9. Computed(h, entries, assigned, expected, rows, CandidatesOf(entries, assigned))
  BY <1>5, <1>7, <1>8 DEF Computed
<1>. QED
  BY <1>6, <1>9, Zenon

LEMMA ShapeArchiveRead ==
  ASSUME Shape, NEW h \in Handler, ArchiveRead(h)
  PROVE  Shape'
<1>0. PICK lost, entries, assigned, expected, rows, candidates :
        /\ Returned(lost, entries, assigned, expected)
        /\ Computed(h, entries, assigned, expected, rows, candidates)
  BY ArchiveReadEffect, Zenon
<1>1. /\ Returned(lost, entries, assigned, expected)
      /\ Continue(h, [pc |-> "records", rows |-> rows, candidates |-> candidates, read |-> clock])
      /\ \A a \in Asset :
           /\ RowCases(entries[a], assigned, expected, a, rows[a])
           /\ candidates[a] = IF HasAssigneeConflict(entries[a], assigned)
                              THEN AssigneeEntries(entries[a], assigned) ELSE {}
  BY <1>0 DEF Computed
<1>. PICK r : r = [pc |-> "records", rows |-> rows, candidates |-> candidates, read |-> clock]
  OBVIOUS
<1>2. UNCHANGED <<task, gone, drafts, tables, submits, started, commits, cut>>
  BY DEF ArchiveRead
<1>3. clock \in Nat /\ clock' = clock + 1 /\ started \in BOOLEAN
  BY DEF ArchiveRead, Shape, Scalars
<1>4. \A a \in Asset : \A e \in entries[a] : e \in Entry /\ e.at \in 1 .. clock
  BY <1>1 DEF Returned, Shape, DraftsShape
<1>5. ASSUME NEW a \in Asset, NEW e \in candidates[a]
      PROVE  e \in Entry /\ e.at \in 1 .. clock'
  <2>1. e \in entries[a]
    BY <1>1, <1>5 DEF AssigneeEntries, LatestPerOperator
  <2>2. e \in Entry /\ e.at \in 1 .. clock
    BY <1>4, <2>1
  <2>. QED
    BY <1>3, <2>2
<1>6. ASSUME NEW a \in Asset, rows[a] # NoRow
      PROVE  Fresh(rows[a])
  <2>1. CASE rows[a] = MissingRow
    BY <2>1 DEF MissingRow, Fresh, Row, Place, Undecided, Loss
  <2>2. ASSUME NEW e \in PickConsensus(entries[a], assigned), NEW known \in BOOLEAN,
               rows[a] = ScannedRow(e, known)
        PROVE  Fresh(rows[a])
    <3>1. e.operator \in User /\ e.cells \in Cells
      BY <1>4, <2>2, PickedIsEntry DEF Entry
    <3>2. rows[a] = [known |-> known, operator |-> e.operator, scanned |-> TRUE,
                     location |-> e.cells.location, diff |-> Undecided]
      BY <2>2 DEF ScannedRow
    <3>. QED
      BY <3>1, <3>2 DEF Fresh, Row, Place, Undecided, Loss
  <2>. QED
    BY <1>1, <1>6, <2>1, <2>2 DEF RowCases
<1>7. started'
  <2>1. started
    BY RequestCarries DEF ArchiveRead, At, Carries
  <2>. QED
    BY <1>2, <2>1
<1>8. r.read \in Nat /\ r.read < clock'
  BY <1>3
<1>9. Carries(r)'
  BY <1>5, <1>6, <1>7, <1>8 DEF Carries, Fresh, Row, Entry
<1>10. incidents \subseteq incidents'
  BY <1>1 DEF Returned
<1>. QED
  BY <1>1, <1>2, <1>3, <1>9, <1>10, PlainMoveStep

-------------------------------------------------------------------------------
(***************************************************************************)
(* The comparison                                                          *)
(***************************************************************************)
LEMMA UndecidedFacts ==
  ASSUME NEW t
  PROVE  t \in UndecidedRows <=>
           \E a \in Asset : \E i \in DOMAIN records[a] :
             records[a][i].diff = Undecided /\ t = [asset |-> a, index |-> i, row |-> records[a][i]]
BY DEF UndecidedRows

\* A request that has finished, or gone on without writing a table.
LEMMA ShapeRun ==
  ASSUME Shape, NEW h \in Handler,
         \/ RunRead(h) \/ RunFinish(h)
         \/ \E t \in handler[h].todo : RunRowFails(h, t)
  PROVE  Shape'
<1>1. commits > 0 /\ status \in NoTask .. Compared /\ clock \in Nat
  BY RequestCarries DEF RunRead, RunFinish, RunRowFails, At, Carries, Shape, Scalars
<1>2. /\ UNCHANGED <<assignees, items, gone, drafts, tables, clock, submits, started, commits, cut>>
      /\ incidents \subseteq incidents'
      /\ status' = status \/ status' = Compared
  BY DEF RunRead, RunFinish, RunRowFails, task, counters, Incident
<1>3. Scalars'
  BY <1>1, <1>2 DEF Shape, Scalars, counters, NoTask, Compared
<1>4. Stages'
  <2>1. status \in Archived .. Compared
    BY <1>1, StageFacts
  <2>2. status' \in Archived .. Compared /\ status' \in Running .. Compared /\ status >= Running
    BY <1>1, <1>2, <2>1 DEF Running, Archived, Compared
  <2>3. Happened({"late"}) => Happened({"late"})'
    BY <1>2 DEF Happened
  <2>4. Happened({"deleted"}) => Happened({"deleted"})'
    BY <1>2 DEF Happened
  <2>. QED
    BY <1>1, <1>2, <2>2, <2>3, <2>4, StageFacts DEF Stages, tables, counters
<1>5. status >= Running => status' >= Running
  BY <1>1, <1>2 DEF Running, Compared
<1>6. PICK r : /\ Continue(h, r)
               /\ \/ r = Idle
                  \/ r = [pc |-> "run", todo |-> UndecidedRows]
                  \/ \E t : At(h, "run") /\ r = [handler[h] EXCEPT !.todo = @ \ {t}]
  BY DEF RunRead, RunFinish, RunRowFails, Finish
<1>7. Carries(r)' /\ r.pc # "commit"
  <2>1. CASE r = Idle
    BY <2>1, IdleCarries DEF Idle
  <2>2. CASE r = [pc |-> "run", todo |-> UndecidedRows]
    <3>1. \A t \in UndecidedRows : t.asset \in Asset /\ t.index \in DOMAIN records[t.asset] /\ t.row \in Row
      <4>1. ASSUME NEW a \in Asset, NEW i \in DOMAIN records[a]
            PROVE  records[a][i] \in Row
        <5>1. PICK s \in Seq(Row) : s = records[a]
          BY DEF Shape, RecordsShape
        <5>2. s[i] \in Row
          BY <5>1
        <5>. QED
          BY <5>1, <5>2
      <4>. QED
        BY <4>1, UndecidedFacts
    <3>. QED
      BY <1>1, <1>2, <2>2, <3>1 DEF Carries, tables, counters, Row
  <2>3. ASSUME NEW t, At(h, "run"), r = [handler[h] EXCEPT !.todo = @ \ {t}]
        PROVE  Carries(r)' /\ r.pc # "commit"
    <3>1. PICK o : o = handler[h]
      OBVIOUS
    <3>2. /\ o = [pc |-> "run", todo |-> o.todo]
          /\ \A x \in o.todo : x.asset \in Asset /\ x.index \in DOMAIN records[x.asset] /\ x.row \in Row
      BY <2>3, <3>1, RequestCarries DEF At, Carries
    <3>3. PICK todo : todo = o.todo \ {t}
      OBVIOUS
    <3>4. r = [pc |-> "run", todo |-> todo]
      <4>1. PICK p, seen : o = [pc |-> p, todo |-> seen] /\ p = "run" /\ seen = o.todo
        BY <3>2
      <4>2. [o EXCEPT !.todo = @ \ {t}] = [pc |-> p, todo |-> seen \ {t}]
        BY <4>1
      <4>. QED
        BY <2>3, <3>1, <3>3, <4>1, <4>2
    <3>. QED
      BY <1>1, <1>2, <3>2, <3>3, <3>4 DEF Carries, tables, counters, Row
  <2>. QED
    BY <1>6, <2>1, <2>2, <2>3
<1>. QED
  BY <1>1, <1>2, <1>3, <1>4, <1>5, <1>6, <1>7, MoveStep DEF counters
-------------------------------------------------------------------------------
(***************************************************************************)
(* A draft is written                                                      *)
(***************************************************************************)
\* The entry, in the place of the operator's older one, and what is left to do.
Wrote(h, a, e, r) ==
  /\ e \in Entry /\ e.at = clock
  /\ drafts' = [drafts EXCEPT ![a] = (@ \ {f \in drafts[a] : f.operator = e.operator}) \cup {e}]
  /\ Continue(h, r)
  /\ \/ r = Idle
     \/ \E todo \in SUBSET Asset : r = [pc |-> "submit", operator |-> e.operator, todo |-> todo]

LEMMA WriteDraftEffect ==
  ASSUME Shape, NEW h \in Handler, NEW a \in Asset, WriteDraft(h, a)
  PROVE  clock >= 1 /\ status >= Running /\ \E e, r : Wrote(h, a, e, r)
<1>1. PICK o : o = handler[h]
  OBVIOUS
<1>2. /\ o = [pc |-> "submit", operator |-> o.operator, todo |-> o.todo]
      /\ o.operator \in User /\ o.todo \subseteq Asset
      /\ clock >= 1 /\ status >= Running
  BY <1>1, RequestCarries DEF WriteDraft, At, Carries
<1>3. PICK u : u = o.operator
  OBVIOUS
<1>4. PICK c \in Cells :
        drafts' = [drafts EXCEPT ![a] = (@ \ {f \in drafts[a] : f.operator = u}) \cup
                       {[operator |-> u, cells |-> c, at |-> clock]}]
  BY <1>1, <1>3 DEF WriteDraft
<1>5. PICK e : e = [operator |-> u, cells |-> c, at |-> clock]
  OBVIOUS
<1>6. e \in Entry /\ e.at = clock /\ e.operator = u
  BY <1>2, <1>3, <1>5 DEF Entry, Shape, Scalars
<1>7. PICK todo : todo = o.todo \ {a}
  OBVIOUS
<1>8. [o EXCEPT !.todo = todo] = [pc |-> "submit", operator |-> u, todo |-> todo]
  <2>1. PICK p, seen : o = [pc |-> p, operator |-> u, todo |-> seen] /\ p = "submit"
    BY <1>2, <1>3
  <2>. QED
    BY <2>1
<1>9. PICK r : r = IF todo = {} THEN Idle ELSE [pc |-> "submit", operator |-> u, todo |-> todo]
  OBVIOUS
<1>10. Continue(h, r)
  BY <1>1, <1>7, <1>8, <1>9 DEF WriteDraft
<1>11. todo \in SUBSET Asset
  BY <1>2, <1>7
<1>12. Wrote(h, a, e, r)
  BY <1>4, <1>5, <1>6, <1>9, <1>10, <1>11 DEF Wrote
<1>. QED
  BY <1>2, <1>12, Zenon

LEMMA ShapeWriteDraft ==
  ASSUME Shape, NEW h \in Handler, NEW a \in Asset, WriteDraft(h, a)
  PROVE  Shape'
<1>1. clock >= 1 /\ status >= Running
  BY WriteDraftEffect
<1>2. PICK e, r : Wrote(h, a, e, r)
  BY WriteDraftEffect, Zenon
<1>3. UNCHANGED <<task, gone, tables, counters, incidents>>
  BY DEF WriteDraft
<1>4. clock \in Nat /\ commits \in Nat /\ status \in NoTask .. Compared /\ started \in BOOLEAN
  BY DEF Shape, Scalars
<1>5. Onward
  BY <1>3, <1>4 DEF Onward, task, tables, counters
<1>6. Carries(r)' /\ r.pc # "commit" /\ Continue(h, r)
  <2>1. CASE r = Idle
    BY <1>2, <2>1, IdleCarries DEF Wrote, Idle
  <2>2. ASSUME NEW todo \in SUBSET Asset, r = [pc |-> "submit", operator |-> e.operator, todo |-> todo]
        PROVE  Carries(r)' /\ r.pc # "commit"
    <3>1. e.operator \in User
      BY <1>2 DEF Wrote, Entry
    <3>. QED
      BY <1>1, <1>3, <2>2, <3>1 DEF Carries, task, counters
  <2>. QED
    BY <1>2, <2>1, <2>2 DEF Wrote
<1>7. DOMAIN handler' = Handler /\ \A g \in Handler : Carries(handler[g])'
  <2>1. \A g \in Handler \ {h} : At(g, "commit") => conflicts'[handler[g].asset] \in PendingConflict
    BY <1>3 DEF Shape, At, Carries, tables
  <2>. QED
    BY <1>5, <1>6, <2>1, RequestStep
<1>8. DraftsShape'
  <2>1. e \in Entry /\ e.at \in 1 .. clock
    BY <1>1, <1>2, <1>4 DEF Wrote
  <2>2. PICK kept : kept = drafts[a] \ {f \in drafts[a] : f.operator = e.operator}
    OBVIOUS
  <2>3. /\ DOMAIN drafts = Asset
        /\ drafts' = [drafts EXCEPT ![a] = kept \cup {e}]
    BY <1>2, <2>2 DEF Wrote, Shape, DraftsShape
  <2>4. IsFiniteSet(kept \cup {e})
    <3>1. IsFiniteSet(drafts[a])
      BY DEF Shape, DraftsShape
    <3>2. IsFiniteSet(kept)
      BY <2>2, <3>1, FS_Subset
    <3>. QED
      BY <3>2, FS_AddElement
  <2>5. \A b \in Asset : IsFiniteSet(drafts'[b])
    BY <2>3, <2>4 DEF Shape, DraftsShape
  <2>6. \A b \in Asset : \A f \in drafts'[b] : f \in Entry /\ f.at \in 1 .. clock
    BY <2>1, <2>2, <2>3 DEF Shape, DraftsShape
  <2>7. \A b \in Asset : \A f, g \in drafts'[b] : f.operator = g.operator => f = g
    BY <2>2, <2>3 DEF Shape, DraftsShape
  <2>8. drafts' \in [Asset -> SUBSET Entry]
    BY <2>3, <2>6
  <2>. QED
    BY <1>3, <2>5, <2>6, <2>7, <2>8 DEF DraftsShape, counters
<1>9. ConflictsShape' /\ RecordsShape'
  BY <1>3 DEF Shape, ConflictsShape, RecordsShape, Resolved, tables, counters
<1>10. OneCommit'
  BY <1>6, OneCommitStep
<1>11. Scalars' /\ Stages'
  BY <1>3, StagesAreKept DEF Shape, Scalars, Stages, task, tables, counters, Happened
<1>. QED
  BY <1>7, <1>8, <1>9, <1>10, <1>11 DEF Shape
-------------------------------------------------------------------------------
(***************************************************************************)
(* An archive commits                                                      *)
(***************************************************************************)
\* The row stands at the end of the asset's rows, unless there is none, or the
\* asset is known and has one.
Inserted(a, row) ==
  \/ records'[a] = records[a] /\ (row = NoRow \/ (row.known /\ HasKnownRow(a)))
  \/ /\ row # NoRow /\ records'[a] = Append(records[a], row)
     /\ row.known => ~HasKnownRow(a)

\* The transaction, an asset at a time.
LEMMA ArchiveTaskEffect ==
  ASSUME Shape, NEW h \in Handler, ArchiveTask(h)
  PROVE  \E o :
           /\ o = handler[h] /\ o.pc = "records" /\ Carries(o)
           /\ records' = [a \in Asset |-> records'[a]] /\ DOMAIN conflicts' = Asset
           /\ \A a \in Asset :
                /\ Inserted(a, o.rows[a])
                /\ \/ o.candidates[a] = {} /\ conflicts'[a] = conflicts[a]
                   \/ /\ o.candidates[a] # {} /\ conflicts[a] = NoConflict
                      /\ conflicts'[a] = [pending |-> TRUE, candidates |-> o.candidates[a]]
           /\ cut' = IF commits = 0 THEN o.read ELSE cut
           /\ \/ Continue(h, Idle)
              \/ Continue(h, [pc |-> "compare"]) /\ \A a \in Asset : o.candidates[a] = {}
<1>1. PICK o : o = handler[h]
  OBVIOUS
<1>2. o.pc = "records" /\ Carries(o)
  BY <1>1, RequestCarries DEF ArchiveTask, At
<1>3. /\ records' = [a \in Asset |->
                   IF o.rows[a] = NoRow THEN records[a] ELSE InsertRow(a, o.rows[a])]
      /\ conflicts' = [a \in Asset |->
                     IF a \in Disputed(h)
                     THEN [pending |-> TRUE, candidates |-> o.candidates[a]]
                     ELSE conflicts[a]]
      /\ \A a \in Disputed(h) : conflicts[a] = NoConflict
  BY <1>1 DEF ArchiveTask
<1>4. ASSUME NEW a \in Asset
      PROVE  Inserted(a, o.rows[a])
  <2>1. PICK row : row = o.rows[a]
    OBVIOUS
  <2>2. records'[a] = IF row = NoRow THEN records[a] ELSE InsertRow(a, row)
    BY <1>3, <2>1
  <2>3. CASE row # NoRow /\ ~(row.known /\ HasKnownRow(a))
    BY <2>1, <2>2, <2>3 DEF InsertRow, Inserted
  <2>4. CASE row = NoRow \/ (row.known /\ HasKnownRow(a))
    BY <2>1, <2>2, <2>4 DEF InsertRow, Inserted
  <2>. QED
    BY <2>3, <2>4
<1>5. \A a \in Asset :
        \/ o.candidates[a] = {} /\ conflicts'[a] = conflicts[a]
        \/ /\ o.candidates[a] # {} /\ conflicts[a] = NoConflict
           /\ conflicts'[a] = [pending |-> TRUE, candidates |-> o.candidates[a]]
  BY <1>1, <1>3 DEF Disputed
<1>6. cut' = IF commits = 0 THEN o.read ELSE cut
  BY <1>1 DEF ArchiveTask
<1>7. \/ Continue(h, Idle)
      \/ Continue(h, [pc |-> "compare"]) /\ \A a \in Asset : o.candidates[a] = {}
  BY <1>1 DEF ArchiveTask, Disputed, Finish
<1>. QED
  BY <1>1, <1>2, <1>3, <1>4, <1>5, <1>6, <1>7

\* One more row at the end of a table's rows for an asset.
Added(s, a, row) ==
  /\ s \in Seq(Row) /\ DOMAIN records[a] \subseteq DOMAIN s
  /\ Len(s) = Len(records[a]) + 1 /\ Len(records[a]) \in Nat
  /\ \A i, j \in DOMAIN s : s[i].known /\ s[j].known => i = j
  /\ \A i \in DOMAIN records[a] : s[i] = records[a][i]
  /\ \E n \in DOMAIN s : s[n] = row /\ DOMAIN s = DOMAIN records[a] \cup {n}

LEMMA AddedRow ==
  ASSUME Shape, NEW a \in Asset, NEW row \in Row, row.known => ~HasKnownRow(a)
  PROVE  Added(Append(records[a], row), a, row)
<1>. PICK s : s = Append(records[a], row)
  OBVIOUS
<1>1. PICK q \in Seq(Row) : q = records[a]
  BY DEF Shape, RecordsShape
<1>2. /\ s \in Seq(Row)
      /\ Len(q) \in Nat /\ Len(s) = Len(q) + 1
      /\ DOMAIN s = DOMAIN q \cup {Len(q) + 1}
      /\ \A i \in DOMAIN q : s[i] = q[i]
      /\ s[Len(q) + 1] = row
  BY <1>1, AppendFacts
<1>3. \A i, j \in DOMAIN q : q[i].known /\ q[j].known => i = j
  BY <1>1 DEF Shape, RecordsShape
<1>4. row.known => \A i \in DOMAIN q : ~q[i].known
  BY <1>1 DEF HasKnownRow
<1>5. \A i, j \in DOMAIN s : s[i].known /\ s[j].known => i = j
  BY <1>2, <1>3, <1>4
<1>. QED
  BY <1>1, <1>2, <1>5 DEF Added

LEMMA ShapeArchiveTask ==
  ASSUME Shape, NEW h \in Handler, ArchiveTask(h)
  PROVE  Shape'
<1>1. PICK o :
           /\ o = handler[h] /\ o.pc = "records" /\ Carries(o)
           /\ records' = [a \in Asset |-> records'[a]] /\ DOMAIN conflicts' = Asset
           /\ \A a \in Asset :
                /\ Inserted(a, o.rows[a])
                /\ \/ o.candidates[a] = {} /\ conflicts'[a] = conflicts[a]
                   \/ /\ o.candidates[a] # {} /\ conflicts[a] = NoConflict
                      /\ conflicts'[a] = [pending |-> TRUE, candidates |-> o.candidates[a]]
           /\ cut' = IF commits = 0 THEN o.read ELSE cut
           /\ \/ Continue(h, Idle)
              \/ Continue(h, [pc |-> "compare"]) /\ \A a \in Asset : o.candidates[a] = {}
  BY ArchiveTaskEffect
<1>2. /\ UNCHANGED <<assignees, items, gone, drafts, clock, submits, started, incidents>>
      /\ status' = Archived /\ commits' = commits + 1
  BY DEF ArchiveTask
<1>3. /\ clock \in Nat /\ commits \in Nat /\ status \in NoTask .. Compared /\ started
      /\ o.read \in Nat /\ o.read < clock /\ commits' > 0 /\ commits' \in Nat /\ commits <= commits'
  BY <1>1, <1>2 DEF Shape, Scalars, Carries
<1>4. Scalars'
  <2>1. cut' \in 0 .. clock'
    BY <1>1, <1>2, <1>3 DEF Shape, Scalars
  <2>2. status' \in NoTask .. Compared
    BY <1>2 DEF NoTask, Archived, Compared
  <2>. QED
    BY <1>2, <1>3, <2>1, <2>2 DEF Shape, Scalars
<1>5. Stages'
  <2>1. cut' < clock'
    BY <1>1, <1>2, <1>3, StageFacts
  <2>2. status >= Running
    BY <1>3, StageFacts DEF Running, Compared
  <2>3. status' \in Archived .. Compared /\ status' \in Running .. Compared /\ commits' # 0
    BY <1>2, <1>3 DEF Running, Archived, Compared
  <2>4. Happened({"late"})' = Happened({"late"}) /\ Happened({"deleted"})' = Happened({"deleted"})
    BY <1>2 DEF Happened
  <2>. QED
    BY <1>2, <1>3, <2>1, <2>2, <2>3, <2>4, StageFacts DEF Stages
<1>6. ASSUME NEW a \in Asset, records'[a] # records[a]
      PROVE  /\ o.rows[a] \in Row /\ records'[a] = Append(records[a], o.rows[a])
             /\ o.rows[a].known => ~HasKnownRow(a)
  BY <1>1, <1>6 DEF Inserted, Carries, Fresh
<1>7. ASSUME NEW a \in Asset
      PROVE  /\ records'[a] \in Seq(Row)
             /\ DOMAIN records[a] \subseteq DOMAIN records'[a]
             /\ \A i, j \in DOMAIN records'[a] :
                  records'[a][i].known /\ records'[a][j].known => i = j
             /\ Len(records'[a]) <= Len(records[a]) + 1 /\ Len(records'[a]) \in Nat
             /\ Len(records[a]) \in Nat
  <2>1. CASE records'[a] = records[a]
    <3>1. PICK q \in Seq(Row) : q = records[a]
      BY DEF Shape, RecordsShape
    <3>2. Len(q) \in Nat
      OBVIOUS
    <3>. QED
      BY <2>1, <3>1, <3>2 DEF Shape, RecordsShape
  <2>2. CASE records'[a] # records[a]
    <3>1. PICK row \in Row : /\ row = o.rows[a] /\ records'[a] = Append(records[a], row)
                             /\ row.known => ~HasKnownRow(a)
      BY <1>6, <2>2
    <3>2. PICK s : s = Append(records[a], row)
      OBVIOUS
    <3>3. /\ s \in Seq(Row) /\ DOMAIN records[a] \subseteq DOMAIN s
          /\ Len(s) = Len(records[a]) + 1 /\ Len(records[a]) \in Nat
          /\ \A i, j \in DOMAIN s : s[i].known /\ s[j].known => i = j
      <4>1. Added(s, a, row)
        BY <3>1, <3>2, AddedRow
      <4>. QED
        BY <4>1 DEF Added
    <3>. QED
      BY <3>1, <3>2, <3>3
  <2>. QED
    BY <2>1, <2>2
<1>8. Onward
  BY <1>2, <1>3, <1>7 DEF Onward, NoTask, Running, Archived, Compared
<1>9. \A a \in Asset : Resolved(a)' <=> Resolved(a)
  <2>1. ASSUME NEW a \in Asset, conflicts[a] = NoConflict,
               conflicts'[a] = [pending |-> TRUE, candidates |-> o.candidates[a]]
        PROVE  Resolved(a)' <=> Resolved(a)
    BY <2>1, ConflictFacts DEF Resolved, ResolvedConflict
  <2>. QED
    BY <1>1, <2>1 DEF Resolved
<1>10. RecordsShape'
  <2>1. \A a \in Asset : Len(records[a]) <= commits + (IF Resolved(a) THEN 1 ELSE 0)
    BY DEF Shape, RecordsShape
  <2>2. \A a \in Asset : Len(records'[a]) <= commits' + (IF Resolved(a)' THEN 1 ELSE 0)
    BY <1>2, <1>3, <1>7, <1>9, <2>1
  <2>. QED
    BY <1>1, <1>2, <1>7, <2>2 DEF RecordsShape, Shape
<1>11. ConflictsShape'
  <2>1. ASSUME NEW a \in Asset, o.candidates[a] # {},
               conflicts'[a] = [pending |-> TRUE, candidates |-> o.candidates[a]]
        PROVE  conflicts'[a] \in PendingConflict /\ \A e \in conflicts'[a].candidates : e.at \in 1 .. clock
    BY <1>1, <2>1 DEF Carries, PendingConflict
  <2>. QED
    BY <1>1, <1>2, <2>1 DEF Shape, ConflictsShape
<1>12. PICK r : Continue(h, r) /\ (r = Idle \/ r = [pc |-> "compare"])
  BY <1>1
<1>13. Carries(r)' /\ r.pc # "commit"
  BY <1>3, <1>12, IdleCarries DEF Carries, Idle
<1>14. DOMAIN handler' = Handler /\ \A g \in Handler : Carries(handler[g])'
  <2>1. ASSUME NEW g \in Handler, At(g, "commit")
        PROVE  conflicts'[handler[g].asset] \in PendingConflict
    <3>1. PICK a \in Asset : a = handler[g].asset /\ conflicts[a] \in PendingConflict
      BY <2>1 DEF Shape, Carries, At
    <3>2. conflicts[a] # NoConflict
      BY <3>1, ConflictFacts
    <3>. QED
      BY <1>1, <3>1, <3>2
  <2>. QED
    BY <1>8, <1>12, <1>13, <2>1, RequestStep
<1>15. OneCommit'
  BY <1>12, <1>13, OneCommitStep
<1>16. DraftsShape'
  BY <1>2 DEF Shape, DraftsShape
<1>. QED
  BY <1>4, <1>5, <1>10, <1>11, <1>14, <1>15, <1>16 DEF Shape
-------------------------------------------------------------------------------
(***************************************************************************)
(* A resolution commits                                                    *)
(***************************************************************************)
\* The new row is at n, at the end or in the place of the known one; the others
\* are what they were.
Upserted(s, a, row) ==
  /\ s \in Seq(Row) /\ DOMAIN records[a] \subseteq DOMAIN s
  /\ Len(s) \in Nat /\ Len(records[a]) \in Nat /\ Len(s) <= Len(records[a]) + 1
  /\ \A i, j \in DOMAIN s : s[i].known /\ s[j].known => i = j
  /\ \E n \in DOMAIN s :
       /\ s[n] = row
       /\ n \in DOMAIN records[a] => records[a][n].known
       /\ \A i \in DOMAIN s \ {n} : i \in DOMAIN records[a] /\ s[i] = records[a][i]

LEMMA UpsertFacts ==
  ASSUME Shape, NEW a \in Asset, NEW row \in Row
  PROVE  Upserted(Upsert(a, row), a, row)
<1>. PICK s : s = Upsert(a, row)
  OBVIOUS
<1>1. PICK q \in Seq(Row) : q = records[a]
  BY DEF Shape, RecordsShape
<1>2. \A i, j \in DOMAIN q : q[i].known /\ q[j].known => i = j
  BY <1>1 DEF Shape, RecordsShape
<1>3. Len(q) \in Nat /\ DOMAIN q = 1 .. Len(q) /\ \A i \in DOMAIN q : q[i] \in Row
  OBVIOUS
<1>4. CASE row.known /\ HasKnownRow(a)
  <2>1. PICK n \in DOMAIN q : q[n].known
    BY <1>1, <1>4 DEF HasKnownRow
  <2>2. s = [i \in DOMAIN q |-> IF q[i].known THEN row ELSE q[i]]
    BY <1>1, <1>4 DEF Upsert
  <2>3. s = [i \in 1 .. Len(q) |-> s[i]] /\ \A i \in 1 .. Len(q) : s[i] \in Row
    BY <1>3, <2>2
  <2>4. s \in Seq(Row) /\ Len(s) = Len(q) /\ DOMAIN s = DOMAIN q
    <3>1. s \in [1 .. Len(q) -> Row]
      BY <2>3
    <3>. QED
      BY <1>3, <3>1
  <2>5. s[n] = row /\ \A i \in DOMAIN s \ {n} : s[i] = q[i]
    BY <1>2, <2>1, <2>2, <2>4
  <2>6. \A i, j \in DOMAIN s : s[i].known /\ s[j].known => i = j
    BY <1>2, <2>1, <2>2, <2>4
  <2>. QED
    BY <1>1, <1>3, <2>1, <2>4, <2>5, <2>6 DEF Upserted
<1>5. CASE ~(row.known /\ HasKnownRow(a))
  <2>1. s = Append(records[a], row)
    BY <1>5 DEF Upsert
  <2>2. row.known => ~HasKnownRow(a)
    BY <1>5
  <2>3. Added(s, a, row)
    BY <2>1, <2>2, AddedRow
  <2>4. /\ s \in Seq(Row) /\ DOMAIN records[a] \subseteq DOMAIN s
        /\ Len(s) = Len(records[a]) + 1 /\ Len(records[a]) \in Nat
        /\ \A i, j \in DOMAIN s : s[i].known /\ s[j].known => i = j
        /\ \A i \in DOMAIN records[a] : s[i] = records[a][i]
        /\ \E n \in DOMAIN s : s[n] = row /\ DOMAIN s = DOMAIN records[a] \cup {n}
    BY <2>3 DEF Added
  <2>5. PICK n \in DOMAIN s : s[n] = row /\ DOMAIN s = DOMAIN records[a] \cup {n}
    BY <2>4
  <2>6. n \notin DOMAIN records[a]
    <3>1. DOMAIN s = 1 .. (Len(q) + 1) /\ DOMAIN q = 1 .. Len(q)
      BY <1>1, <2>4
    <3>2. Len(q) + 1 \in DOMAIN q \cup {n} /\ Len(q) + 1 \notin DOMAIN q
      BY <1>1, <1>3, <2>5, <3>1
    <3>. QED
      BY <1>1, <3>2
  <2>7. \A i \in DOMAIN s \ {n} : i \in DOMAIN records[a] /\ s[i] = records[a][i]
    BY <2>4, <2>5
  <2>. QED
    BY <1>1, <1>3, <2>4, <2>5, <2>6, <2>7 DEF Upserted
<1>. QED
  BY <1>4, <1>5

LEMMA ResolveCommitEffect ==
  ASSUME Shape, NEW h \in Handler, ResolveCommit(h)
  PROVE  \E o, r :
           /\ o = handler[h] /\ o.pc = "commit" /\ Carries(o)
           /\ o.asset \in Asset /\ o.row \in Row /\ o.row.diff = Undecided /\ o.row.scanned
           /\ conflicts[o.asset] \in PendingConflict
           /\ records' = [records EXCEPT ![o.asset] = Upsert(o.asset, o.row)]
           /\ conflicts' = [conflicts EXCEPT ![o.asset] =
                              [pending |-> FALSE, candidates |-> conflicts[o.asset].candidates,
                               operator |-> o.row.operator, location |-> o.row.location]]
           /\ Continue(h, r)
           /\ r = Idle \/ (r = [pc |-> "compare"] /\ o.all)
<1>1. PICK o : o = handler[h]
  OBVIOUS
<1>2. o.pc = "commit" /\ Carries(o)
  BY <1>1, RequestCarries DEF ResolveCommit, At
<1>3. /\ o.asset \in Asset /\ o.row \in Row /\ o.row.diff = Undecided /\ o.row.scanned
      /\ conflicts[o.asset] \in PendingConflict
  BY <1>2 DEF Carries, Fresh
<1>4. PICK r : Continue(h, r) /\ (r = Idle \/ (r = [pc |-> "compare"] /\ o.all))
  BY <1>1 DEF ResolveCommit, Finish
<1>5. /\ records' = [records EXCEPT ![o.asset] = Upsert(o.asset, o.row)]
      /\ conflicts' = [conflicts EXCEPT ![o.asset] =
                              [pending |-> FALSE, candidates |-> conflicts[o.asset].candidates,
                               operator |-> o.row.operator, location |-> o.row.location]]
  BY <1>1 DEF ResolveCommit
<1>. QED
  BY <1>1, <1>2, <1>3, <1>4, <1>5

LEMMA ShapeResolveCommit ==
  ASSUME Shape, NEW h \in Handler, ResolveCommit(h)
  PROVE  Shape'
<1>1. PICK o, r :
           /\ o = handler[h] /\ o.pc = "commit" /\ Carries(o)
           /\ o.asset \in Asset /\ o.row \in Row /\ o.row.diff = Undecided /\ o.row.scanned
           /\ conflicts[o.asset] \in PendingConflict
           /\ records' = [records EXCEPT ![o.asset] = Upsert(o.asset, o.row)]
           /\ conflicts' = [conflicts EXCEPT ![o.asset] =
                              [pending |-> FALSE, candidates |-> conflicts[o.asset].candidates,
                               operator |-> o.row.operator, location |-> o.row.location]]
           /\ Continue(h, r)
           /\ r = Idle \/ (r = [pc |-> "compare"] /\ o.all)
  BY ResolveCommitEffect
<1>. PICK a \in Asset, row \in Row : a = o.asset /\ row = o.row
  BY <1>1
<1>2. UNCHANGED <<task, gone, drafts, counters, incidents>>
  BY DEF ResolveCommit
<1>3. /\ clock \in Nat /\ commits \in Nat /\ status \in NoTask .. Compared /\ started \in BOOLEAN
      /\ commits > 0
  BY <1>1 DEF Shape, Scalars, Carries
<1>4. Scalars'
  BY <1>2 DEF Shape, Scalars, task, counters
<1>5. Stages'
  <2>1. Happened({"late"})' = Happened({"late"}) /\ Happened({"deleted"})' = Happened({"deleted"})
    BY <1>2 DEF Happened
  <2>. QED
    BY <1>2, <1>3, <2>1, StageFacts DEF Stages, task, counters
<1>. PICK s : s = Upsert(a, row)
  OBVIOUS
<1>6. /\ s \in Seq(Row) /\ DOMAIN records[a] \subseteq DOMAIN s
      /\ Len(s) \in Nat /\ Len(records[a]) \in Nat /\ Len(s) <= Len(records[a]) + 1
      /\ \A i, j \in DOMAIN s : s[i].known /\ s[j].known => i = j
  <2>1. Upserted(s, a, row)
    BY UpsertFacts
  <2>. QED
    BY <2>1 DEF Upserted
<1>7. /\ records' = [records EXCEPT ![a] = s] /\ records \in [Asset -> Seq(Row)]
      /\ conflicts' = [conflicts EXCEPT ![a] =
                              [pending |-> FALSE, candidates |-> conflicts[a].candidates,
                               operator |-> row.operator, location |-> row.location]]
      /\ DOMAIN conflicts = Asset
  BY <1>1 DEF Shape, RecordsShape, ConflictsShape
<1>8. Onward
  BY <1>2, <1>3, <1>6, <1>7 DEF Onward, task, counters
<1>9. conflicts'[a] \in ResolvedConflict /\ ~Resolved(a)
  <2>1. row.operator \in User \cup {Nobody} /\ row.location \in Place
    BY DEF Row
  <2>2. conflicts[a].candidates \subseteq Entry /\ ~Resolved(a)
    BY <1>1, ConflictFacts
  <2>3. conflicts'[a] = [pending |-> FALSE, candidates |-> conflicts[a].candidates,
                         operator |-> row.operator, location |-> row.location]
    BY <1>7
  <2>. QED
    BY <2>1, <2>2, <2>3 DEF ResolvedConflict
<1>10. RecordsShape'
  <2>1. ASSUME NEW b \in Asset
        PROVE  /\ \A i, j \in DOMAIN records'[b] : records'[b][i].known /\ records'[b][j].known => i = j
               /\ Len(records'[b]) <= commits' + (IF Resolved(b)' THEN 1 ELSE 0)
    <3>1. CASE b = a
      <4>1. records'[b] = s /\ Resolved(b)' /\ commits' = commits
        BY <1>2, <1>7, <1>9, <3>1 DEF Resolved, counters
      <4>2. Len(records[a]) <= commits
        BY <1>3, <1>6, <1>9 DEF Shape, RecordsShape
      <4>3. Len(s) <= commits + 1
        BY <1>3, <1>6, <4>2
      <4>. QED
        BY <1>6, <4>1, <4>3
    <3>2. CASE b # a
      <4>1. records'[b] = records[b] /\ conflicts'[b] = conflicts[b] /\ commits' = commits
        BY <1>2, <1>7, <3>2 DEF counters
      <4>. QED
        BY <4>1 DEF Shape, RecordsShape, Resolved
    <3>. QED
      BY <3>1, <3>2
  <2>. QED
    BY <1>6, <1>7, <2>1 DEF RecordsShape
<1>11. ConflictsShape'
  <2>1. \A e \in conflicts[a].candidates : e.at \in 1 .. clock
    BY DEF Shape, ConflictsShape
  <2>2. conflicts'[a].candidates = conflicts[a].candidates
    BY <1>7
  <2>. QED
    BY <1>2, <1>7, <1>9, <2>1, <2>2 DEF Shape, ConflictsShape, counters
<1>12. Carries(r)' /\ r.pc # "commit"
  BY <1>1, <1>2, <1>3, IdleCarries DEF Carries, Idle, counters
<1>13. DOMAIN handler' = Handler /\ \A g \in Handler : Carries(handler[g])'
  <2>1. ASSUME NEW g \in Handler \ {h}, At(g, "commit")
        PROVE  conflicts'[handler[g].asset] \in PendingConflict
    <3>1. conflicts[handler[g].asset] \in PendingConflict /\ handler[g].asset \in Asset
      BY <2>1 DEF Shape, Carries, At
    <3>2. handler[g].asset # a
      BY <1>1, <2>1 DEF Shape, OneCommit, At
    <3>. QED
      BY <1>7, <3>1, <3>2
  <2>. QED
    BY <1>1, <1>8, <1>12, <2>1, RequestStep
<1>14. OneCommit'
  BY <1>1, <1>12, OneCommitStep
<1>15. DraftsShape'
  BY <1>2 DEF Shape, DraftsShape, counters
<1>. QED
  BY <1>4, <1>5, <1>10, <1>11, <1>13, <1>14, <1>15 DEF Shape
-------------------------------------------------------------------------------
(***************************************************************************)
(* A row is decided                                                        *)
(***************************************************************************)
\* The rows of an asset with the difference of one of them set.
DecidedAt(s, a, n, diff) ==
  /\ s \in Seq(Row) /\ DOMAIN s = DOMAIN records[a] /\ Len(s) = Len(records[a])
  /\ \A i \in DOMAIN s :
       /\ s[i].known = records[a][i].known /\ s[i].operator = records[a][i].operator
       /\ s[i].scanned = records[a][i].scanned /\ s[i].location = records[a][i].location
       /\ s[i].diff = IF i = n THEN diff ELSE records[a][i].diff

LEMMA DecidedAtFacts ==
  ASSUME Shape, NEW a \in Asset, NEW n \in DOMAIN records[a], NEW diff \in Undecided .. Loss
  PROVE  DecidedAt([records[a] EXCEPT ![n].diff = diff], a, n, diff)
<1>1. PICK q \in Seq(Row) : q = records[a]
  BY DEF Shape, RecordsShape
<1>2. Len(q) \in Nat /\ DOMAIN q = 1 .. Len(q) /\ \A i \in DOMAIN q : q[i] \in Row
  OBVIOUS
<1>3. PICK old : old = q[n]
  OBVIOUS
<1>4. PICK new : new = [old EXCEPT !.diff = diff]
  OBVIOUS
<1>5. old = [known |-> old.known, operator |-> old.operator, scanned |-> old.scanned,
             location |-> old.location, diff |-> old.diff]
  BY <1>1, <1>2, <1>3 DEF Row
<1>6. new = [known |-> old.known, operator |-> old.operator, scanned |-> old.scanned,
             location |-> old.location, diff |-> diff]
  BY <1>4, <1>5
<1>7. new \in Row
  BY <1>1, <1>2, <1>3, <1>6 DEF Row
<1>8. PICK s : s = [q EXCEPT ![n] = new]
  OBVIOUS
<1>9. s \in Seq(Row) /\ DOMAIN s = DOMAIN q /\ Len(s) = Len(q)
  BY <1>1, <1>7, <1>8
<1>10. \A i \in DOMAIN q : s[i] = IF i = n THEN new ELSE q[i]
  BY <1>8
<1>11. [records[a] EXCEPT ![n].diff = diff] = s
  BY <1>1, <1>3, <1>4, <1>8
<1>. QED
  BY <1>1, <1>3, <1>6, <1>9, <1>10, <1>11 DEF DecidedAt

\* A row is decided, and rightly unless it was on an error for an answer.
Decides(h, t) == RunRow(h, t) \/ RunRowOnError(h, t)

Rightly(t, diff) == diff = Decision(t.row, Book(t.asset)) \/ t.asset \in spoiled'

LEMMA DecidesFacts ==
  ASSUME NEW h, NEW t, Decides(h, t)
  PROVE  /\ \E book : /\ Decide(h, t, book)
                      /\ book = Book(t.asset) \/ t.asset \in spoiled'
         /\ UNCHANGED <<task, gone, drafts, conflicts, clock, submits, started, commits, cut, overlapped>>
         /\ incidents \subseteq incidents' /\ spoiled \subseteq spoiled'
         /\ spoiled' \subseteq spoiled \cup {t.asset}
<1>1. CASE RunRow(h, t)
  BY <1>1 DEF RunRow, Decide
<1>2. CASE RunRowOnError(h, t)
  BY <1>2 DEF RunRowOnError, Decide, Incident
<1>. QED
  BY <1>1, <1>2 DEF Decides

LEMMA RunRowEffect ==
  ASSUME Shape, NEW h \in Handler, NEW t, Decides(h, t)
  PROVE  \E o, s, todo, diff :
           /\ o = handler[h] /\ o.pc = "run" /\ Carries(o) /\ t \in o.todo
           /\ t.asset \in Asset /\ t.index \in DOMAIN records[t.asset] /\ t.row \in Row
           /\ DecidedAt(s, t.asset, t.index, diff) /\ Rightly(t, diff)
           /\ diff \in Match .. Loss
           /\ records' = [records EXCEPT ![t.asset] = s]
           /\ todo = o.todo \ {t}
           /\ Continue(h, [pc |-> "run", todo |-> todo])
<1>0. PICK book : Decide(h, t, book) /\ (book = Book(t.asset) \/ t.asset \in spoiled')
  BY DecidesFacts
<1>1. PICK o : o = handler[h]
  OBVIOUS
<1>2. o.pc = "run" /\ Carries(o) /\ t \in o.todo
  BY <1>0, <1>1, RequestCarries DEF Decide, At
<1>3. /\ o = [pc |-> "run", todo |-> o.todo]
      /\ t.asset \in Asset /\ t.index \in DOMAIN records[t.asset] /\ t.row \in Row
  BY <1>2 DEF Carries
<1>4. PICK a, n, diff : a = t.asset /\ n = t.index /\ diff = Decision(t.row, book)
  OBVIOUS
<1>5. diff \in Match .. Loss /\ diff \in Undecided .. Loss
  BY <1>4 DEF Decision, Surplus, Match, Loss, Undecided
<1>6. PICK s : s = [records[a] EXCEPT ![n].diff = diff]
  OBVIOUS
<1>7. DecidedAt(s, a, n, diff)
  BY <1>3, <1>4, <1>5, <1>6, DecidedAtFacts
<1>8. records' = [records EXCEPT ![a] = s]
  BY <1>0, <1>4, <1>6 DEF Decide
<1>9. PICK todo : todo = o.todo \ {t}
  OBVIOUS
<1>10. [o EXCEPT !.todo = @ \ {t}] = [pc |-> "run", todo |-> todo]
  <2>1. PICK p, seen : o = [pc |-> p, todo |-> seen] /\ p = "run" /\ seen = o.todo
    BY <1>3
  <2>2. [o EXCEPT !.todo = @ \ {t}] = [pc |-> p, todo |-> seen \ {t}]
    BY <2>1
  <2>. QED
    BY <1>9, <2>1, <2>2
<1>11. Continue(h, [pc |-> "run", todo |-> todo])
  BY <1>0, <1>1, <1>10 DEF Decide
<1>12. Rightly(t, diff)
  BY <1>0, <1>4 DEF Rightly
<1>. QED
  BY <1>1, <1>2, <1>3, <1>4, <1>5, <1>7, <1>8, <1>9, <1>11, <1>12

LEMMA ShapeRunRow ==
  ASSUME Shape, NEW h \in Handler, NEW t, Decides(h, t)
  PROVE  Shape'
<1>1. PICK o, s, todo, diff :
           /\ o = handler[h] /\ o.pc = "run" /\ Carries(o) /\ t \in o.todo
           /\ t.asset \in Asset /\ t.index \in DOMAIN records[t.asset] /\ t.row \in Row
           /\ DecidedAt(s, t.asset, t.index, diff) /\ Rightly(t, diff)
           /\ diff \in Match .. Loss
           /\ records' = [records EXCEPT ![t.asset] = s]
           /\ todo = o.todo \ {t}
           /\ Continue(h, [pc |-> "run", todo |-> todo])
  BY RunRowEffect
<1>. PICK a \in Asset : a = t.asset
  BY <1>1
<1>2. /\ UNCHANGED <<task, gone, drafts, conflicts, clock, submits, started, commits, cut>>
      /\ incidents \subseteq incidents'
  BY DecidesFacts
<1>3. /\ clock \in Nat /\ commits \in Nat /\ status \in NoTask .. Compared /\ started \in BOOLEAN
      /\ commits > 0
  BY <1>1 DEF Shape, Scalars, Carries
<1>4. Scalars' /\ Stages'
  BY <1>2, StagesAreKept DEF Shape, Scalars, Stages, task, Happened
<1>5. /\ records' = [records EXCEPT ![a] = s] /\ records \in [Asset -> Seq(Row)]
      /\ s \in Seq(Row) /\ DOMAIN s = DOMAIN records[a] /\ Len(s) = Len(records[a])
      /\ \A i \in DOMAIN s : s[i].known = records[a][i].known
  BY <1>1 DEF Shape, RecordsShape, DecidedAt
<1>6. Onward
  BY <1>2, <1>3, <1>5 DEF Onward, task
<1>7. RecordsShape'
  <2>1. ASSUME NEW b \in Asset
        PROVE  /\ \A i, j \in DOMAIN records'[b] : records'[b][i].known /\ records'[b][j].known => i = j
               /\ Len(records'[b]) = Len(records[b])
    <3>1. CASE b = a
      BY <1>5, <3>1 DEF Shape, RecordsShape
    <3>2. CASE b # a
      BY <1>5, <3>2 DEF Shape, RecordsShape
    <3>. QED
      BY <3>1, <3>2
  <2>2. \A b \in Asset : Len(records'[b]) <= commits' + (IF Resolved(b)' THEN 1 ELSE 0)
    BY <1>2, <2>1 DEF Shape, RecordsShape, Resolved
  <2>3. records' \in [Asset -> Seq(Row)]
    BY <1>5
  <2>. QED
    BY <2>1, <2>2, <2>3 DEF RecordsShape
<1>. PICK r : r = [pc |-> "run", todo |-> todo]
  OBVIOUS
<1>8. Carries(r)'
  <2>1. \A x \in todo : x.asset \in Asset /\ x.index \in DOMAIN records[x.asset] /\ x.row \in Row
    BY <1>1 DEF Carries
  <2>2. \A x \in todo : x.index \in DOMAIN records'[x.asset]
    BY <1>5, <2>1
  <2>. QED
    BY <1>2, <1>3, <2>1, <2>2 DEF Carries, Row
<1>9. DOMAIN handler' = Handler /\ \A g \in Handler : Carries(handler[g])'
  <2>1. ASSUME NEW g \in Handler \ {h}, At(g, "commit")
        PROVE  conflicts'[handler[g].asset] \in PendingConflict
    BY <1>2, <2>1 DEF Shape, Carries, At
  <2>. QED
    BY <1>1, <1>6, <1>8, <2>1, RequestStep
<1>10. OneCommit'
  BY <1>1, OneCommitStep
<1>11. DraftsShape' /\ ConflictsShape'
  BY <1>2 DEF Shape, DraftsShape, ConflictsShape
<1>. QED
  BY <1>4, <1>7, <1>9, <1>10, <1>11 DEF Shape

-------------------------------------------------------------------------------
(***************************************************************************)
(* Shape is an invariant                                                   *)
(***************************************************************************)
LEMMA ShapeStep == Shape /\ [InvNext]_invVars => Shape'
<1>. SUFFICES ASSUME Shape, [InvNext]_invVars
              PROVE  Shape'
  OBVIOUS
<1>1. CASE CreateTask \/ PublishTask \/ \E a \in Asset : AssetDeleted(a)
  BY <1>1, ShapeTask
<1>2. ASSUME NEW h \in Handler,
             \/ UpdateTaskItems(h) \/ Archive(h) \/ Compare(h) \/ ArchiveFails(h)
             \/ AlreadyResolved(h) \/ Abort(h)
      PROVE  Shape'
  BY <1>2, ShapeSimple
<1>3. ASSUME NEW h \in Handler, Submit(h)
      PROVE  Shape'
  BY <1>3, ShapeSubmit
<1>4. ASSUME NEW h \in Handler, NEW a \in Asset, ResolveConflict(h, a)
      PROVE  Shape'
  BY <1>4, ShapeResolveConflict
<1>5. ASSUME NEW h \in Handler, HandlerStep(h)
      PROVE  Shape'
  <2>1. CASE ReplaceTaskItems(h)
    BY <2>1, ShapeReplaceTaskItems
  <2>2. ASSUME NEW a \in Asset, WriteDraft(h, a)
        PROVE  Shape'
    BY <2>2, ShapeWriteDraft
  <2>3. CASE ArchiveRead(h)
    BY <2>3, ShapeArchiveRead
  <2>4. CASE ArchiveTask(h)
    BY <2>4, ShapeArchiveTask
  <2>5. CASE ResolveTx(h)
    BY <2>5, ShapeResolveTx
  <2>6. CASE ResolveCommit(h)
    BY <2>6, ShapeResolveCommit
  <2>7. ASSUME \/ RunRead(h) \/ RunFinish(h)
               \/ \E t \in handler[h].todo : RunRowFails(h, t)
        PROVE  Shape'
    BY <2>7, ShapeRun
  <2>8. ASSUME NEW t, Decides(h, t)
        PROVE  Shape'
    BY <2>8, ShapeRunRow
  <2>. QED
    BY <1>2, <1>5, <2>1, <2>2, <2>3, <2>4, <2>5, <2>6, <2>7, <2>8 DEF HandlerStep, Decides
<1>6. CASE UNCHANGED invVars
  <2>1. UNCHANGED <<drafts, tables, commits, clock, handler>>
    BY <1>6 DEF invVars, tables
  <2>2. Scalars' /\ Stages'
    BY <1>6 DEF invVars, Shape, Scalars, Stages, Happened
  <2>. QED
    BY <1>6, <2>1, <2>2, TaskStep DEF invVars
<1>. QED
  BY <1>1, <1>2, <1>3, <1>4, <1>5, <1>6 DEF InvNext

LEMMA ShapeHolds == InvSpec => []Shape
<1>1. InvInit => Shape
  BY ShapeInit
<1>2. Shape /\ [InvNext]_invVars => Shape'
  BY ShapeStep
<1>. QED
  BY <1>1, <1>2, PTL DEF InvSpec
-------------------------------------------------------------------------------
(***************************************************************************)
(* The steps that matter to what follows                                   *)
(***************************************************************************)
\* A step that leaves the drafts and the tables alone, and the request that takes
\* it with nothing in its hands.
Inert ==
  /\ UNCHANGED <<drafts, tables, commits, cut>>
  /\ incidents \subseteq incidents'
  /\ status' = status \/ (status < status' /\ status' \in {Unpublished, Running})
  /\ assignees' = assignees \/ status = NoTask
  /\ items' = items \/ status = Unpublished \/ "late" \in incidents'
  /\ gone' = gone \/ (gone \subseteq gone' /\ "deleted" \in incidents')
  /\ \A g \in Handler :
       handler'[g] = handler[g] \/ handler'[g].pc \in {"idle", "items", "submit", "archive"}

LEMMA InertTask ==
  ASSUME \/ CreateTask \/ PublishTask \/ \E a \in Asset : AssetDeleted(a)
         \/ UNCHANGED invVars
  PROVE  Inert
<1>1. CASE CreateTask
  BY <1>1 DEF CreateTask, Inert, counters, tables, NoTask, Unpublished
<1>2. CASE PublishTask
  BY <1>2 DEF PublishTask, Inert, counters, tables, Unpublished, Running
<1>3. CASE \E a \in Asset : AssetDeleted(a)
  BY <1>3 DEF AssetDeleted, Inert, Incident, counters, task
<1>4. CASE UNCHANGED invVars
  BY <1>4 DEF Inert, invVars, tables
<1>. QED
  BY <1>1, <1>2, <1>3, <1>4

LEMMA InertRequest ==
  ASSUME Shape, NEW h \in Handler,
         \/ UpdateTaskItems(h) \/ ReplaceTaskItems(h) \/ Submit(h) \/ Archive(h)
         \/ ArchiveFails(h) \/ AlreadyResolved(h) \/ Abort(h)
  PROVE  Inert
<1>1. \E r : Continue(h, r) /\ r.pc \in {"idle", "items", "submit", "archive"}
  <2>1. CASE UpdateTaskItems(h)
    <3>1. PICK chosen : Continue(h, [pc |-> "items", chosen |-> chosen])
      BY <2>1 DEF UpdateTaskItems, Start, Continue
    <3>2. PICK r : r = [pc |-> "items", chosen |-> chosen]
      OBVIOUS
    <3>. QED
      BY <3>1, <3>2
  <2>2. CASE Submit(h)
    <3>1. PICK u, todo : Continue(h, [pc |-> "submit", operator |-> u, todo |-> todo])
      BY <2>2 DEF Submit, Start, Continue
    <3>2. PICK r : r = [pc |-> "submit", operator |-> u, todo |-> todo]
      OBVIOUS
    <3>. QED
      BY <3>1, <3>2
  <2>3. CASE Archive(h)
    <3>1. Continue(h, [pc |-> "archive"])
      BY <2>3 DEF Archive, Start, Continue
    <3>2. PICK r : r = [pc |-> "archive"]
      OBVIOUS
    <3>. QED
      BY <3>1, <3>2
  <2>4. Idle.pc \in {"idle", "items", "submit", "archive"}
    BY DEF Idle
  <2>5. CASE ReplaceTaskItems(h) \/ ArchiveFails(h) \/ AlreadyResolved(h) \/ Abort(h)
    BY <2>4, <2>5 DEF ReplaceTaskItems, ArchiveFails, AlreadyResolved, Abort, Finish
  <2>. QED
    BY <2>1, <2>2, <2>3, <2>5
<1>2. PICK r : Continue(h, r) /\ r.pc \in {"idle", "items", "submit", "archive"}
  BY <1>1
<1>3. \A g \in Handler :
       handler'[g] = handler[g] \/ handler'[g].pc \in {"idle", "items", "submit", "archive"}
  BY <1>2, MoveFacts DEF Shape
<1>4. UNCHANGED <<drafts, tables, commits, cut, status, assignees, gone>>
  BY DEF UpdateTaskItems, ReplaceTaskItems, Submit, Archive, ArchiveFails, AlreadyResolved, Abort,
         task, counters
<1>5. incidents \subseteq incidents'
  BY DEF UpdateTaskItems, ReplaceTaskItems, Submit, Archive, ArchiveFails, AlreadyResolved, Abort,
         Incident
<1>6. items' = items \/ status = Unpublished \/ "late" \in incidents'
  BY DEF UpdateTaskItems, ReplaceTaskItems, Submit, Archive, ArchiveFails, AlreadyResolved, Abort,
         Incident, task
<1>. QED
  BY <1>3, <1>4, <1>5, <1>6 DEF Inert

LEMMA StepCases ==
  ASSUME Shape, [InvNext]_invVars
  PROVE  \/ Inert
         \/ \E h \in Handler :
              \/ \E a \in Asset : WriteDraft(h, a) \/ ResolveConflict(h, a)
              \/ ArchiveRead(h) \/ ArchiveTask(h)
              \/ ResolveTx(h) \/ ResolveCommit(h)
              \/ Compare(h) \/ RunRead(h) \/ RunFinish(h)
              \/ \E t : Decides(h, t) \/ RunRowFails(h, t)
BY InertTask, InertRequest DEF InvNext, HandlerStep, Decides

\* Nothing disappears from what an inert step leaves alone.
LEMMA HappenedStays ==
  ASSUME incidents \subseteq incidents', NEW kinds, Happened(kinds)
  PROVE  incidents' \cap kinds # {}
BY DEF Happened

\* Before the first commit there are no rows and no conflicts, and no request
\* that has gone past the archive.
LEMMA BeforeArchive ==
  ASSUME Shape, commits = 0
  PROVE  /\ conflicts = [a \in Asset |-> NoConflict]
         /\ \A a \in Asset : records[a] = << >> /\ DOMAIN records[a] = {} /\ ~HasKnownRow(a)
         /\ Pending = {} /\ UndecidedRows = {}
         /\ \A g \in Handler : handler[g].pc \notin {"resolve", "commit", "compare", "run"}
<1>1. conflicts = [a \in Asset |-> NoConflict]
  BY DEF Shape, Stages
<1>2. ASSUME NEW a \in Asset
      PROVE  records[a] = << >> /\ DOMAIN records[a] = {}
  <2>1. PICK q \in Seq(Row) : q = records[a]
    BY DEF Shape, RecordsShape
  <2>2. conflicts[a] = NoConflict
    BY <1>1
  <2>3. ~Resolved(a)
    BY <2>2, ConflictFacts
  <2>4. Len(q) <= 0
    BY <2>1, <2>3 DEF Shape, RecordsShape
  <2>5. Len(q) = 0
    BY <2>4
  <2>. QED
    BY <2>1, <2>5
<1>3. Pending = {}
  BY <1>1 DEF Pending, NoConflict
<1>4. UndecidedRows = {}
  BY <1>2, UndecidedFacts
<1>5. \A g \in Handler : handler[g].pc \notin {"resolve", "commit", "compare", "run"}
  BY DEF Shape, Carries
<1>. QED
  BY <1>1, <1>2, <1>3, <1>4, <1>5 DEF HasKnownRow

\* Before the publication no archive has read anything either.
LEMMA BeforePublication ==
  ASSUME Shape, status \in {NoTask, Unpublished}
  PROVE  commits = 0 /\ \A g \in Handler : handler[g].pc # "records"
<1>1. ~started /\ commits = 0
  BY StageFacts DEF NoTask, Unpublished, Running, Archived, Compared
<1>. QED
  BY <1>1 DEF Shape, Carries

-------------------------------------------------------------------------------
(***************************************************************************)
(* Verdicts                                                                *)
(***************************************************************************)
LEMMA VerdictStep ==
  ASSUME Shape, VerdictIsRecorded, [InvNext]_invVars
  PROVE  VerdictIsRecorded'
<1>1. CASE UNCHANGED tables
  BY <1>1 DEF VerdictIsRecorded, tables
<1>2. ASSUME NEW h \in Handler, ArchiveTask(h)
      PROVE  VerdictIsRecorded'
  <2>1. PICK o :
           /\ o = handler[h] /\ o.pc = "records" /\ Carries(o)
           /\ records' = [a \in Asset |-> records'[a]] /\ DOMAIN conflicts' = Asset
           /\ \A a \in Asset :
                /\ Inserted(a, o.rows[a])
                /\ \/ o.candidates[a] = {} /\ conflicts'[a] = conflicts[a]
                   \/ /\ o.candidates[a] # {} /\ conflicts[a] = NoConflict
                      /\ conflicts'[a] = [pending |-> TRUE, candidates |-> o.candidates[a]]
           /\ cut' = IF commits = 0 THEN o.read ELSE cut
           /\ \/ Continue(h, Idle)
              \/ Continue(h, [pc |-> "compare"]) /\ \A a \in Asset : o.candidates[a] = {}
    BY <1>2, ArchiveTaskEffect
  <2>2. ASSUME NEW a \in Asset, "operator" \in DOMAIN conflicts'[a]
        PROVE  \E i \in DOMAIN records'[a] :
                 /\ records'[a][i].operator = conflicts'[a].operator
                 /\ records'[a][i].location = conflicts'[a].location
    <3>1. conflicts'[a] = conflicts[a]
      <4>1. "operator" \notin {"pending", "candidates"}
        OBVIOUS
      <4>2. conflicts'[a] # [pending |-> TRUE, candidates |-> o.candidates[a]]
        BY <2>2, <4>1
      <4>. QED
        BY <2>1, <4>2
    <3>2. PICK i \in DOMAIN records[a] : /\ records[a][i].operator = conflicts[a].operator
                                         /\ records[a][i].location = conflicts[a].location
      BY <2>2, <3>1 DEF VerdictIsRecorded
    <3>3. i \in DOMAIN records'[a] /\ records'[a][i] = records[a][i]
      <4>1. CASE records'[a] = records[a]
        BY <4>1
      <4>2. CASE records'[a] # records[a]
        <5>1. PICK row \in Row : /\ records'[a] = Append(records[a], row)
                                 /\ row.known => ~HasKnownRow(a)
          BY <2>1, <4>2 DEF Inserted, Carries, Fresh
        <5>2. Added(records'[a], a, row)
          BY <5>1, AddedRow
        <5>. QED
          BY <5>2 DEF Added
      <4>. QED
        BY <4>1, <4>2
    <3>. QED
      BY <3>1, <3>2, <3>3
  <2>. QED
    BY <2>2 DEF VerdictIsRecorded
<1>3. ASSUME NEW h \in Handler, ResolveCommit(h)
      PROVE  VerdictIsRecorded'
  <2>1. PICK o, r :
           /\ o = handler[h] /\ o.pc = "commit" /\ Carries(o)
           /\ o.asset \in Asset /\ o.row \in Row /\ o.row.diff = Undecided /\ o.row.scanned
           /\ conflicts[o.asset] \in PendingConflict
           /\ records' = [records EXCEPT ![o.asset] = Upsert(o.asset, o.row)]
           /\ conflicts' = [conflicts EXCEPT ![o.asset] =
                              [pending |-> FALSE, candidates |-> conflicts[o.asset].candidates,
                               operator |-> o.row.operator, location |-> o.row.location]]
           /\ Continue(h, r)
           /\ r = Idle \/ (r = [pc |-> "compare"] /\ o.all)
    BY <1>3, ResolveCommitEffect
  <2>2. PICK a \in Asset, row \in Row : a = o.asset /\ row = o.row
    BY <2>1
  <2>3. PICK s : s = Upsert(a, row)
    OBVIOUS
  <2>4. PICK n \in DOMAIN s : s[n] = row
    BY <2>3, UpsertFacts DEF Upserted
  <2>5. /\ records' = [records EXCEPT ![a] = s] /\ DOMAIN records = Asset /\ DOMAIN conflicts = Asset
        /\ conflicts' = [conflicts EXCEPT ![a] =
                              [pending |-> FALSE, candidates |-> conflicts[a].candidates,
                               operator |-> row.operator, location |-> row.location]]
    BY <2>1, <2>2, <2>3 DEF Shape, RecordsShape, ConflictsShape
  <2>6. /\ records'[a] = s
        /\ conflicts'[a].operator = row.operator /\ conflicts'[a].location = row.location
    BY <2>5
  <2>7. \A b \in Asset \ {a} : records'[b] = records[b] /\ conflicts'[b] = conflicts[b]
    BY <2>5
  <2>. QED
    BY <2>4, <2>6, <2>7 DEF VerdictIsRecorded
<1>4. ASSUME NEW h \in Handler, NEW t, Decides(h, t)
      PROVE  VerdictIsRecorded'
  <2>1. PICK o, s, todo, diff :
           /\ o = handler[h] /\ o.pc = "run" /\ Carries(o) /\ t \in o.todo
           /\ t.asset \in Asset /\ t.index \in DOMAIN records[t.asset] /\ t.row \in Row
           /\ DecidedAt(s, t.asset, t.index, diff) /\ Rightly(t, diff)
           /\ diff \in Match .. Loss
           /\ records' = [records EXCEPT ![t.asset] = s]
           /\ todo = o.todo \ {t}
           /\ Continue(h, [pc |-> "run", todo |-> todo])
    BY <1>4, RunRowEffect
  <2>2. PICK a \in Asset : a = t.asset
    BY <2>1
  <2>3. /\ DOMAIN s = DOMAIN records[a]
        /\ \A i \in DOMAIN s : s[i].operator = records[a][i].operator
                               /\ s[i].location = records[a][i].location
    BY <2>1, <2>2 DEF DecidedAt
  <2>4. records'[a] = s /\ \A b \in Asset \ {a} : records'[b] = records[b]
    BY <2>1, <2>2 DEF Shape, RecordsShape
  <2>5. conflicts' = conflicts
    BY <1>4, DecidesFacts
  <2>. QED
    BY <2>3, <2>4, <2>5 DEF VerdictIsRecorded
<1>5. ASSUME NEW h \in Handler,
             \/ \E a \in Asset : WriteDraft(h, a) \/ ResolveConflict(h, a)
             \/ ArchiveRead(h) \/ ResolveTx(h)
             \/ Compare(h) \/ RunRead(h) \/ RunFinish(h)
             \/ \E t : RunRowFails(h, t)
      PROVE  UNCHANGED tables
  BY <1>5 DEF WriteDraft, ResolveConflict, ArchiveRead, ResolveTx, Compare, RunRead, RunFinish,
              RunRowFails, tables
<1>6. Inert => UNCHANGED tables
  BY DEF Inert
<1>. QED
  BY <1>1, <1>2, <1>3, <1>4, <1>5, <1>6, StepCases

\* ResolveConflict: the verdict on a conflict, an assignee's version or the
\* administrator's own location, is in a row of the asset and stays there,
\* whatever archives and comparisons run beside it.
THEOREM VerdictIsRecordedHolds == InvSpec => []VerdictIsRecorded
<1>1. InvInit => VerdictIsRecorded
  <2>. SUFFICES ASSUME InvInit
                PROVE  VerdictIsRecorded
    OBVIOUS
  <2>1. \A a \in Asset : "operator" \notin DOMAIN conflicts[a]
    <3>1. "operator" \notin {"pending", "candidates"}
      OBVIOUS
    <3>. QED
      BY <3>1 DEF InvInit, NoConflict
  <2>. QED
    BY <2>1 DEF VerdictIsRecorded
<1>2. Shape /\ VerdictIsRecorded /\ [InvNext]_invVars => VerdictIsRecorded'
  BY VerdictStep
<1>. QED
  BY <1>1, <1>2, ShapeHolds, PTL DEF InvSpec

-------------------------------------------------------------------------------
(***************************************************************************)
(* What a request goes on with once an archive has read                    *)
(***************************************************************************)
LEMMA RunRowFailsEffect ==
  ASSUME Shape, NEW h \in Handler, NEW t, RunRowFails(h, t)
  PROVE  \E o, todo :
           /\ o = handler[h] /\ o.pc = "run" /\ Carries(o) /\ t \in o.todo
           /\ todo = o.todo \ {t}
           /\ Continue(h, [pc |-> "run", todo |-> todo])
<1>1. PICK o : o = handler[h]
  OBVIOUS
<1>2. o.pc = "run" /\ Carries(o) /\ t \in o.todo
  BY <1>1, RequestCarries DEF RunRowFails, At
<1>3. PICK todo : todo = o.todo \ {t}
  OBVIOUS
<1>4. [o EXCEPT !.todo = @ \ {t}] = [pc |-> "run", todo |-> todo]
  <2>1. o = [pc |-> "run", todo |-> o.todo]
    BY <1>2 DEF Carries
  <2>2. PICK p, seen : o = [pc |-> p, todo |-> seen] /\ p = "run" /\ seen = o.todo
    BY <2>1
  <2>3. [o EXCEPT !.todo = @ \ {t}] = [pc |-> p, todo |-> seen \ {t}]
    BY <2>2
  <2>. QED
    BY <1>3, <2>2, <2>3
<1>5. Continue(h, [pc |-> "run", todo |-> todo])
  BY <1>1, <1>4 DEF RunRowFails
<1>. QED
  BY <1>1, <1>2, <1>3, <1>5

\* The steps that leave an archive or a resolution for the comparison, or go on
\* with the comparison.
LEMMA ComparisonStep ==
  ASSUME Shape, NEW h \in Handler,
         \/ ArchiveTask(h) \/ ResolveCommit(h)
         \/ Compare(h) \/ RunRead(h) \/ RunFinish(h)
         \/ \E t : Decides(h, t) \/ RunRowFails(h, t)
  PROVE  \E r : Continue(h, r) /\ r.pc \in {"idle", "compare", "run"}
<1>0. Idle.pc \in {"idle", "compare", "run"}
  BY DEF Idle
<1>1. ASSUME Continue(h, [pc |-> "compare"])
      PROVE  \E r : Continue(h, r) /\ r.pc \in {"idle", "compare", "run"}
  <2>1. PICK r : r = [pc |-> "compare"]
    OBVIOUS
  <2>. QED
    BY <1>1, <2>1
<1>2. CASE ArchiveTask(h) \/ Compare(h) \/ ResolveCommit(h)
  BY <1>0, <1>1, <1>2 DEF ArchiveTask, Compare, ResolveCommit, Finish, Start, Continue
<1>3. ASSUME NEW todo, Continue(h, [pc |-> "run", todo |-> todo])
      PROVE  \E r : Continue(h, r) /\ r.pc \in {"idle", "compare", "run"}
  <2>1. PICK r : r = [pc |-> "run", todo |-> todo]
    OBVIOUS
  <2>. QED
    BY <1>3, <2>1
<1>4. CASE RunRead(h) \/ RunFinish(h)
  BY <1>0, <1>3, <1>4 DEF RunRead, RunFinish, Finish
<1>5. ASSUME NEW t, Decides(h, t) \/ RunRowFails(h, t)
      PROVE  \E r : Continue(h, r) /\ r.pc \in {"idle", "compare", "run"}
  <2>1. \E todo : Continue(h, [pc |-> "run", todo |-> todo])
    BY <1>5, RunRowEffect, RunRowFailsEffect
  <2>. QED
    BY <1>3, <2>1
<1>. QED
  BY <1>2, <1>4, <1>5

\* The steps after an archive has read.
LEMMA LaterStep ==
  ASSUME Shape, NEW h \in Handler,
         \/ \E a \in Asset : ResolveConflict(h, a)
         \/ ArchiveTask(h) \/ ResolveTx(h) \/ ResolveCommit(h)
         \/ Compare(h) \/ RunRead(h) \/ RunFinish(h)
         \/ \E t : Decides(h, t) \/ RunRowFails(h, t)
  PROVE  \E r : Continue(h, r) /\ r.pc \notin {"records", "archive"}
<1>1. ASSUME NEW a \in Asset, ResolveConflict(h, a)
      PROVE  \E r : Continue(h, r) /\ r.pc \notin {"records", "archive"}
  <2>1. PICK row : Continue(h, [pc |-> "resolve", asset |-> a, row |-> row])
    BY <1>1 DEF ResolveConflict, Start, Continue
  <2>2. PICK r : r = [pc |-> "resolve", asset |-> a, row |-> row]
    OBVIOUS
  <2>. QED
    BY <2>1, <2>2
<1>2. CASE ResolveTx(h)
  <2>1. PICK a, row, all : Continue(h, [pc |-> "commit", asset |-> a, row |-> row, all |-> all])
    BY <1>2 DEF ResolveTx
  <2>2. PICK r : r = [pc |-> "commit", asset |-> a, row |-> row, all |-> all]
    OBVIOUS
  <2>. QED
    BY <2>1, <2>2
<1>3. ASSUME \/ ArchiveTask(h) \/ ResolveCommit(h)
             \/ Compare(h) \/ RunRead(h) \/ RunFinish(h)
             \/ \E t : Decides(h, t) \/ RunRowFails(h, t)
      PROVE  \E r : Continue(h, r) /\ r.pc \notin {"records", "archive"}
  BY <1>3, ComparisonStep
<1>. QED
  BY <1>1, <1>2, <1>3

-------------------------------------------------------------------------------
(***************************************************************************)
(* Drafts reach the records                                                *)
(***************************************************************************)
LEMMA RowIsThere ==
  ASSUME NEW row, Fresh(row)
  PROVE  row # NoRow
<1>1. "known" \in DOMAIN row
  BY DEF Fresh, Row
<1>2. DOMAIN NoRow = {}
  BY DEF NoRow
<1>. QED
  BY <1>1, <1>2

LEMMA ScannedFields ==
  ASSUME NEW e, NEW known \in BOOLEAN, NEW row, row = ScannedRow(e, known)
  PROVE  /\ row # NoRow
         /\ row.scanned = TRUE
         /\ row.location = e.cells.location
         /\ row.known = known
         /\ row.diff = Undecided
<1>1. row = [known |-> known, operator |-> e.operator, scanned |-> TRUE,
             location |-> e.cells.location, diff |-> Undecided]
  BY DEF ScannedRow
<1>2. "known" \in DOMAIN row /\ DOMAIN NoRow = {}
  BY <1>1 DEF NoRow
<1>3. row # NoRow
  BY <1>2
<1>. QED
  BY <1>1, <1>3

LEMMA MissingFields ==
  /\ MissingRow # NoRow /\ MissingRow.known = TRUE /\ MissingRow.scanned = FALSE
  /\ MissingRow.diff = Undecided
<1>1. "known" \in DOMAIN MissingRow /\ DOMAIN NoRow = {}
  BY DEF MissingRow, NoRow
<1>2. MissingRow # NoRow
  BY <1>1
<1>. QED
  BY <1>2 DEF MissingRow

\* Assignees who disagree are among those with a draft.
LEMMA ConflictHasEntries ==
  ASSUME NEW entries, NEW assigned, HasAssigneeConflict(entries, assigned)
  PROVE  entries # {} /\ AssigneeEntries(entries, assigned) # {}
<1>1. Cardinality(AssigneeEntries(entries, assigned)) >= 2
  BY DEF HasAssigneeConflict
<1>2. AssigneeEntries(entries, assigned) # {}
  BY <1>1, FS_EmptySet
<1>3. AssigneeEntries(entries, assigned) \subseteq entries
  BY DEF AssigneeEntries, LatestPerOperator
<1>. QED
  BY <1>2, <1>3

\* What every step keeps of the drafts that count.
LEMMA DraftsReadKept ==
  ASSUME \A a \in Asset : \A e \in drafts'[a] : e \in drafts[a] \/ e.at = clock,
         NEW r, DraftsRead(r), Carries(r), clock \in Nat
  PROVE  DraftsRead(r)'
<1>. SUFFICES ASSUME r.pc = "records", NEW a \in Asset, {e \in drafts'[a] : e.at <= r.read} # {}
              PROVE  \/ r.rows[a] # NoRow /\ r.rows[a].scanned
                     \/ r.candidates[a] # {}
  BY DEF DraftsRead
<1>1. PICK e \in drafts'[a] : e.at <= r.read
  OBVIOUS
<1>2. r.read \in Nat /\ r.read < clock
  BY DEF Carries
<1>3. e \in drafts[a]
  BY <1>1, <1>2
<1>. QED
  BY <1>1, <1>3 DEF DraftsRead

\* No step takes back an incident; deletions and the items move with theirs.
LEMMA TaskOnward ==
  ASSUME Shape, [InvNext]_invVars
  PROVE  /\ incidents \subseteq incidents'
         /\ gone' = gone \/ (gone \subseteq gone' /\ "deleted" \in incidents')
         /\ items' = items \/ status = Unpublished \/ "late" \in incidents'
         /\ assignees' = assignees \/ status = NoTask
<1>. DEFINE Quiet == incidents \subseteq incidents' /\ UNCHANGED <<gone, items, assignees>>
<1>1. ASSUME NEW h \in Handler, NEW a \in Asset, WriteDraft(h, a)
      PROVE  Quiet
  BY <1>1 DEF WriteDraft, task
<1>2. ASSUME NEW h \in Handler, NEW a \in Asset, ResolveConflict(h, a)
      PROVE  Quiet
  BY <1>2 DEF ResolveConflict, task, Incident
<1>3. ASSUME NEW h \in Handler, ArchiveRead(h)
      PROVE  Quiet
  BY <1>3 DEF ArchiveRead, task, Incident
<1>4. ASSUME NEW h \in Handler, ArchiveTask(h) \/ ResolveTx(h) \/ ResolveCommit(h)
      PROVE  Quiet
  BY <1>4 DEF ArchiveTask, ResolveTx, ResolveCommit, task
<1>5. ASSUME NEW h \in Handler, Compare(h) \/ RunRead(h) \/ RunFinish(h)
      PROVE  Quiet
  BY <1>5 DEF Compare, RunRead, RunFinish, task, Incident
<1>6. ASSUME NEW h \in Handler, NEW t, Decides(h, t)
      PROVE  Quiet
  BY <1>6, DecidesFacts DEF task
<1>7. ASSUME NEW h \in Handler, NEW t, RunRowFails(h, t)
      PROVE  Quiet
  BY <1>7 DEF RunRowFails, task, Incident
<1>8. CASE \E h \in Handler :
             \/ \E a \in Asset : WriteDraft(h, a) \/ ResolveConflict(h, a)
             \/ ArchiveRead(h) \/ ArchiveTask(h)
             \/ ResolveTx(h) \/ ResolveCommit(h)
             \/ Compare(h) \/ RunRead(h) \/ RunFinish(h)
             \/ \E t : Decides(h, t) \/ RunRowFails(h, t)
  <2>1. Quiet
    BY <1>1, <1>2, <1>3, <1>4, <1>5, <1>6, <1>7, <1>8, Zenon
  <2>. QED
    BY <2>1
<1>9. CASE Inert
  BY <1>9 DEF Inert
<1>. QED
  BY <1>8, <1>9, StepCases

\* The requests, whatever the step: one reads, the others have read.
LEMMA DraftsReadStep ==
  ASSUME Shape, DraftsInv, [InvNext]_invVars, ~Happened({"drafts"})'
  PROVE  ~Happened({"drafts"}) /\ \A g \in Handler : DraftsRead(handler[g])'
<1>1. clock \in Nat
  BY DEF Shape, Scalars
<1>2. incidents \subseteq incidents'
  BY TaskOnward
<1>3. ~Happened({"drafts"})
  BY <1>2 DEF Happened
<1>4. \A g \in Handler : DraftsRead(handler[g]) /\ Carries(handler[g])
  BY <1>3 DEF DraftsInv, Shape
<1>5. ASSUME \A a \in Asset : \A e \in drafts'[a] : e \in drafts[a] \/ e.at = clock,
             \A g \in Handler : handler'[g] = handler[g] \/ handler'[g].pc # "records"
      PROVE  \A g \in Handler : DraftsRead(handler[g])'
  <2>. SUFFICES ASSUME NEW g \in Handler
                PROVE  DraftsRead(handler[g])'
    OBVIOUS
  <2>1. CASE handler'[g] = handler[g]
    <3>1. PICK o : o = handler[g]
      OBVIOUS
    <3>2. DraftsRead(o)'
      BY <1>1, <1>4, <1>5, <3>1, DraftsReadKept
    <3>3. handler'[g] = o
      BY <2>1, <3>1
    <3>. QED
      BY <3>2, <3>3
  <2>2. CASE handler'[g].pc # "records"
    BY <2>2 DEF DraftsRead
  <2>. QED
    BY <1>5, <2>1, <2>2
<1>6. ASSUME NEW h \in Handler, NEW r, Continue(h, r), r.pc # "records"
      PROVE  \A g \in Handler : handler'[g] = handler[g] \/ handler'[g].pc # "records"
  BY <1>6, MoveFacts DEF Shape
<1>7. ASSUME Inert
      PROVE  \A g \in Handler : DraftsRead(handler[g])'
  <2>1. drafts' = drafts
    BY <1>7 DEF Inert
  <2>2. \A g \in Handler : handler'[g] = handler[g] \/ handler'[g].pc # "records"
    BY <1>7 DEF Inert
  <2>. QED
    BY <1>5, <2>1, <2>2
<1>8. ASSUME NEW h \in Handler, NEW a \in Asset, WriteDraft(h, a)
      PROVE  \A g \in Handler : DraftsRead(handler[g])'
  <2>1. PICK e, r : Wrote(h, a, e, r)
    BY <1>8, WriteDraftEffect, Zenon
  <2>2. Continue(h, r) /\ r.pc # "records"
    BY <2>1 DEF Wrote, Idle
  <2>3. \A b \in Asset : \A f \in drafts'[b] : f \in drafts[b] \/ f.at = clock
    BY <2>1 DEF Wrote, Shape, DraftsShape
  <2>. QED
    BY <1>5, <1>6, <2>2, <2>3
<1>9. ASSUME NEW h \in Handler, ArchiveRead(h)
      PROVE  \A g \in Handler : DraftsRead(handler[g])'
  <2>0. PICK lost, entries, assigned, expected, rows, candidates :
          /\ Returned(lost, entries, assigned, expected)
          /\ Computed(h, entries, assigned, expected, rows, candidates)
    BY <1>9, ArchiveReadEffect, Zenon
  <2>. PICK r : r = [pc |-> "records", rows |-> rows, candidates |-> candidates, read |-> clock]
    OBVIOUS
  <2>1. Continue(h, r)
    BY <2>0 DEF Computed
  <2>2. lost # "drafts"
    BY <2>0 DEF Returned, Happened
  <2>3. entries = drafts /\ drafts' = drafts
    BY <1>9, <2>0, <2>2 DEF Returned, ArchiveRead
  <2>4. ASSUME NEW a \in Asset, drafts[a] # {}
        PROVE  \/ rows[a] # NoRow /\ rows[a].scanned
               \/ candidates[a] # {}
    <3>1. /\ RowCases(drafts[a], assigned, expected, a, rows[a])
          /\ candidates[a] = IF HasAssigneeConflict(drafts[a], assigned)
                             THEN AssigneeEntries(drafts[a], assigned) ELSE {}
      BY <2>0, <2>3 DEF Computed
    <3>2. CASE HasAssigneeConflict(drafts[a], assigned)
      BY <3>1, <3>2, ConflictHasEntries
    <3>3. CASE ~HasAssigneeConflict(drafts[a], assigned)
      <4>1. PICK e : \E known \in BOOLEAN : rows[a] = ScannedRow(e, known)
        BY <2>4, <3>1, <3>3 DEF RowCases
      <4>2. rows[a] # NoRow /\ rows[a].scanned = TRUE
        BY <4>1, ScannedFields
      <4>. QED
        BY <4>2
    <3>. QED
      BY <3>2, <3>3
  <2>5. DraftsRead(r)'
    BY <2>3, <2>4 DEF DraftsRead
  <2>6. /\ handler'[h] = r
        /\ \A g \in Handler \ {h} : handler'[g] = handler[g]
    BY <2>1, MoveFacts DEF Shape
  <2>7. ASSUME NEW g \in Handler \ {h}
        PROVE  DraftsRead(handler[g])'
    <3>1. PICK o : o = handler[g]
      OBVIOUS
    <3>2. DraftsRead(o)'
      BY <1>1, <1>4, <2>3, <3>1, DraftsReadKept
    <3>3. handler'[g] = o
      BY <2>6, <3>1
    <3>. QED
      BY <3>2, <3>3
  <2>8. DraftsRead(handler[h])'
    BY <2>5, <2>6
  <2>. QED
    BY <2>7, <2>8
<1>10. ASSUME NEW h \in Handler,
              \/ \E a \in Asset : ResolveConflict(h, a)
              \/ ArchiveTask(h) \/ ResolveTx(h) \/ ResolveCommit(h)
              \/ Compare(h) \/ RunRead(h) \/ RunFinish(h)
              \/ \E t : Decides(h, t) \/ RunRowFails(h, t)
       PROVE  \A g \in Handler : DraftsRead(handler[g])'
  <2>1. PICK r : Continue(h, r) /\ r.pc # "records"
    BY <1>10, LaterStep
  <2>2. drafts' = drafts
    BY <1>10 DEF ResolveConflict, ArchiveTask, ResolveTx, ResolveCommit, Compare, RunRead,
       RunFinish, Decides, RunRow, RunRowOnError, Decide, RunRowFails
  <2>. QED
    BY <1>5, <1>6, <2>1, <2>2
<1>. QED
  BY <1>3, <1>7, <1>8, <1>9, <1>10, StepCases
-------------------------------------------------------------------------------
(***************************************************************************)
(* What every step keeps of the tables                                     *)
(***************************************************************************)
LEMMA TableCases ==
  ASSUME Shape, [InvNext]_invVars
  PROVE  \/ UNCHANGED <<records, conflicts, commits, cut>>
         \/ \E h \in Handler :
              \/ ArchiveTask(h)
              \/ ResolveCommit(h) /\ UNCHANGED <<commits, cut>>
              \/ \E t : Decides(h, t) /\ UNCHANGED <<conflicts, commits, cut>>
<1>1. ASSUME NEW h \in Handler,
             \/ \E a \in Asset : WriteDraft(h, a) \/ ResolveConflict(h, a)
             \/ ArchiveRead(h) \/ ResolveTx(h)
             \/ Compare(h) \/ RunRead(h) \/ RunFinish(h)
             \/ \E t : RunRowFails(h, t)
      PROVE  UNCHANGED <<records, conflicts, commits, cut>>
  BY <1>1 DEF WriteDraft, ResolveConflict, ArchiveRead, ResolveTx, Compare, RunRead, RunFinish,
              RunRowFails, tables, counters
<1>2. Inert => UNCHANGED <<records, conflicts, commits, cut>>
  BY DEF Inert, tables
<1>3. ASSUME NEW h \in Handler, ResolveCommit(h)
      PROVE  UNCHANGED <<commits, cut>>
  BY <1>3 DEF ResolveCommit, counters
<1>4. ASSUME NEW h \in Handler, NEW t, Decides(h, t)
      PROVE  UNCHANGED <<conflicts, commits, cut>>
  BY <1>4, DecidesFacts
<1>. QED
  BY <1>1, <1>2, <1>3, <1>4, StepCases

LEMMA SameRows ==
  ASSUME NEW a \in Asset, records'[a] = records[a]
  PROVE  \A i \in DOMAIN records[a] :
           i \in DOMAIN records'[a] /\ SameRow(records'[a][i], records[a][i])
BY DEF SameRow

\* A conflict is never forgotten, and the rows of an asset without one are only
\* added to and decided.
LEMMA TablesOnward ==
  ASSUME Shape, [InvNext]_invVars, NEW a \in Asset
  PROVE  /\ conflicts[a] # NoConflict => conflicts'[a] # NoConflict
         /\ conflicts[a] = NoConflict =>
              \A i \in DOMAIN records[a] :
                i \in DOMAIN records'[a] /\ SameRow(records'[a][i], records[a][i])
<1>1. CASE UNCHANGED <<records, conflicts, commits, cut>>
  BY <1>1, SameRows
<1>2. ASSUME NEW h \in Handler, ArchiveTask(h)
      PROVE  /\ conflicts[a] # NoConflict => conflicts'[a] # NoConflict
             /\ \A i \in DOMAIN records[a] :
                  i \in DOMAIN records'[a] /\ SameRow(records'[a][i], records[a][i])
  <2>1. PICK o :
           /\ o = handler[h] /\ o.pc = "records" /\ Carries(o)
           /\ records' = [b \in Asset |-> records'[b]] /\ DOMAIN conflicts' = Asset
           /\ \A b \in Asset :
                /\ Inserted(b, o.rows[b])
                /\ \/ o.candidates[b] = {} /\ conflicts'[b] = conflicts[b]
                   \/ /\ o.candidates[b] # {} /\ conflicts[b] = NoConflict
                      /\ conflicts'[b] = [pending |-> TRUE, candidates |-> o.candidates[b]]
           /\ cut' = IF commits = 0 THEN o.read ELSE cut
           /\ \/ Continue(h, Idle)
              \/ Continue(h, [pc |-> "compare"]) /\ \A b \in Asset : o.candidates[b] = {}
    BY <1>2, ArchiveTaskEffect
  <2>2. CASE records'[a] = records[a]
    BY <2>1, <2>2, SameRows
  <2>3. CASE records'[a] # records[a]
    <3>1. PICK row \in Row : /\ records'[a] = Append(records[a], row)
                             /\ row.known => ~HasKnownRow(a)
      BY <2>1, <2>3 DEF Inserted, Carries, Fresh
    <3>2. Added(records'[a], a, row)
      BY <3>1, AddedRow
    <3>. QED
      BY <2>1, <3>2 DEF Added, SameRow
  <2>. QED
    BY <2>2, <2>3
<1>3. ASSUME NEW h \in Handler, ResolveCommit(h)
      PROVE  /\ conflicts[a] # NoConflict => conflicts'[a] # NoConflict
             /\ conflicts[a] = NoConflict => records'[a] = records[a]
  <2>1. PICK o, r :
           /\ o = handler[h] /\ o.pc = "commit" /\ Carries(o)
           /\ o.asset \in Asset /\ o.row \in Row /\ o.row.diff = Undecided /\ o.row.scanned
           /\ conflicts[o.asset] \in PendingConflict
           /\ records' = [records EXCEPT ![o.asset] = Upsert(o.asset, o.row)]
           /\ conflicts' = [conflicts EXCEPT ![o.asset] =
                              [pending |-> FALSE, candidates |-> conflicts[o.asset].candidates,
                               operator |-> o.row.operator, location |-> o.row.location]]
           /\ Continue(h, r)
           /\ r = Idle \/ (r = [pc |-> "compare"] /\ o.all)
    BY <1>3, ResolveCommitEffect
  <2>2. CASE a = o.asset
    <3>1. conflicts[a] # NoConflict
      BY <2>1, <2>2, ConflictFacts
    <3>2. PICK operator, location, candidates :
            conflicts'[a] = [pending |-> FALSE, candidates |-> candidates,
                             operator |-> operator, location |-> location]
      BY <2>1, <2>2 DEF Shape, ConflictsShape
    <3>3. "operator" \in DOMAIN conflicts'[a] /\ DOMAIN NoConflict = {"pending", "candidates"}
      BY <3>2 DEF NoConflict
    <3>4. "operator" \notin {"pending", "candidates"}
      OBVIOUS
    <3>. QED
      BY <3>1, <3>3, <3>4
  <2>3. CASE a # o.asset
    BY <2>1, <2>3 DEF Shape, ConflictsShape, RecordsShape
  <2>. QED
    BY <2>2, <2>3
<1>4. ASSUME NEW h \in Handler, NEW t, Decides(h, t), UNCHANGED conflicts
      PROVE  \A i \in DOMAIN records[a] :
                i \in DOMAIN records'[a] /\ SameRow(records'[a][i], records[a][i])
  <2>1. PICK o, s, todo, diff :
           /\ o = handler[h] /\ o.pc = "run" /\ Carries(o) /\ t \in o.todo
           /\ t.asset \in Asset /\ t.index \in DOMAIN records[t.asset] /\ t.row \in Row
           /\ DecidedAt(s, t.asset, t.index, diff) /\ Rightly(t, diff)
           /\ diff \in Match .. Loss
           /\ records' = [records EXCEPT ![t.asset] = s]
           /\ todo = o.todo \ {t}
           /\ Continue(h, [pc |-> "run", todo |-> todo])
    BY <1>4, RunRowEffect
  <2>2. CASE a = t.asset
    <3>1. records'[a] = s
      BY <2>1, <2>2 DEF Shape, RecordsShape
    <3>. QED
      BY <2>1, <2>2, <3>1 DEF DecidedAt, SameRow
  <2>3. CASE a # t.asset
    <3>1. records'[a] = records[a]
      BY <2>1, <2>3 DEF Shape, RecordsShape
    <3>. QED
      BY <3>1, SameRows
  <2>. QED
    BY <2>2, <2>3
<1>. QED
  BY <1>1, <1>2, <1>3, <1>4, SameRows, TableCases

\* Drafts are only added, and stamped with the time.
LEMMA DraftsOnward ==
  ASSUME Shape, [InvNext]_invVars, NEW a \in Asset, NEW e \in drafts'[a]
  PROVE  e \in drafts[a] \/ e.at = clock
<1>1. CASE drafts' = drafts
  BY <1>1
<1>2. ASSUME NEW h \in Handler, NEW b \in Asset, WriteDraft(h, b)
      PROVE  e \in drafts[a] \/ e.at = clock
  <2>1. PICK f, r : Wrote(h, b, f, r)
    BY <1>2, WriteDraftEffect, Zenon
  <2>. QED
    BY <2>1 DEF Wrote, Shape, DraftsShape
<1>3. ASSUME NEW h \in Handler,
             \/ \E b \in Asset : ResolveConflict(h, b)
             \/ ArchiveRead(h) \/ ArchiveTask(h) \/ ResolveTx(h) \/ ResolveCommit(h)
             \/ Compare(h) \/ RunRead(h) \/ RunFinish(h)
             \/ \E t : Decides(h, t) \/ RunRowFails(h, t)
      PROVE  drafts' = drafts
  BY <1>3 DEF ResolveConflict, ArchiveRead, ArchiveTask, ResolveTx, ResolveCommit, Compare, RunRead,
     RunFinish, Decides, RunRow, RunRowOnError, Decide, RunRowFails
<1>4. Inert => drafts' = drafts
  BY DEF Inert
<1>. QED
  BY <1>1, <1>2, <1>3, <1>4, StepCases

LEMMA DraftsInvStep ==
  ASSUME Shape, DraftsInv, [InvNext]_invVars
  PROVE  DraftsInv'
<1>. SUFFICES ASSUME ~Happened({"drafts"})'
              PROVE  /\ DraftsReachRecords'
                     /\ \A g \in Handler : DraftsRead(handler[g])'
  BY DEF DraftsInv, DraftsReachRecords
<1>1. ~Happened({"drafts"}) /\ \A g \in Handler : DraftsRead(handler[g])'
  BY DraftsReadStep
<1>2. ASSUME commits' > 0, NEW a \in Asset, CountedAtCut(a)' # {}
      PROVE  \/ conflicts'[a] # NoConflict
             \/ \E i \in DOMAIN records'[a] : records'[a][i].scanned
  <2>0. clock \in Nat /\ commits \in Nat
    BY DEF Shape, Scalars
  <2>1. PICK e \in drafts'[a] : e.at <= cut'
    BY <1>2 DEF CountedAtCut
  <2>2. CASE commits > 0 /\ cut' = cut
    <3>1. cut < clock /\ cut \in Nat
      BY <2>2, StageFacts
    <3>2. e \in drafts[a]
      BY <2>0, <2>1, <2>2, <3>1, DraftsOnward
    <3>3. CountedAtCut(a) # {}
      BY <2>1, <2>2, <3>2 DEF CountedAtCut
    <3>4. \/ conflicts[a] # NoConflict
          \/ \E i \in DOMAIN records[a] : records[a][i].scanned
      BY <1>1, <2>2, <3>3 DEF DraftsInv, DraftsReachRecords
    <3>. QED
      BY <3>4, TablesOnward DEF SameRow
  <2>3. ASSUME NEW h \in Handler, ArchiveTask(h), commits = 0
        PROVE  \/ conflicts'[a] # NoConflict
               \/ \E i \in DOMAIN records'[a] : records'[a][i].scanned
    <3>1. PICK o :
           /\ o = handler[h] /\ o.pc = "records" /\ Carries(o)
           /\ records' = [b \in Asset |-> records'[b]] /\ DOMAIN conflicts' = Asset
           /\ \A b \in Asset :
                /\ Inserted(b, o.rows[b])
                /\ \/ o.candidates[b] = {} /\ conflicts'[b] = conflicts[b]
                   \/ /\ o.candidates[b] # {} /\ conflicts[b] = NoConflict
                      /\ conflicts'[b] = [pending |-> TRUE, candidates |-> o.candidates[b]]
           /\ cut' = IF commits = 0 THEN o.read ELSE cut
           /\ \/ Continue(h, Idle)
              \/ Continue(h, [pc |-> "compare"]) /\ \A b \in Asset : o.candidates[b] = {}
      BY <2>3, ArchiveTaskEffect
    <3>2. e \in {f \in drafts[a] : f.at <= o.read}
      BY <2>1, <2>3, <3>1 DEF ArchiveTask
    <3>3. DraftsRead(o)
      BY <1>1, <3>1 DEF DraftsInv
    <3>4. \/ o.rows[a] # NoRow /\ o.rows[a].scanned
          \/ o.candidates[a] # {}
      BY <3>1, <3>2, <3>3 DEF DraftsRead
    <3>5. ASSUME o.candidates[a] # {}
          PROVE  conflicts'[a] # NoConflict
      BY <3>1, <3>5 DEF NoConflict
    <3>6. ASSUME o.rows[a] # NoRow, o.rows[a].scanned
          PROVE  \E i \in DOMAIN records'[a] : records'[a][i].scanned
      <4>1. PICK row \in Row : row = o.rows[a]
        BY <3>1, <3>6 DEF Carries, Fresh
      <4>2. ~HasKnownRow(a)
        BY <2>3, BeforeArchive
      <4>3. records'[a] = Append(records[a], row)
        BY <3>1, <3>6, <4>1, <4>2 DEF Inserted
      <4>4. Added(records'[a], a, row)
        BY <4>2, <4>3, AddedRow
      <4>. QED
        BY <3>6, <4>1, <4>4 DEF Added
    <3>. QED
      BY <3>4, <3>5, <3>6
  <2>4. ASSUME NEW h \in Handler, ArchiveTask(h), commits > 0
        PROVE  cut' = cut
    BY <2>0, <2>4 DEF ArchiveTask
  <2>. QED
    BY <1>2, <2>0, <2>2, <2>3, <2>4, TableCases
<1>. QED
  BY <1>1, <1>2 DEF DraftsReachRecords

\* Archive: a draft that was there when the archive read the drafts is in a scanned
\* row or in a conflict, unless the drafts could not be read: nothing an assignee
\* counted is lost, whatever is submitted and archived at the same time.
THEOREM DraftsReachRecordsHolds == InvSpec => []DraftsReachRecords
<1>1. InvInit => DraftsInv
  BY DEF InvInit, DraftsInv, DraftsReachRecords, DraftsRead, Idle
<1>2. Shape /\ DraftsInv /\ [InvNext]_invVars => DraftsInv'
  BY DraftsInvStep
<1>3. DraftsInv => DraftsReachRecords
  BY DEF DraftsInv
<1>. QED
  BY <1>1, <1>2, <1>3, ShapeHolds, PTL DEF InvSpec
-------------------------------------------------------------------------------
(***************************************************************************)
(* Items are recorded                                                      *)
(***************************************************************************)
\* What the other requests are doing is what they were doing.
LEMMA OthersKeep ==
  ASSUME Shape, NEW h \in Handler, NEW r, Continue(h, r)
  PROVE  handler'[h] = r /\ \A g \in Handler \ {h} : handler'[g] = handler[g]
BY MoveFacts DEF Shape

LEMMA ItemsReadKept ==
  ASSUME gone \subseteq gone', NEW r, items' = items \/ r.pc # "records", ItemsRead(r)
  PROVE  ItemsRead(r)'
BY DEF ItemsRead

\* The request that takes the step.
ItemsMove ==
  \/ \A g \in Handler :
       handler'[g] = handler[g] \/ handler'[g].pc \notin {"records", "resolve", "commit"}
  \/ \E h \in Handler : \E r :
       Continue(h, r) /\ ItemsRead(r)'

LEMMA ItemsMoves ==
  ASSUME Shape, ItemsInv, [InvNext]_invVars, ~Happened({"assets", "late"})'
  PROVE  ItemsMove
<1>1. CASE Inert
  BY <1>1 DEF Inert, ItemsMove
<1>2. ASSUME NEW h \in Handler, NEW r, Continue(h, r), r.pc \notin {"records", "resolve", "commit"}
      PROVE  ItemsMove
  BY <1>2, OthersKeep DEF ItemsMove
<1>3. ASSUME NEW h \in Handler, NEW a \in Asset, WriteDraft(h, a)
      PROVE  ItemsMove
  <2>1. PICK e, r : Wrote(h, a, e, r)
    BY <1>3, WriteDraftEffect, Zenon
  <2>2. Continue(h, r) /\ r.pc \notin {"records", "resolve", "commit"}
    BY <2>1 DEF Wrote, Idle
  <2>. QED
    BY <1>2, <2>2
<1>4. ASSUME NEW h \in Handler, ArchiveRead(h)
      PROVE  ItemsMove
  <2>0. PICK lost, entries, assigned, expected, rows, candidates :
          /\ Returned(lost, entries, assigned, expected)
          /\ Computed(h, entries, assigned, expected, rows, candidates)
    BY <1>4, ArchiveReadEffect, Zenon
  <2>. PICK r : r = [pc |-> "records", rows |-> rows, candidates |-> candidates, read |-> clock]
    OBVIOUS
  <2>1. Continue(h, r)
    BY <2>0 DEF Computed
  <2>2. lost # "assets"
    BY <2>0 DEF Returned, Happened
  <2>3. expected = Expected /\ items' = items /\ gone' = gone
    BY <1>4, <2>0, <2>2 DEF Returned, ArchiveRead, task
  <2>4. ASSUME NEW a \in items \ gone
        PROVE  /\ rows[a] # NoRow => rows[a].known
               /\ rows[a] # NoRow \/ candidates[a] # {}
    <3>1. a \in Asset /\ a \in expected
      BY <2>3 DEF Shape, Scalars, Expected
    <3>2. /\ RowCases(entries[a], assigned, expected, a, rows[a])
          /\ candidates[a] = IF HasAssigneeConflict(entries[a], assigned)
                             THEN AssigneeEntries(entries[a], assigned) ELSE {}
      BY <2>0, <3>1 DEF Computed
    <3>3. CASE HasAssigneeConflict(entries[a], assigned)
      <4>1. candidates[a] # {} /\ entries[a] # {}
        BY <3>2, <3>3, ConflictHasEntries
      <4>2. rows[a] = NoRow
        BY <3>2, <3>3, <4>1 DEF RowCases
      <4>. QED
        BY <4>1, <4>2
    <3>4. CASE ~HasAssigneeConflict(entries[a], assigned) /\ entries[a] # {}
      <4>1. PICK e : \E b \in BOOLEAN : b = (a \in expected) /\ rows[a] = ScannedRow(e, b)
        BY <3>2, <3>4 DEF RowCases
      <4>2. PICK known \in BOOLEAN :
              known = (a \in expected) /\ rows[a] = ScannedRow(e, known)
        BY <4>1
      <4>3. rows[a] # NoRow /\ rows[a].known = known
        BY <4>2, ScannedFields
      <4>. QED
        BY <3>1, <4>2, <4>3
    <3>5. CASE entries[a] = {}
      <4>1. rows[a] = MissingRow
        BY <3>1, <3>2, <3>5 DEF RowCases
      <4>. QED
        BY <4>1, MissingFields
    <3>. QED
      BY <3>3, <3>4, <3>5
  <2>5. ItemsRead(r)'
    BY <2>3, <2>4 DEF ItemsRead
  <2>. QED
    BY <2>1, <2>5 DEF ItemsMove
<1>5. ASSUME NEW h \in Handler, NEW a \in Asset, ResolveConflict(h, a)
      PROVE  ItemsMove
  <2>1. PICK answered \in BOOLEAN :
          /\ IF answered THEN UNCHANGED incidents ELSE Incident("assets")
          /\ \E operator, location :
               Continue(h, [pc |-> "resolve", asset |-> a,
                      row |-> [known |-> answered /\ a \notin gone,
                               operator |-> operator, scanned |-> TRUE,
                               location |-> location, diff |-> Undecided]])
    BY <1>5 DEF ResolveConflict, Start, Continue
  <2>2. PICK operator, location :
               Continue(h, [pc |-> "resolve", asset |-> a,
                      row |-> [known |-> answered /\ a \notin gone,
                               operator |-> operator, scanned |-> TRUE,
                               location |-> location, diff |-> Undecided]])
    BY <2>1, Zenon
  <2>3. answered
    BY <2>1 DEF Incident, Happened
  <2>4. PICK known \in BOOLEAN : known = (answered /\ a \notin gone)
    OBVIOUS
  <2>5. PICK row : row = [known |-> known, operator |-> operator, scanned |-> TRUE,
                          location |-> location, diff |-> Undecided]
    OBVIOUS
  <2>6. PICK r : r = [pc |-> "resolve", asset |-> a, row |-> row]
    OBVIOUS
  <2>7. Continue(h, r)
    BY <2>2, <2>4, <2>5, <2>6, Zenon
  <2>8. a \notin gone => row.known
    BY <2>3, <2>4, <2>5
  <2>9. gone' = gone
    BY <1>5 DEF ResolveConflict
  <2>10. ItemsRead(r)'
    BY <2>6, <2>8, <2>9 DEF ItemsRead
  <2>. QED
    BY <2>7, <2>10 DEF ItemsMove
<1>6. ASSUME NEW h \in Handler, ResolveTx(h)
      PROVE  ItemsMove
  <2>1. PICK o : o = handler[h] /\ o.pc = "resolve"
    BY <1>6 DEF ResolveTx, At
  <2>2. PICK all : all = LastPending(o.asset)
    OBVIOUS
  <2>3. PICK r : r = [pc |-> "commit", asset |-> o.asset, row |-> o.row, all |-> all]
    OBVIOUS
  <2>4. Continue(h, r)
    BY <1>6, <2>1, <2>2, <2>3 DEF ResolveTx
  <2>5. ~Happened({"assets", "late"})
    BY TaskOnward DEF Happened
  <2>6. ItemsRead(o)
    BY <2>1, <2>5 DEF ItemsInv
  <2>7. gone' = gone
    BY <1>6 DEF ResolveTx
  <2>8. ItemsRead(r)'
    BY <2>1, <2>3, <2>6, <2>7 DEF ItemsRead
  <2>. QED
    BY <2>4, <2>8 DEF ItemsMove
<1>7. ASSUME NEW h \in Handler,
             \/ ArchiveTask(h) \/ ResolveCommit(h)
             \/ Compare(h) \/ RunRead(h) \/ RunFinish(h)
             \/ \E t : Decides(h, t) \/ RunRowFails(h, t)
      PROVE  ItemsMove
  <2>1. PICK r : Continue(h, r) /\ r.pc \in {"idle", "compare", "run"}
    BY <1>7, ComparisonStep
  <2>. QED
    BY <1>2, <2>1
<1>. QED
  BY <1>1, <1>3, <1>4, <1>5, <1>6, <1>7, StepCases

\* A row that was on record keeps being known; one that is added is known.
LEMMA ItemsInvStep ==
  ASSUME Shape, ItemsInv, [InvNext]_invVars
  PROVE  ItemsInv'
<1>. SUFFICES ASSUME ~Happened({"assets", "late"})'
              PROVE  ItemsAreRecorded' /\ \A g \in Handler : ItemsRead(handler[g])'
  BY DEF ItemsInv, ItemsAreRecorded
<1>1. ~Happened({"assets", "late"})
  BY TaskOnward DEF Happened
<1>2. gone \subseteq gone' /\ (items' = items \/ status = Unpublished)
  BY TaskOnward DEF Happened
<1>3. \A g \in Handler : ItemsRead(handler[g])
  BY <1>1 DEF ItemsInv
<1>4. ASSUME NEW g \in Handler, handler'[g] = handler[g]
      PROVE  ItemsRead(handler[g])'
  <2>1. PICK o : o = handler[g]
    OBVIOUS
  <2>2. items' = items \/ o.pc # "records"
    BY <1>2, <2>1, BeforePublication
  <2>3. ItemsRead(o)'
    BY <1>2, <1>3, <2>1, <2>2, ItemsReadKept
  <2>4. handler'[g] = o
    BY <1>4, <2>1
  <2>. QED
    BY <2>3, <2>4
<1>5. \A g \in Handler : ItemsRead(handler[g])'
  <2>1. CASE \A g \in Handler :
               handler'[g] = handler[g] \/ handler'[g].pc \notin {"records", "resolve", "commit"}
    <3>1. ASSUME NEW g \in Handler, handler'[g].pc \notin {"records", "resolve", "commit"}
          PROVE  ItemsRead(handler[g])'
      BY <3>1 DEF ItemsRead
    <3>. QED
      BY <1>4, <2>1, <3>1
  <2>2. ASSUME NEW h \in Handler, NEW r, Continue(h, r), ItemsRead(r)'
        PROVE  \A g \in Handler : ItemsRead(handler[g])'
    <3>1. handler'[h] = r /\ \A g \in Handler \ {h} : handler'[g] = handler[g]
      BY <2>2, OthersKeep
    <3>2. ItemsRead(handler[h])'
      BY <2>2, <3>1
    <3>. QED
      BY <1>4, <3>1, <3>2
  <2>. QED
    BY <2>1, <2>2, ItemsMoves DEF ItemsMove
<1>6. ASSUME NEW a \in items' \ gone'
      PROVE  /\ commits' > 0 => HasKnownRow(a)' \/ conflicts'[a] # NoConflict
             /\ \A i \in DOMAIN records'[a] : records'[a][i].known
  <2>0. /\ clock \in Nat /\ commits \in Nat
        /\ a \in Asset
    <3>1. Shape'
      BY ShapeStep
    <3>. QED
      BY <3>1 DEF Shape, Scalars
  <2>1. CASE commits > 0 \/ items' = items
    <3>1. items' = items
      BY <1>2, <2>0, <2>1, BeforePublication
    <3>2. a \in items \ gone
      BY <1>2, <3>1
    <3>3. /\ commits > 0 => HasKnownRow(a) \/ conflicts[a] # NoConflict
          /\ \A i \in DOMAIN records[a] : records[a][i].known
      BY <1>1, <3>2 DEF ItemsInv, ItemsAreRecorded
    <3>4. commits > 0 => HasKnownRow(a)' \/ conflicts'[a] # NoConflict
      BY <2>0, <3>3, TablesOnward DEF HasKnownRow, SameRow
    <3>5. CASE records' = records /\ commits' = commits
      BY <2>0, <3>3, <3>4, <3>5
    <3>6. ASSUME NEW h \in Handler, ArchiveTask(h)
          PROVE  /\ commits = 0 => HasKnownRow(a)' \/ conflicts'[a] # NoConflict
                 /\ \A i \in DOMAIN records'[a] : records'[a][i].known
      <4>1. PICK o :
           /\ o = handler[h] /\ o.pc = "records" /\ Carries(o)
           /\ records' = [b \in Asset |-> records'[b]] /\ DOMAIN conflicts' = Asset
           /\ \A b \in Asset :
                /\ Inserted(b, o.rows[b])
                /\ \/ o.candidates[b] = {} /\ conflicts'[b] = conflicts[b]
                   \/ /\ o.candidates[b] # {} /\ conflicts[b] = NoConflict
                      /\ conflicts'[b] = [pending |-> TRUE, candidates |-> o.candidates[b]]
           /\ cut' = IF commits = 0 THEN o.read ELSE cut
           /\ \/ Continue(h, Idle)
              \/ Continue(h, [pc |-> "compare"]) /\ \A b \in Asset : o.candidates[b] = {}
        BY <3>6, ArchiveTaskEffect
      <4>2. /\ o.rows[a] # NoRow => o.rows[a].known
            /\ o.rows[a] # NoRow \/ o.candidates[a] # {}
        BY <1>3, <3>2, <4>1 DEF ItemsRead
      <4>4. ASSUME o.rows[a] # NoRow, commits = 0
            PROVE  HasKnownRow(a)'
        <5>1. PICK row \in Row : row = o.rows[a]
          BY <2>0, <4>1, <4>4 DEF Carries, Fresh
        <5>2. ~HasKnownRow(a)
          BY <2>0, <4>4, BeforeArchive
        <5>3. records'[a] = Append(records[a], row)
          BY <2>0, <4>1, <4>4, <5>1, <5>2 DEF Inserted
        <5>4. Added(records'[a], a, row)
          BY <2>0, <5>2, <5>3, AddedRow
        <5>. QED
          BY <4>2, <4>4, <5>1, <5>4 DEF Added, HasKnownRow
      <4>5. ASSUME records'[a] # records[a]
            PROVE  \A i \in DOMAIN records'[a] : records'[a][i].known
        <5>1. PICK row \in Row : /\ records'[a] = Append(records[a], row)
                                 /\ row.known => ~HasKnownRow(a)
                                 /\ row.known
          BY <2>0, <4>1, <4>2, <4>5 DEF Inserted, Carries, Fresh
        <5>2. Added(records'[a], a, row)
          BY <2>0, <5>1, AddedRow
        <5>. QED
          BY <3>3, <5>1, <5>2 DEF Added
      <4>6. commits = 0 => HasKnownRow(a)' \/ conflicts'[a] # NoConflict
        <5>1. CASE o.candidates[a] # {}
          BY <2>0, <4>1, <5>1 DEF NoConflict
        <5>2. CASE o.rows[a] # NoRow
          BY <4>4, <5>2
        <5>. QED
          BY <4>2, <5>1, <5>2
      <4>7. \A i \in DOMAIN records'[a] : records'[a][i].known
        BY <3>3, <4>5
      <4>. QED
        BY <4>6, <4>7
    <3>7. ASSUME NEW h \in Handler, ResolveCommit(h)
          PROVE  \A i \in DOMAIN records'[a] : records'[a][i].known
      <4>1. PICK o, r :
           /\ o = handler[h] /\ o.pc = "commit" /\ Carries(o)
           /\ o.asset \in Asset /\ o.row \in Row /\ o.row.diff = Undecided /\ o.row.scanned
           /\ conflicts[o.asset] \in PendingConflict
           /\ records' = [records EXCEPT ![o.asset] = Upsert(o.asset, o.row)]
           /\ conflicts' = [conflicts EXCEPT ![o.asset] =
                              [pending |-> FALSE, candidates |-> conflicts[o.asset].candidates,
                               operator |-> o.row.operator, location |-> o.row.location]]
           /\ Continue(h, r)
           /\ r = Idle \/ (r = [pc |-> "compare"] /\ o.all)
        BY <3>7, ResolveCommitEffect
      <4>2. CASE a # o.asset
        <5>1. records'[a] = records[a]
          BY <2>0, <4>1, <4>2 DEF Shape, RecordsShape
        <5>. QED
          BY <3>3, <5>1
      <4>3. CASE a = o.asset
        <5>1. o.row.known
          BY <1>3, <3>2, <4>1, <4>3 DEF ItemsRead
        <5>2. PICK row \in Row : row = o.row /\ row.known
          BY <4>1, <5>1
        <5>3. PICK s : s = Upsert(a, row)
          OBVIOUS
        <5>4. Upserted(s, a, row)
          BY <2>0, <5>3, UpsertFacts
        <5>5. PICK n \in DOMAIN s :
                /\ s[n] = row
                /\ \A i \in DOMAIN s \ {n} : i \in DOMAIN records[a] /\ s[i] = records[a][i]
          BY <5>4 DEF Upserted
        <5>6. records'[a] = s
          BY <2>0, <4>1, <4>3, <5>2, <5>3 DEF Shape, RecordsShape
        <5>. QED
          BY <3>3, <5>2, <5>5, <5>6
      <4>. QED
        BY <4>2, <4>3
    <3>8. ASSUME NEW h \in Handler, NEW t, Decides(h, t)
          PROVE  \A i \in DOMAIN records'[a] : records'[a][i].known
      <4>1. PICK o, s, todo, diff :
           /\ o = handler[h] /\ o.pc = "run" /\ Carries(o) /\ t \in o.todo
           /\ t.asset \in Asset /\ t.index \in DOMAIN records[t.asset] /\ t.row \in Row
           /\ DecidedAt(s, t.asset, t.index, diff) /\ Rightly(t, diff)
           /\ diff \in Match .. Loss
           /\ records' = [records EXCEPT ![t.asset] = s]
           /\ todo = o.todo \ {t}
           /\ Continue(h, [pc |-> "run", todo |-> todo])
        BY <3>8, RunRowEffect
      <4>2. CASE a = t.asset
        <5>1. records'[a] = s
          BY <2>0, <4>1, <4>2 DEF Shape, RecordsShape
        <5>. QED
          BY <3>3, <4>1, <4>2, <5>1 DEF DecidedAt
      <4>3. CASE a # t.asset
        <5>1. records'[a] = records[a]
          BY <2>0, <4>1, <4>3 DEF Shape, RecordsShape
        <5>. QED
          BY <3>3, <5>1
      <4>. QED
        BY <4>2, <4>3
    <3>. QED
      BY <2>0, <3>4, <3>5, <3>6, <3>7, <3>8, TableCases
  <2>2. CASE commits = 0 /\ items' # items
    <3>1. status = Unpublished
      BY <1>2, <2>2
    <3>2. \A g \in Handler : handler[g].pc \notin {"records", "commit", "run"}
      BY <2>2, <3>1, BeforeArchive, BeforePublication
    <3>3. records' = records /\ commits' = commits
      BY <3>2, TableCases DEF ArchiveTask, ResolveCommit, Decides, RunRow, RunRowOnError, Decide, At
    <3>. QED
      BY <2>0, <2>2, <3>3, BeforeArchive
  <2>. QED
    BY <2>0, <2>1, <2>2
<1>. QED
  BY <1>5, <1>6 DEF ItemsAreRecorded

\* Archive and ResolveConflict: every item of the task has a row, known to the book,
\* or a conflict once an archive has committed, and is never booked as surplus, unless
\* the items changed after the publication or asset-rpc did not answer.
THEOREM ItemsAreRecordedHolds == InvSpec => []ItemsAreRecorded
<1>1. InvInit => ItemsInv
  BY DEF InvInit, ItemsInv, ItemsAreRecorded, ItemsRead, Idle
<1>2. Shape /\ ItemsInv /\ [InvNext]_invVars => ItemsInv'
  BY ItemsInvStep
<1>3. ItemsInv => ItemsAreRecorded
  BY DEF ItemsInv
<1>. QED
  BY <1>1, <1>2, <1>3, ShapeHolds, PTL DEF InvSpec
-------------------------------------------------------------------------------
(***************************************************************************)
(* The status                                                              *)
(***************************************************************************)
\* PublishTask, ArchiveTaskWithConflicts, Run: the status goes back only where two
\* archives overlapped and the later one committed after a comparison, for any
\* number of requests.
THEOREM BackOnlyByOverlapHolds == InvSpec => BackOnlyByOverlap
<1>1. Shape /\ [InvNext]_invVars => [status' < status => commits' > 1]_invVars
  <2>. SUFFICES ASSUME Shape, [InvNext]_invVars, status' < status
                PROVE  commits' > 1
    OBVIOUS
  <2>1. commits \in Nat /\ status \in NoTask .. Compared
    BY DEF Shape, Scalars
  <2>2. ~Inert
    BY <2>1 DEF Inert, NoTask, Compared, Unpublished, Running
  <2>3. ASSUME NEW h \in Handler, ArchiveTask(h)
        PROVE  commits' > 1
    <3>1. status' = Archived /\ commits' = commits + 1
      BY <2>3 DEF ArchiveTask
    <3>2. status \in Archived .. Compared
      BY <2>1, <3>1 DEF Archived, Compared, NoTask
    <3>3. commits > 0
      BY <3>2, StageFacts
    <3>. QED
      BY <2>1, <3>1, <3>3
  <2>4. ASSUME NEW h \in Handler, RunRead(h) \/ RunFinish(h)
        PROVE  status' = status \/ status' = Compared
    BY <2>4 DEF RunRead, RunFinish
  <2>5. ASSUME NEW h \in Handler,
               \/ \E a \in Asset : WriteDraft(h, a) \/ ResolveConflict(h, a)
               \/ ArchiveRead(h) \/ ResolveTx(h) \/ ResolveCommit(h) \/ Compare(h)
               \/ \E t : Decides(h, t) \/ RunRowFails(h, t)
        PROVE  status' = status
    BY <2>5 DEF WriteDraft, ResolveConflict, ArchiveRead, ResolveTx, ResolveCommit, Compare, Decides, RunRow, RunRowOnError, Decide,
       RunRowFails, task
  <2>6. ~(status < status) /\ ~(Compared < status)
    BY <2>1 DEF NoTask, Compared
  <2>. QED
    BY <2>2, <2>3, <2>4, <2>5, <2>6, StepCases
<1>. QED
  BY <1>1, ShapeHolds, PTL DEF InvSpec, BackOnlyByOverlap

-------------------------------------------------------------------------------
(***************************************************************************)
(* A comparison is complete                                                *)
(***************************************************************************)
LEMMA NothingWaits ==
  (\A t \in UndecidedRows : t.asset \in spoiled) <=> \A a \in Asset : \A i : ~Waiting(a, i)
<1>1. ASSUME \A t \in UndecidedRows : t.asset \in spoiled, NEW a \in Asset, NEW i, Waiting(a, i)
      PROVE  FALSE
  <2>1. PICK t : t = [asset |-> a, index |-> i, row |-> records[a][i]]
    OBVIOUS
  <2>2. t \in UndecidedRows
    BY <1>1, <2>1, UndecidedFacts DEF Waiting
  <2>. QED
    BY <1>1, <2>1, <2>2 DEF Waiting
<1>2. ASSUME \A a \in Asset : \A i : ~Waiting(a, i), NEW t \in UndecidedRows
      PROVE  t.asset \in spoiled
  <2>1. PICK a \in Asset : \E i \in DOMAIN records[a] :
          /\ t = [asset |-> a, index |-> i, row |-> records[a][i]]
          /\ records[a][i].diff = Undecided
    BY UndecidedFacts
  <2>. QED
    BY <1>2, <2>1 DEF Waiting
<1>. QED
  BY <1>1, <1>2

\* The steps that leave something undone, or two things at once.
LEMMA LapseCases ==
  ASSUME [InvNext]_invVars
  PROVE  \/ UNCHANGED lapses
         \/ \E h \in Handler : ResolveTx(h) \/ \E t : Decides(h, t) \/ RunRowFails(h, t)
<1>1. CASE CreateTask \/ PublishTask \/ (\E a \in Asset : AssetDeleted(a)) \/ UNCHANGED invVars
  BY <1>1 DEF CreateTask, PublishTask, AssetDeleted, counters, lapses, invVars
<1>2. ASSUME NEW h \in Handler,
             \/ UpdateTaskItems(h) \/ ReplaceTaskItems(h) \/ Submit(h) \/ Archive(h) \/ Compare(h)
             \/ ArchiveRead(h) \/ ArchiveTask(h) \/ ArchiveFails(h) \/ Abort(h)
             \/ AlreadyResolved(h) \/ ResolveCommit(h) \/ RunRead(h) \/ RunFinish(h)
             \/ \E a \in Asset : WriteDraft(h, a) \/ ResolveConflict(h, a)
      PROVE  UNCHANGED lapses
  BY <1>2 DEF UpdateTaskItems, ReplaceTaskItems, Submit, Archive, Compare, ArchiveRead, ArchiveTask,
     ArchiveFails, Abort, AlreadyResolved, ResolveCommit, RunRead, RunFinish, WriteDraft,
     ResolveConflict, counters
<1>. QED
  BY <1>1, <1>2 DEF InvNext, HandlerStep, Decides

\* What the comparison passes over is never forgotten.
LEMMA SpoiledStays ==
  ASSUME [InvNext]_invVars
  PROVE  spoiled \subseteq spoiled'
<1>1. ASSUME NEW h \in Handler, ResolveTx(h)
      PROVE  spoiled' = spoiled
  BY <1>1 DEF ResolveTx
<1>2. ASSUME NEW h \in Handler, NEW t, Decides(h, t) \/ RunRowFails(h, t)
      PROVE  spoiled \subseteq spoiled'
  BY <1>2, DecidesFacts DEF RunRowFails
<1>. QED
  BY <1>1, <1>2, LapseCases DEF lapses

\* The steps that leave the records and the conflicts as they are.
LEMMA SettledPlain ==
  ASSUME Shape, SettlingAll, [InvNext]_invVars, ~Happened({"count"})',
         UNCHANGED <<records, conflicts>>,
         \A h \in Handler : \A t : ~ArchiveTask(h) /\ ~ResolveCommit(h) /\ ~Decides(h, t)
  PROVE  SettlingAll'
<1>1. Pending' = Pending /\ \A a \in Asset : \A i : Waiting(a, i)' => Waiting(a, i)
  BY SpoiledStays DEF Pending, Waiting
<1>2. ASSUME NEW r, Settling(r)
      PROVE  Settling(r)'
  BY <1>1, <1>2 DEF Settling
<1>3. ASSUME NEW h \in Handler, NEW r, Continue(h, r), Settling(r)
      PROVE  \A g \in Handler : Settling(handler[g])'
  <2>1. handler'[h] = r /\ \A g \in Handler \ {h} : handler'[g] = handler[g]
    BY <1>3, OthersKeep
  <2>2. ASSUME NEW g \in Handler
        PROVE  Settling(handler[g])'
    <3>1. PICK o : o = handler'[g] /\ Settling(o)
      BY <1>3, <2>1 DEF SettlingAll
    <3>. QED
      BY <1>2, <3>1
  <2>. QED
    BY <2>2
<1>4. ASSUME NEW r, r.pc \notin {"commit", "compare", "run"}
      PROVE  Settling(r)
  BY <1>4 DEF Settling
<1>5. ASSUME Inert
      PROVE  SettlingAll'
  <2>1. status' = Compared => status = Compared
    BY <1>5 DEF Inert, Unpublished, Running, Compared
  <2>2. ASSUME NEW g \in Handler
        PROVE  Settling(handler[g])'
    <3>1. PICK o : o = handler'[g] /\ Settling(o)
      BY <1>4, <1>5 DEF Inert, SettlingAll
    <3>. QED
      BY <1>2, <3>1
  <2>. QED
    BY <1>1, <2>1, <2>2 DEF SettlingAll
<1>6. ASSUME NEW h \in Handler,
             \/ \E a \in Asset : WriteDraft(h, a) \/ ResolveConflict(h, a)
             \/ ArchiveRead(h) \/ ResolveTx(h) \/ Compare(h)
      PROVE  SettlingAll'
  <2>1. status' = status
    BY <1>6 DEF WriteDraft, ResolveConflict, ArchiveRead, ResolveTx, Compare, task
  <2>2. \E r : Continue(h, r) /\ Settling(r)
    <3>1. ASSUME NEW a \in Asset, WriteDraft(h, a)
          PROVE  \E r : Continue(h, r) /\ Settling(r)
      <4>1. PICK e, r : Wrote(h, a, e, r)
        BY <3>1, WriteDraftEffect, Zenon
      <4>2. Continue(h, r) /\ r.pc \notin {"commit", "compare", "run"}
        BY <4>1 DEF Wrote, Idle
      <4>. QED
        BY <1>4, <4>2
    <3>2. ASSUME NEW a \in Asset, ResolveConflict(h, a)
          PROVE  \E r : Continue(h, r) /\ Settling(r)
      <4>1. PICK row : Continue(h, [pc |-> "resolve", asset |-> a, row |-> row])
        BY <3>2 DEF ResolveConflict, Start, Continue
      <4>2. PICK r : r = [pc |-> "resolve", asset |-> a, row |-> row]
        OBVIOUS
      <4>. QED
        BY <1>4, <4>1, <4>2
    <3>3. CASE ArchiveRead(h)
      <4>1. PICK rows, candidates :
              Continue(h, [pc |-> "records", rows |-> rows, candidates |-> candidates, read |-> clock])
        BY <3>3, ArchiveReadEffect, Zenon DEF Computed
      <4>2. PICK r : r = [pc |-> "records", rows |-> rows, candidates |-> candidates, read |-> clock]
        OBVIOUS
      <4>. QED
        BY <1>4, <4>1, <4>2
    <3>4. CASE ResolveTx(h)
      <4>1. PICK o : o = handler[h]
        OBVIOUS
      <4>2. PICK all : all = LastPending(o.asset)
        OBVIOUS
      <4>3. PICK r : r = [pc |-> "commit", asset |-> o.asset, row |-> o.row, all |-> all]
        OBVIOUS
      <4>4. Continue(h, r)
        BY <3>4, <4>1, <4>2, <4>3 DEF ResolveTx
      <4>5. r.pc = "commit" /\ r.asset = o.asset /\ r.all = all
        BY <4>3
      <4>6. r.all => Pending = {r.asset}
        BY <4>2, <4>5 DEF LastPending
      <4>7. Settling(r)
        BY <4>5, <4>6 DEF Settling
      <4>. QED
        BY <4>4, <4>7
    <3>5. CASE Compare(h)
      <4>1. Pending = {}
        BY <3>5 DEF Compare, Incident, Happened
      <4>2. PICK r : r = [pc |-> "compare"]
        OBVIOUS
      <4>3. Continue(h, r)
        BY <3>5, <4>2 DEF Compare, Start, Continue
      <4>4. Settling(r)
        BY <4>1, <4>2 DEF Settling
      <4>. QED
        BY <4>3, <4>4
    <3>. QED
      BY <1>6, <3>1, <3>2, <3>3, <3>4, <3>5
  <2>. QED
    BY <1>1, <1>3, <2>1, <2>2 DEF SettlingAll
<1>7. ASSUME NEW h \in Handler, RunRead(h)
      PROVE  SettlingAll'
  <2>1. Pending = {}
    BY <1>7 DEF RunRead, At, SettlingAll, Settling
  <2>2. CASE UndecidedRows = {}
    <3>1. Continue(h, Idle)
      BY <1>7, <2>2 DEF RunRead, Finish
    <3>2. Settling(Idle)
      BY DEF Settling, Idle
    <3>3. \A a \in Asset : \A i : ~Waiting(a, i)
      BY <2>2, NothingWaits
    <3>. QED
      BY <1>1, <1>3, <2>1, <3>1, <3>2, <3>3 DEF SettlingAll
  <2>3. CASE UndecidedRows # {}
    <3>1. PICK todo : todo = UndecidedRows
      OBVIOUS
    <3>2. PICK r : r = [pc |-> "run", todo |-> todo]
      OBVIOUS
    <3>3. Continue(h, r) /\ status' = status
      BY <1>7, <2>3, <3>1, <3>2 DEF RunRead
    <3>4. ASSUME NEW a \in Asset, NEW i, Waiting(a, i)
          PROVE  \E t \in todo : t.asset = a /\ t.index = i
      <4>1. PICK t : t = [asset |-> a, index |-> i, row |-> records[a][i]]
        OBVIOUS
      <4>2. t \in todo
        BY <3>1, <3>4, <4>1, UndecidedFacts DEF Waiting
      <4>. QED
        BY <4>1, <4>2
    <3>5. Settling(r)
      BY <2>1, <3>2, <3>4 DEF Settling
    <3>. QED
      BY <1>1, <1>3, <3>3, <3>5 DEF SettlingAll
  <2>. QED
    BY <2>2, <2>3
<1>8. ASSUME NEW h \in Handler, RunFinish(h)
      PROVE  SettlingAll'
  <2>1. PICK o : o = handler[h] /\ o.pc = "run" /\ o.todo = {} /\ Settling(o)
    BY <1>8 DEF RunFinish, At, SettlingAll
  <2>2. Pending = {} /\ \A a \in Asset : \A i : ~Waiting(a, i)
    BY <2>1 DEF Settling
  <2>4. Continue(h, Idle)
    BY <1>8 DEF RunFinish, Finish
  <2>5. Settling(Idle)
    BY DEF Settling, Idle
  <2>. QED
    BY <1>1, <1>3, <2>2, <2>4, <2>5 DEF SettlingAll
<1>9. ASSUME NEW h \in Handler, NEW t, RunRowFails(h, t)
      PROVE  SettlingAll'
  <2>1. PICK o, todo :
           /\ o = handler[h] /\ o.pc = "run" /\ Carries(o) /\ t \in o.todo
           /\ todo = o.todo \ {t}
           /\ Continue(h, [pc |-> "run", todo |-> todo])
    BY <1>9, RunRowFailsEffect
  <2>2. PICK r : r = [pc |-> "run", todo |-> todo]
    OBVIOUS
  <2>3. Settling(o)' /\ status' = status /\ spoiled' = spoiled \cup {t.asset}
    BY <1>2, <1>9, <2>1 DEF SettlingAll, RunRowFails, task
  <2>4. Settling(r)'
    <3>1. ASSUME NEW a \in Asset, NEW i, Waiting(a, i)'
          PROVE  \E x \in todo : x.asset = a /\ x.index = i
      <4>1. PICK x \in o.todo : x.asset = a /\ x.index = i
        BY <2>1, <2>3, <3>1 DEF Settling
      <4>2. x # t
        BY <2>3, <3>1, <4>1 DEF Waiting
      <4>. QED
        BY <2>1, <4>1, <4>2
    <3>. QED
      BY <2>1, <2>2, <2>3, <3>1 DEF Settling
  <2>5. ASSUME NEW g \in Handler \ {h}
        PROVE  Settling(handler[g])'
    <3>1. PICK p : p = handler[g] /\ Settling(p)
      BY DEF SettlingAll
    <3>2. Settling(p)' /\ handler'[g] = p
      BY <1>2, <2>1, <3>1, OthersKeep
    <3>. QED
      BY <3>2
  <2>6. Settling(handler[h])'
    <3>1. handler'[h] = r
      BY <2>1, <2>2, OthersKeep
    <3>. QED
      BY <2>4, <3>1
  <2>. QED
    BY <1>1, <2>3, <2>5, <2>6 DEF SettlingAll
<1>. QED
  BY <1>5, <1>6, <1>7, <1>8, <1>9, StepCases

LEMMA SettledArchive ==
  ASSUME Shape, SettlingAll, NEW h \in Handler, ArchiveTask(h), commits = 0
  PROVE  SettlingAll'
<1>1. PICK o :
         /\ o = handler[h] /\ o.pc = "records" /\ Carries(o)
         /\ records' = [b \in Asset |-> records'[b]] /\ DOMAIN conflicts' = Asset
         /\ \A b \in Asset :
              /\ Inserted(b, o.rows[b])
              /\ \/ o.candidates[b] = {} /\ conflicts'[b] = conflicts[b]
                 \/ /\ o.candidates[b] # {} /\ conflicts[b] = NoConflict
                    /\ conflicts'[b] = [pending |-> TRUE, candidates |-> o.candidates[b]]
         /\ cut' = IF commits = 0 THEN o.read ELSE cut
         /\ \/ Continue(h, Idle)
            \/ Continue(h, [pc |-> "compare"]) /\ \A b \in Asset : o.candidates[b] = {}
  BY ArchiveTaskEffect
<1>2. status' # Compared
  BY DEF ArchiveTask, Archived, Compared
<1>3. Pending = {} /\ \A g \in Handler : handler[g].pc \notin {"resolve", "commit", "compare", "run"}
  BY BeforeArchive
<1>4. ASSUME NEW r, r.pc \notin {"commit", "compare", "run"}
      PROVE  Settling(r)'
  BY <1>4 DEF Settling
<1>5. PICK r : /\ Continue(h, r)
               /\ r = Idle \/ (r = [pc |-> "compare"] /\ \A b \in Asset : o.candidates[b] = {})
  BY <1>1
<1>6. CASE r = Idle
  BY <1>2, <1>3, <1>4, <1>5, <1>6, OthersKeep DEF SettlingAll, Idle
<1>7. CASE r = [pc |-> "compare"] /\ \A b \in Asset : o.candidates[b] = {}
  <2>1. Pending' = {}
    BY <1>1, <1>3, <1>7 DEF Pending
  <2>2. Settling(r)'
    BY <1>7, <2>1 DEF Settling
  <2>. QED
    BY <1>2, <1>3, <1>4, <1>5, <2>2, OthersKeep DEF SettlingAll
<1>. QED
  BY <1>5, <1>6, <1>7

LEMMA SettledResolve ==
  ASSUME Shape, SettlingAll, NEW h \in Handler, ResolveCommit(h)
  PROVE  SettlingAll'
<1>1. PICK o, r :
         /\ o = handler[h] /\ o.pc = "commit" /\ Carries(o)
         /\ o.asset \in Asset /\ o.row \in Row /\ o.row.diff = Undecided /\ o.row.scanned
         /\ conflicts[o.asset] \in PendingConflict
         /\ records' = [records EXCEPT ![o.asset] = Upsert(o.asset, o.row)]
         /\ conflicts' = [conflicts EXCEPT ![o.asset] =
                            [pending |-> FALSE, candidates |-> conflicts[o.asset].candidates,
                             operator |-> o.row.operator, location |-> o.row.location]]
         /\ Continue(h, r)
         /\ r = Idle \/ (r = [pc |-> "compare"] /\ o.all)
  BY ResolveCommitEffect
<1>2. PICK a \in Asset : a = o.asset
  BY <1>1
<1>3. a \in Pending
  <2>1. conflicts[a].pending
    BY <1>1, <1>2, ConflictFacts
  <2>. QED
    BY <2>1 DEF Pending
<1>4. Pending' = Pending \ {a}
  <2>1. /\ ~conflicts'[a].pending
        /\ \A b \in Asset \ {a} : conflicts'[b] = conflicts[b]
    BY <1>1, <1>2 DEF Shape, ConflictsShape
  <2>. QED
    BY <2>1 DEF Pending
<1>5. status' # Compared
  BY <1>3 DEF SettlingAll, ResolveCommit, task
<1>6. ASSUME NEW g \in Handler \ {h}
      PROVE  Settling(handler[g])'
  <2>1. PICK p : p = handler[g] /\ Settling(p)
    BY DEF SettlingAll
  <2>2. p.pc \notin {"compare", "run"}
    BY <1>3, <2>1 DEF Settling
  <2>3. ~(p.pc = "commit" /\ p.all)
    <3>1. SUFFICES ASSUME p.pc = "commit", p.all
                   PROVE  FALSE
      OBVIOUS
    <3>2. p.asset = a
      BY <1>3, <2>1, <3>1 DEF Settling
    <3>. QED
      BY <1>1, <1>2, <2>1, <3>1, <3>2 DEF Shape, OneCommit, At
  <2>4. Settling(p)'
    BY <2>2, <2>3 DEF Settling
  <2>5. handler'[g] = p
    BY <1>1, <2>1, OthersKeep
  <2>. QED
    BY <2>4, <2>5
<1>7. Settling(r)'
  <2>1. CASE r = Idle
    BY <2>1 DEF Settling, Idle
  <2>2. CASE r = [pc |-> "compare"] /\ o.all
    <3>1. Pending = {a}
      BY <1>1, <1>2, <2>2 DEF SettlingAll, Settling
    <3>. QED
      BY <1>4, <2>2, <3>1 DEF Settling
  <2>. QED
    BY <1>1, <2>1, <2>2
<1>8. Settling(handler[h])'
  BY <1>1, <1>7, OthersKeep
<1>. QED
  BY <1>5, <1>6, <1>8 DEF SettlingAll

LEMMA SettledRow ==
  ASSUME Shape, SettlingAll, NEW h \in Handler, NEW t, Decides(h, t)
  PROVE  SettlingAll'
<1>1. PICK o, s, todo, diff :
         /\ o = handler[h] /\ o.pc = "run" /\ Carries(o) /\ t \in o.todo
         /\ t.asset \in Asset /\ t.index \in DOMAIN records[t.asset] /\ t.row \in Row
         /\ DecidedAt(s, t.asset, t.index, diff) /\ Rightly(t, diff)
         /\ diff \in Match .. Loss
         /\ records' = [records EXCEPT ![t.asset] = s]
         /\ todo = o.todo \ {t}
         /\ Continue(h, [pc |-> "run", todo |-> todo])
  BY RunRowEffect
<1>0. spoiled \subseteq spoiled'
  BY DecidesFacts
<1>2. ASSUME NEW a \in Asset, NEW i, Waiting(a, i)'
      PROVE  Waiting(a, i) /\ ~(a = t.asset /\ i = t.index)
  <2>1. CASE a # t.asset
    BY <1>0, <1>1, <1>2, <2>1 DEF Waiting, Shape, RecordsShape
  <2>2. CASE a = t.asset
    <3>1. records'[a] = s
      BY <1>1, <2>2 DEF Shape, RecordsShape
    <3>2. diff # Undecided
      BY <1>1 DEF Match, Loss, Undecided
    <3>. QED
      BY <1>0, <1>1, <1>2, <2>2, <3>1, <3>2 DEF Waiting, DecidedAt
  <2>. QED
    BY <2>1, <2>2
<1>3. Pending' = Pending /\ status' = status
  BY DecidesFacts DEF Pending, task
<1>4. (\A a \in Asset : \A i : ~Waiting(a, i)) => \A a \in Asset : \A i : ~Waiting(a, i)'
  BY <1>2
<1>5. ASSUME NEW g \in Handler \ {h}
      PROVE  Settling(handler[g])'
  <2>1. PICK p : p = handler[g] /\ Settling(p)
    BY DEF SettlingAll
  <2>2. Settling(p)'
    BY <1>2, <1>3, <2>1 DEF Settling
  <2>3. handler'[g] = p
    BY <1>1, <2>1, OthersKeep
  <2>. QED
    BY <2>2, <2>3
<1>6. Settling(handler[h])'
  <2>1. PICK r : r = [pc |-> "run", todo |-> todo]
    OBVIOUS
  <2>2. Settling(o)
    BY <1>1 DEF SettlingAll
  <2>3. ASSUME NEW a \in Asset, NEW i, Waiting(a, i)'
        PROVE  \E x \in todo : x.asset = a /\ x.index = i
    <3>1. PICK x \in o.todo : x.asset = a /\ x.index = i
      BY <1>1, <1>2, <2>2, <2>3 DEF Settling
    <3>. QED
      BY <1>1, <1>2, <2>3, <3>1
  <2>4. Settling(r)'
    BY <1>1, <1>3, <2>1, <2>2, <2>3 DEF Settling
  <2>5. handler'[h] = r
    BY <1>1, <2>1, OthersKeep
  <2>. QED
    BY <2>4, <2>5
<1>. QED
  BY <1>3, <1>4, <1>5, <1>6 DEF SettlingAll

LEMMA SettledInvStep ==
  ASSUME Shape, SettledInv, [InvNext]_invVars
  PROVE  SettledInv'
<1>. SUFFICES ASSUME Once', ~Happened({"count"})'
              PROVE  SettlingAll'
  BY DEF SettledInv
<1>1. commits \in Nat
  BY DEF Shape, Scalars
<1>2. \A h \in Handler : ArchiveTask(h) => commits = 0
  BY <1>1 DEF ArchiveTask, Once
<1>3. commits' = commits \/ commits = 0
  BY <1>2, TableCases
<1>4. Once /\ ~Happened({"count"})
  BY <1>1, <1>3, TaskOnward DEF Once, Happened
<1>5. SettlingAll
  BY <1>4 DEF SettledInv
<1>6. ASSUME NEW h \in Handler, ArchiveTask(h)
      PROVE  SettlingAll'
  BY <1>2, <1>5, <1>6, SettledArchive
<1>7. ASSUME NEW h \in Handler, ResolveCommit(h)
      PROVE  SettlingAll'
  BY <1>5, <1>7, SettledResolve
<1>8. ASSUME NEW h \in Handler, NEW t, Decides(h, t)
      PROVE  SettlingAll'
  BY <1>5, <1>8, SettledRow
<1>9. ASSUME \A h \in Handler : \A t : ~ArchiveTask(h) /\ ~ResolveCommit(h) /\ ~Decides(h, t)
      PROVE  SettlingAll'
  <2>1. UNCHANGED <<records, conflicts>>
    BY <1>9, TableCases
  <2>. QED
    BY <1>5, <1>9, <2>1, SettledPlain
<1>. QED
  BY <1>6, <1>7, <1>8, <1>9

\* inventorycmp.Run sets the status without looking at the conflicts or at the rows:
\* in a task archived once, a compared task still has no conflict pending, unless the
\* count of conflicts failed, and no row undecided but those of the assets that a
\* comparison passed over; LastPending starts the comparison at the right time, for any
\* number of resolutions at once.
THEOREM ComparedIsSettledHolds == InvSpec => []ComparedIsSettled
<1>1. InvInit => SettledInv
  BY DEF InvInit, SettledInv, SettlingAll, Settling, Idle, NoTask, Compared
<1>2. Shape /\ SettledInv /\ [InvNext]_invVars => SettledInv'
  BY SettledInvStep
<1>3. SettledInv => ComparedIsSettled
  BY NothingWaits DEF SettledInv, SettlingAll, ComparedIsSettled
<1>. QED
  BY <1>1, <1>2, <1>3, ShapeHolds, PTL DEF InvSpec
-------------------------------------------------------------------------------
(***************************************************************************)
(* A comparison is under way                                               *)
(***************************************************************************)
Comparing(r) == r.pc \in {"compare", "run"}

\* No two resolutions are in their transactions, and one that was not the last
\* leaves another conflict to resolve.
UnderWay ==
  /\ status = Archived /\ Pending = {} => \E h \in Handler : Comparing(handler[h])
  /\ \A g, h \in Handler : At(g, "commit") /\ At(h, "commit") => g = h
  /\ \A h \in Handler : At(h, "commit") /\ ~handler[h].all => Pending \ {handler[h].asset} # {}

UnderWayInv == Happened({"abort"}) \/ overlapped \/ UnderWay

\* The steps that start no resolution and end neither a resolution nor a comparison.
Onlooking ==
  /\ conflicts' = conflicts /\ (status' = status \/ status' # Archived)
  /\ \A g \in Handler :
       \/ handler'[g] = handler[g]
       \/ ~Comparing(handler[g]) /\ handler[g].pc # "commit" /\ handler'[g].pc # "commit"

LEMMA OnlookingRequest ==
  ASSUME Shape, NEW h \in Handler, NEW r, Continue(h, r), r.pc # "commit",
         handler[h].pc \notin {"compare", "run", "commit"}, conflicts' = conflicts, status' = status
  PROVE  Onlooking
<1>1. handler'[h] = r /\ \A g \in Handler \ {h} : handler'[g] = handler[g]
  BY OthersKeep
<1>. QED
  BY <1>1 DEF Onlooking, Comparing

LEMMA OnlookingCases ==
  ASSUME Shape, [InvNext]_invVars
  PROVE  \/ Onlooking \/ Happened({"abort"})'
         \/ \E h \in Handler :
              \/ ResolveTx(h) \/ ResolveCommit(h) \/ ArchiveTask(h) \/ RunRead(h) \/ RunFinish(h)
              \/ \E t : Decides(h, t) \/ RunRowFails(h, t)
<1>1. CASE CreateTask \/ PublishTask \/ (\E a \in Asset : AssetDeleted(a)) \/ UNCHANGED invVars
  BY <1>1 DEF CreateTask, PublishTask, AssetDeleted, Onlooking, task, tables, invVars, Unpublished,
     Running, Archived
<1>2. ASSUME NEW h \in Handler,
             \/ UpdateTaskItems(h) \/ ReplaceTaskItems(h) \/ Submit(h) \/ Archive(h)
             \/ ArchiveFails(h) \/ AlreadyResolved(h)
      PROVE  Onlooking
  <2>1. handler[h].pc \notin {"compare", "run", "commit"}
    <3>1. Idle.pc \notin {"compare", "run", "commit"}
      BY DEF Idle
    <3>. QED
      BY <1>2, <3>1 DEF UpdateTaskItems, ReplaceTaskItems, Submit, Archive, ArchiveFails,
         AlreadyResolved, Start, At
  <2>2. UNCHANGED <<conflicts, status>>
    BY <1>2 DEF UpdateTaskItems, ReplaceTaskItems, Submit, Archive, ArchiveFails, AlreadyResolved,
       task, tables
  <2>3. \E r : Continue(h, r) /\ r.pc # "commit"
    <3>1. CASE UpdateTaskItems(h)
      <4>1. PICK chosen : Continue(h, [pc |-> "items", chosen |-> chosen])
        BY <3>1 DEF UpdateTaskItems, Start, Continue
      <4>2. PICK r : r = [pc |-> "items", chosen |-> chosen]
        OBVIOUS
      <4>. QED
        BY <4>1, <4>2
    <3>2. CASE Submit(h)
      <4>1. PICK u, todo : Continue(h, [pc |-> "submit", operator |-> u, todo |-> todo])
        BY <3>2 DEF Submit, Start, Continue
      <4>2. PICK r : r = [pc |-> "submit", operator |-> u, todo |-> todo]
        OBVIOUS
      <4>. QED
        BY <4>1, <4>2
    <3>3. CASE Archive(h)
      <4>1. Continue(h, [pc |-> "archive"])
        BY <3>3 DEF Archive, Start, Continue
      <4>2. PICK r : r = [pc |-> "archive"]
        OBVIOUS
      <4>3. Continue(h, r) /\ r.pc # "commit"
        BY <4>1, <4>2
      <4>. QED
        BY <4>3
    <3>4. Idle.pc # "commit"
      BY DEF Idle
    <3>5. CASE ReplaceTaskItems(h) \/ ArchiveFails(h) \/ AlreadyResolved(h)
      BY <3>4, <3>5 DEF ReplaceTaskItems, ArchiveFails, AlreadyResolved, Finish
    <3>. QED
      BY <1>2, <3>1, <3>2, <3>3, <3>5
  <2>. QED
    BY <2>1, <2>2, <2>3, OnlookingRequest
<1>3. ASSUME NEW h \in Handler,
             \/ \E a \in Asset : WriteDraft(h, a) \/ ResolveConflict(h, a)
             \/ ArchiveRead(h) \/ Compare(h)
      PROVE  Onlooking
  <2>1. handler[h].pc \notin {"compare", "run", "commit"}
    <3>1. Idle.pc \notin {"compare", "run", "commit"}
      BY DEF Idle
    <3>. QED
      BY <1>3, <3>1 DEF WriteDraft, ResolveConflict, ArchiveRead, Compare, Start, At
  <2>2. UNCHANGED <<conflicts, status>>
    BY <1>3 DEF WriteDraft, ResolveConflict, ArchiveRead, Compare, task, tables
  <2>3. \E r : Continue(h, r) /\ r.pc # "commit"
    <3>1. ASSUME NEW a \in Asset, WriteDraft(h, a)
          PROVE  \E r : Continue(h, r) /\ r.pc # "commit"
      <4>1. PICK e, r : Wrote(h, a, e, r)
        BY <3>1, WriteDraftEffect, Zenon
      <4>2. Continue(h, r) /\ r.pc # "commit"
        BY <4>1 DEF Wrote, Idle
      <4>. QED
        BY <4>2
    <3>2. ASSUME NEW a \in Asset, ResolveConflict(h, a)
          PROVE  \E r : Continue(h, r) /\ r.pc # "commit"
      <4>1. PICK row : Continue(h, [pc |-> "resolve", asset |-> a, row |-> row])
        BY <3>2 DEF ResolveConflict, Start, Continue
      <4>2. PICK r : r = [pc |-> "resolve", asset |-> a, row |-> row]
        OBVIOUS
      <4>. QED
        BY <4>1, <4>2
    <3>3. CASE ArchiveRead(h)
      <4>1. PICK rows, candidates :
              Continue(h, [pc |-> "records", rows |-> rows, candidates |-> candidates, read |-> clock])
        BY <3>3, ArchiveReadEffect, Zenon DEF Computed
      <4>2. PICK r : r = [pc |-> "records", rows |-> rows, candidates |-> candidates, read |-> clock]
        OBVIOUS
      <4>. QED
        BY <4>1, <4>2
    <3>4. CASE Compare(h)
      <4>0. Continue(h, [pc |-> "compare"])
        BY <3>4 DEF Compare, Start, Continue
      <4>1. PICK r : r = [pc |-> "compare"]
        OBVIOUS
      <4>2. Continue(h, r) /\ r.pc # "commit"
        BY <4>0, <4>1
      <4>. QED
        BY <4>2
    <3>. QED
      BY <1>3, <3>1, <3>2, <3>3, <3>4
  <2>. QED
    BY <2>1, <2>2, <2>3, OnlookingRequest
<1>4. ASSUME NEW h \in Handler, Abort(h)
      PROVE  Happened({"abort"})'
  BY <1>4 DEF Abort, Incident, Happened
<1>. QED
  BY <1>1, <1>2, <1>3, <1>4 DEF InvNext, HandlerStep, Decides

LEMMA UnderWayStep ==
  ASSUME Shape, UnderWayInv, [InvNext]_invVars
  PROVE  UnderWayInv'
<1>0. overlapped => overlapped'
  <2>1. \A h \in Handler : ResolveTx(h) => (overlapped => overlapped')
    BY DEF ResolveTx
  <2>2. \A h \in Handler : \A t : Decides(h, t) => overlapped' = overlapped
    BY DecidesFacts
  <2>3. \A h \in Handler : \A t : RunRowFails(h, t) => overlapped' = overlapped
    BY DEF RunRowFails
  <2>. QED
    BY <2>1, <2>2, <2>3, LapseCases DEF lapses
<1>. SUFFICES ASSUME UnderWay, ~Happened({"abort"})', ~overlapped'
              PROVE  UnderWay'
  BY <1>0, TaskOnward DEF UnderWayInv, Happened
<1>1. CASE Onlooking
  <2>1. Pending' = Pending
    BY <1>1 DEF Onlooking, Pending
  <2>2. ASSUME NEW h \in Handler, Comparing(handler[h])
        PROVE  Comparing(handler'[h])
    BY <1>1, <2>2 DEF Onlooking
  <2>3. ASSUME NEW h \in Handler, handler'[h].pc = "commit"
        PROVE  At(h, "commit") /\ handler'[h] = handler[h]
    BY <1>1, <2>3 DEF Onlooking, At
  <2>4. status' = Archived => status = Archived
    BY <1>1 DEF Onlooking
  <2>. QED
    BY <2>1, <2>2, <2>3, <2>4 DEF UnderWay, At, Comparing
<1>2. ASSUME NEW h \in Handler, ResolveTx(h)
      PROVE  UnderWay'
  <2>1. PICK o : o = handler[h] /\ o.pc = "resolve"
    BY <1>2 DEF ResolveTx, At
  <2>2. PICK all : all = LastPending(o.asset)
    OBVIOUS
  <2>3. PICK r : r = [pc |-> "commit", asset |-> o.asset, row |-> o.row, all |-> all]
    OBVIOUS
  <2>4. Continue(h, r) /\ o.asset \in Pending /\ UNCHANGED <<conflicts, status>>
    BY <1>2, <2>1, <2>2, <2>3 DEF ResolveTx, tables, task
  <2>5. handler'[h] = r /\ \A g \in Handler \ {h} : handler'[g] = handler[g]
    BY <2>4, OthersKeep
  <2>6. \A g \in Handler : ~At(g, "commit")
    BY <1>2 DEF ResolveTx
  <2>7. Pending' = Pending
    BY <2>4 DEF Pending
  <2>8. ~all => Pending \ {o.asset} # {}
    BY <2>2, <2>4 DEF LastPending
  <2>9. \A g \in Handler : At(g, "commit")' => g = h
    BY <2>5, <2>6 DEF At
  <2>10. \A g \in Handler : Comparing(handler[g]) => Comparing(handler'[g])
    BY <2>1, <2>5 DEF Comparing
  <2>11. r.all = all /\ r.asset = o.asset
    BY <2>3
  <2>. QED
    BY <2>4, <2>5, <2>7, <2>8, <2>9, <2>10, <2>11 DEF UnderWay, Comparing
<1>3. ASSUME NEW h \in Handler, ResolveCommit(h)
      PROVE  UnderWay'
  <2>1. PICK o, r :
           /\ o = handler[h] /\ o.pc = "commit" /\ Carries(o)
           /\ o.asset \in Asset /\ o.row \in Row /\ o.row.diff = Undecided /\ o.row.scanned
           /\ conflicts[o.asset] \in PendingConflict
           /\ records' = [records EXCEPT ![o.asset] = Upsert(o.asset, o.row)]
           /\ conflicts' = [conflicts EXCEPT ![o.asset] =
                              [pending |-> FALSE, candidates |-> conflicts[o.asset].candidates,
                               operator |-> o.row.operator, location |-> o.row.location]]
           /\ Continue(h, r)
           /\ r = Idle \/ (r = [pc |-> "compare"] /\ o.all)
    BY <1>3, ResolveCommitEffect
  <2>2. handler'[h] = r /\ \A g \in Handler \ {h} : handler'[g] = handler[g]
    BY <2>1, OthersKeep
  <2>3. Pending' = Pending \ {o.asset}
    <3>1. /\ ~conflicts'[o.asset].pending
          /\ \A b \in Asset \ {o.asset} : conflicts'[b] = conflicts[b]
      BY <2>1 DEF Shape, ConflictsShape
    <3>. QED
      BY <2>1, <3>1 DEF Pending
  <2>4. r.pc # "commit"
    BY <2>1 DEF Idle
  <2>5. \A g \in Handler : ~At(g, "commit")'
    BY <2>1, <2>2, <2>4 DEF UnderWay, At
  <2>6. CASE o.all
    <3>1. Continue(h, [pc |-> "compare"])
      BY <1>3, <2>1, <2>6 DEF ResolveCommit
    <3>2. PICK q : q = [pc |-> "compare"]
      OBVIOUS
    <3>3. handler'[h] = q
      BY <3>1, <3>2, OthersKeep
    <3>4. Comparing(handler[h])'
      BY <3>2, <3>3 DEF Comparing
    <3>. QED
      BY <2>5, <3>4 DEF UnderWay
  <2>7. CASE ~o.all
    <3>1. Pending' # {}
      BY <2>1, <2>3, <2>7 DEF UnderWay, At
    <3>. QED
      BY <2>5, <3>1 DEF UnderWay
  <2>. QED
    BY <2>6, <2>7
<1>4. ASSUME NEW h \in Handler, ArchiveTask(h)
      PROVE  UnderWay'
  <2>1. PICK o :
         /\ o = handler[h] /\ o.pc = "records" /\ Carries(o)
         /\ records' = [b \in Asset |-> records'[b]] /\ DOMAIN conflicts' = Asset
         /\ \A b \in Asset :
              /\ Inserted(b, o.rows[b])
              /\ \/ o.candidates[b] = {} /\ conflicts'[b] = conflicts[b]
                 \/ /\ o.candidates[b] # {} /\ conflicts[b] = NoConflict
                    /\ conflicts'[b] = [pending |-> TRUE, candidates |-> o.candidates[b]]
         /\ cut' = IF commits = 0 THEN o.read ELSE cut
         /\ \/ Continue(h, Idle)
            \/ Continue(h, [pc |-> "compare"]) /\ \A b \in Asset : o.candidates[b] = {}
    BY <1>4, ArchiveTaskEffect
  <2>2. Pending \subseteq Pending'
    BY <2>1 DEF Pending, NoConflict
  <2>3. \E r : Continue(h, r) /\ r.pc # "commit"
    BY <1>4, ComparisonStep
  <2>4. \A g \in Handler \ {h} : handler'[g] = handler[g]
    BY <2>3, OthersKeep
  <2>5. handler'[h].pc # "commit"
    BY <2>3, OthersKeep
  <2>6. Pending' = {} => Comparing(handler'[h])
    <3>1. SUFFICES ASSUME Pending' = {}
                   PROVE  Comparing(handler'[h])
      OBVIOUS
    <3>2. Disputed(h) = {}
      <4>1. ASSUME NEW b \in Asset, o.candidates[b] # {}
            PROVE  FALSE
        <5>1. conflicts'[b].pending
          BY <2>1, <4>1
        <5>. QED
          BY <3>1, <5>1 DEF Pending
      <4>. QED
        BY <2>1, <4>1 DEF Disputed
    <3>3. PICK q : q = [pc |-> "compare"]
      OBVIOUS
    <3>4. Continue(h, q)
      BY <1>4, <3>2, <3>3 DEF ArchiveTask
    <3>5. handler'[h] = q
      BY <3>4, OthersKeep
    <3>. QED
      BY <3>3, <3>5 DEF Comparing
  <2>7. \A g \in Handler : At(g, "commit")' => At(g, "commit") /\ handler'[g] = handler[g]
    BY <2>4, <2>5 DEF At
  <2>8. \A g \in Handler : At(g, "commit")' /\ ~handler'[g].all => Pending' \ {handler'[g].asset} # {}
    BY <2>2, <2>7 DEF UnderWay
  <2>. QED
    BY <2>6, <2>7, <2>8 DEF UnderWay
<1>5. ASSUME NEW h \in Handler, RunRead(h) \/ RunFinish(h)
      PROVE  UnderWay'
  <2>1. Pending' = Pending
    BY <1>5 DEF RunRead, RunFinish, Pending, tables
  <2>2. \E r : Continue(h, r) /\ r.pc # "commit"
    BY <1>5, ComparisonStep
  <2>3. /\ handler'[h].pc # "commit"
        /\ \A g \in Handler \ {h} : handler'[g] = handler[g]
    BY <2>2, OthersKeep
  <2>4. status' = Archived => Comparing(handler'[h])
    <3>1. CASE RunRead(h) /\ UndecidedRows # {}
      <4>1. PICK r : r = [pc |-> "run", todo |-> UndecidedRows]
        OBVIOUS
      <4>2. Continue(h, r) /\ r.pc = "run"
        BY <3>1, <4>1 DEF RunRead
      <4>3. handler'[h] = r
        BY <4>2, OthersKeep
      <4>. QED
        BY <4>2, <4>3 DEF Comparing
    <3>2. CASE (RunRead(h) /\ UndecidedRows = {}) \/ RunFinish(h)
      BY <3>2 DEF RunRead, RunFinish, Archived, Compared
    <3>. QED
      BY <1>5, <3>1, <3>2
  <2>5. \A g \in Handler : At(g, "commit")' => At(g, "commit") /\ handler'[g] = handler[g]
    BY <2>3 DEF At
  <2>. QED
    BY <2>1, <2>4, <2>5 DEF UnderWay
<1>6. ASSUME NEW h \in Handler, NEW t, Decides(h, t) \/ RunRowFails(h, t)
      PROVE  UnderWay'
  <2>1. Pending' = Pending
    BY <1>6, DecidesFacts DEF RunRowFails, Pending, tables
  <2>2. PICK todo : Continue(h, [pc |-> "run", todo |-> todo])
    BY <1>6, RunRowEffect, RunRowFailsEffect
  <2>3. PICK r : r = [pc |-> "run", todo |-> todo]
    OBVIOUS
  <2>4. handler'[h] = r /\ \A g \in Handler \ {h} : handler'[g] = handler[g]
    BY <2>2, <2>3, OthersKeep
  <2>5. Comparing(handler'[h]) /\ handler'[h].pc # "commit"
    BY <2>3, <2>4 DEF Comparing
  <2>6. \A g \in Handler : At(g, "commit")' => At(g, "commit") /\ handler'[g] = handler[g]
    BY <2>4, <2>5 DEF At
  <2>. QED
    BY <2>1, <2>5, <2>6 DEF UnderWay
<1>. QED
  BY <1>1, <1>2, <1>3, <1>4, <1>5, <1>6, OnlookingCases

\* ArchiveTask, ResolveConflict, Run: a task archived with nothing to resolve has a
\* comparison under way, for any number of archives, resolutions and comparisons at
\* once, unless a comparison was broken off or two conflicts were resolved in
\* transactions that overlapped.
THEOREM ComparisonIsUnderWayHolds == InvSpec => []ComparisonIsUnderWay
<1>1. InvInit => UnderWayInv
  BY DEF InvInit, UnderWayInv, UnderWay, At, Idle, NoTask, Archived
<1>2. Shape /\ UnderWayInv /\ [InvNext]_invVars => UnderWayInv'
  BY UnderWayStep
<1>3. UnderWayInv => ComparisonIsUnderWay
  BY DEF UnderWayInv, UnderWay, Comparing, ComparisonIsUnderWay, At
<1>. QED
  BY <1>1, <1>2, <1>3, ShapeHolds, PTL DEF InvSpec
-------------------------------------------------------------------------------
(***************************************************************************)
(* How many archives there are                                             *)
(***************************************************************************)
LEMMA BusyStep ==
  ASSUME Shape, NEW h \in Handler, NEW r, Continue(h, r), NEW pc
  PROVE  Busy(pc)' = IF r.pc = pc THEN Busy(pc) \cup {h} ELSE Busy(pc) \ {h}
<1>1. handler'[h] = r /\ \A g \in Handler \ {h} : handler'[g] = handler[g]
  BY OthersKeep
<1>. QED
  BY <1>1 DEF Busy, At

\* A step that concerns no archive.
Aside ==
  /\ UNCHANGED <<submits, started, commits, clock>>
  /\ "again" \in incidents' <=> "again" \in incidents
  /\ \/ UNCHANGED handler
     \/ \E h \in Handler : \E r :
          /\ Continue(h, r)
          /\ handler[h].pc \notin {"archive", "records"} /\ r.pc \notin {"archive", "records"}

LEMMA AsideTask ==
  ASSUME \/ CreateTask \/ PublishTask \/ \E a \in Asset : AssetDeleted(a)
         \/ UNCHANGED invVars
  PROVE  Aside
<1>1. CASE CreateTask
  BY <1>1 DEF CreateTask, Aside, counters
<1>2. CASE PublishTask
  BY <1>2 DEF PublishTask, Aside, counters
<1>3. CASE \E a \in Asset : AssetDeleted(a)
  BY <1>3 DEF AssetDeleted, Aside, Incident, counters
<1>4. CASE UNCHANGED invVars
  BY <1>4 DEF Aside, invVars
<1>. QED
  BY <1>1, <1>2, <1>3, <1>4

LEMMA AsideRequest ==
  ASSUME Shape, NEW h \in Handler,
         \/ UpdateTaskItems(h) \/ ReplaceTaskItems(h)
         \/ \E a \in Asset : WriteDraft(h, a) \/ ResolveConflict(h, a)
         \/ ResolveTx(h) \/ AlreadyResolved(h) \/ ResolveCommit(h)
         \/ Compare(h) \/ RunRead(h) \/ RunFinish(h) \/ Abort(h)
         \/ \E t : Decides(h, t) \/ RunRowFails(h, t)
  PROVE  Aside
<1>1. UNCHANGED <<submits, started, commits, clock>>
  BY DEF UpdateTaskItems, ReplaceTaskItems, WriteDraft, ResolveConflict, ResolveTx, AlreadyResolved,
     ResolveCommit, Compare, RunRead, RunFinish, Abort, Decides, RunRow, RunRowOnError, Decide, RunRowFails, counters
<1>2. "again" \in incidents' <=> "again" \in incidents
  <2>1. CASE UpdateTaskItems(h) \/ \E a \in Asset : WriteDraft(h, a)
    BY <2>1 DEF UpdateTaskItems, WriteDraft
  <2>6. CASE ReplaceTaskItems(h)
    <3>1. incidents' = incidents \/ incidents' = incidents \cup {"late"}
      BY <2>6 DEF ReplaceTaskItems, Incident
    <3>. QED
      BY <3>1
  <2>2. CASE \E a \in Asset : ResolveConflict(h, a)
    BY <2>2 DEF ResolveConflict, Incident
  <2>3. CASE ResolveTx(h) \/ AlreadyResolved(h) \/ ResolveCommit(h)
    BY <2>3 DEF ResolveTx, AlreadyResolved, ResolveCommit
  <2>4. CASE Compare(h) \/ RunRead(h) \/ RunFinish(h) \/ Abort(h)
    BY <2>4 DEF Compare, RunRead, RunFinish, Abort, Incident
  <2>5. CASE \E t : Decides(h, t) \/ RunRowFails(h, t)
    BY <2>5 DEF Decides, RunRow, RunRowOnError, Decide, RunRowFails, Incident
  <2>. QED
    BY <2>1, <2>2, <2>3, <2>4, <2>5, <2>6
<1>3. handler[h].pc \notin {"archive", "records"}
  <2>1. Idle.pc \notin {"archive", "records"}
    BY DEF Idle
  <2>. QED
    BY <2>1 DEF UpdateTaskItems, ReplaceTaskItems, WriteDraft, ResolveConflict, ResolveTx,
       AlreadyResolved, ResolveCommit, Compare, RunRead, RunFinish, Abort, Decides, RunRow, RunRowOnError, Decide, RunRowFails,
       Start, At
<1>4. \E r : Continue(h, r) /\ r.pc \notin {"archive", "records"}
  <2>1. CASE UpdateTaskItems(h)
    <3>1. PICK chosen : Continue(h, [pc |-> "items", chosen |-> chosen])
      BY <2>1 DEF UpdateTaskItems, Start, Continue
    <3>2. PICK r : r = [pc |-> "items", chosen |-> chosen]
      OBVIOUS
    <3>. QED
      BY <3>1, <3>2
  <2>2. CASE ReplaceTaskItems(h) \/ AlreadyResolved(h) \/ Abort(h)
    <3>1. Continue(h, Idle) /\ Idle.pc \notin {"archive", "records"}
      BY <2>2 DEF ReplaceTaskItems, AlreadyResolved, Abort, Finish, Idle
    <3>. QED
      BY <3>1
  <2>3. ASSUME NEW a \in Asset, WriteDraft(h, a)
        PROVE  \E r : Continue(h, r) /\ r.pc \notin {"archive", "records"}
    <3>1. PICK e, r : Wrote(h, a, e, r)
      BY <2>3, WriteDraftEffect, Zenon
    <3>2. Continue(h, r) /\ r.pc \notin {"archive", "records"}
      BY <3>1 DEF Wrote, Idle
    <3>. QED
      BY <3>2
  <2>. QED
    BY <2>1, <2>2, <2>3, LaterStep
<1>. QED
  BY <1>1, <1>2, <1>3, <1>4 DEF Aside

LEMMA CountAside ==
  ASSUME Shape, Count, Aside
  PROVE  Count'
<1>1. Requested' = Requested
  BY DEF Requested, Aside
<1>2. Busy("archive")' = Busy("archive") /\ Busy("records")' = Busy("records")
  <2>1. CASE UNCHANGED handler
    BY <2>1 DEF Busy, At
  <2>2. ASSUME NEW h \in Handler, NEW r, Continue(h, r),
               handler[h].pc \notin {"archive", "records"}, r.pc \notin {"archive", "records"}
        PROVE  Busy("archive")' = Busy("archive") /\ Busy("records")' = Busy("records")
    <3>1. h \notin Busy("archive") /\ h \notin Busy("records")
      BY <2>2 DEF Busy, At
    <3>. QED
      BY <2>2, <3>1, BusyStep
  <2>. QED
    BY <2>1, <2>2 DEF Aside
<1>. QED
  BY <1>1, <1>2 DEF Count, Aside

LEMMA CountStep ==
  ASSUME Shape, Count, [InvNext]_invVars
  PROVE  Count'
<1>1. /\ clock \in Nat /\ submits \in Nat /\ commits \in Nat /\ submits <= clock
      /\ started \in BOOLEAN
  BY BoundAssumption DEF Shape, Scalars, Count
<1>. PICK A, R : A = Busy("archive") /\ R = Busy("records")
  OBVIOUS
<1>2. /\ IsFiniteSet(A) /\ IsFiniteSet(R)
      /\ Cardinality(A) + (clock - submits) <= Requested
      /\ Cardinality(A) + Cardinality(R) + commits <= Requested
  BY DEF Count
<1>3. Cardinality(A) \in Nat /\ Cardinality(R) \in Nat
  BY <1>2, FS_CardinalityType
<1>4. Requested \in 0 .. 2
  BY DEF Requested
<1>5. ASSUME NEW h \in Handler, Submit(h)
      PROVE  Count'
  <2>1. PICK u, todo : Continue(h, [pc |-> "submit", operator |-> u, todo |-> todo]) /\ handler[h] = Idle
    BY <1>5 DEF Submit, Start, Continue
  <2>2. PICK r : r = [pc |-> "submit", operator |-> u, todo |-> todo]
    OBVIOUS
  <2>3. h \notin A /\ h \notin R
    BY <2>1 DEF Busy, At, Idle
  <2>4. Busy("archive")' = A /\ Busy("records")' = R
    BY <2>1, <2>2, <2>3, BusyStep
  <2>5. /\ UNCHANGED <<started, commits, incidents>>
        /\ clock' = clock + 1 /\ submits' = submits + 1
    BY <1>5 DEF Submit
  <2>6. Requested' = Requested
    BY <2>5 DEF Requested
  <2>7. clock' - submits' = clock - submits /\ submits' <= clock'
    BY <1>1, <2>5
  <2>. QED
    BY <1>2, <2>4, <2>5, <2>6, <2>7 DEF Count
<1>6. ASSUME NEW h \in Handler, Archive(h)
      PROVE  Count'
  <2>1. Continue(h, [pc |-> "archive"]) /\ handler[h] = Idle
    BY <1>6 DEF Archive, Start, Continue
  <2>2. PICK r : r = [pc |-> "archive"]
    OBVIOUS
  <2>3. h \notin A /\ h \notin R
    BY <2>1 DEF Busy, At, Idle
  <2>4. Busy("archive")' = A \cup {h} /\ Busy("records")' = R
    BY <2>1, <2>2, <2>3, BusyStep
  <2>5. IsFiniteSet(A \cup {h}) /\ Cardinality(A \cup {h}) = Cardinality(A) + 1
    BY <1>2, <2>3, FS_AddElement
  <2>6. UNCHANGED <<clock, submits, commits>> /\ started'
    BY <1>6 DEF Archive
  <2>7. Requested' = Requested + 1
    <3>1. CASE started
      BY <1>6, <3>1 DEF Archive, Requested, Incident
    <3>2. CASE ~started
      BY <1>6, <3>2 DEF Archive, Requested, Count
    <3>. QED
      BY <3>1, <3>2
  <2>8. /\ Cardinality(A \cup {h}) + (clock - submits) <= Requested + 1
        /\ Cardinality(A \cup {h}) + Cardinality(R) + commits <= Requested + 1
    BY <1>1, <1>2, <1>3, <1>4, <2>5
  <2>. QED
    BY <1>1, <1>2, <2>4, <2>5, <2>6, <2>7, <2>8 DEF Count
<1>7. ASSUME NEW h \in Handler, ArchiveRead(h)
      PROVE  Count'
  <2>0. PICK lost, entries, assigned, expected, rows, candidates :
          /\ Returned(lost, entries, assigned, expected)
          /\ Computed(h, entries, assigned, expected, rows, candidates)
    BY <1>7, ArchiveReadEffect, Zenon
  <2>1. PICK r : r = [pc |-> "records", rows |-> rows, candidates |-> candidates, read |-> clock]
    OBVIOUS
  <2>2. Continue(h, r)
    BY <2>0, <2>1 DEF Computed
  <2>3. h \in A /\ h \notin R
    BY <1>7 DEF ArchiveRead, Busy, At
  <2>4. Busy("archive")' = A \ {h} /\ Busy("records")' = R \cup {h}
    BY <2>1, <2>2, BusyStep
  <2>5. /\ IsFiniteSet(A \ {h}) /\ Cardinality(A \ {h}) = Cardinality(A) - 1
        /\ IsFiniteSet(R \cup {h}) /\ Cardinality(R \cup {h}) = Cardinality(R) + 1
    BY <1>2, <2>3, FS_AddElement, FS_RemoveElement
  <2>6. UNCHANGED <<submits, started, commits>> /\ clock' = clock + 1
    BY <1>7 DEF ArchiveRead
  <2>7. "again" \in incidents' <=> "again" \in incidents
    BY <1>7 DEF ArchiveRead, Incident
  <2>8. Requested' = Requested
    BY <2>6, <2>7 DEF Requested
  <2>9. /\ Cardinality(A \ {h}) + (clock' - submits) <= Requested
        /\ Cardinality(A \ {h}) + Cardinality(R \cup {h}) + commits <= Requested
        /\ submits <= clock'
    BY <1>1, <1>2, <1>3, <1>4, <2>5, <2>6
  <2>. QED
    BY <2>4, <2>5, <2>6, <2>7, <2>8, <2>9 DEF Count
<1>8. ASSUME NEW h \in Handler, ArchiveTask(h) \/ ArchiveFails(h)
      PROVE  Count'
  <2>1. PICK r : Continue(h, r) /\ r.pc \notin {"archive", "records"}
    <3>1. CASE ArchiveTask(h)
      BY <3>1, LaterStep
    <3>2. CASE ArchiveFails(h)
      BY <3>2 DEF ArchiveFails, Finish, Idle
    <3>. QED
      BY <1>8, <3>1, <3>2
  <2>2. h \notin A /\ h \in R
    BY <1>8 DEF ArchiveTask, ArchiveFails, Busy, At
  <2>3. Busy("archive")' = A /\ Busy("records")' = R \ {h}
    BY <2>1, <2>2, BusyStep
  <2>4. IsFiniteSet(R \ {h}) /\ Cardinality(R \ {h}) = Cardinality(R) - 1
    BY <1>2, <2>2, FS_RemoveElement
  <2>5. /\ UNCHANGED <<submits, started, clock, incidents>>
        /\ commits' = commits \/ commits' = commits + 1
    BY <1>8 DEF ArchiveTask, ArchiveFails, counters
  <2>6. Requested' = Requested
    BY <2>5 DEF Requested
  <2>7. Cardinality(A) + Cardinality(R \ {h}) + commits' <= Requested
    BY <1>1, <1>2, <1>3, <1>4, <2>4, <2>5
  <2>. QED
    BY <1>2, <2>3, <2>4, <2>5, <2>6, <2>7 DEF Count
<1>9. ASSUME NEW h \in Handler,
             \/ UpdateTaskItems(h) \/ ReplaceTaskItems(h)
             \/ \E a \in Asset : WriteDraft(h, a) \/ ResolveConflict(h, a)
             \/ ResolveTx(h) \/ AlreadyResolved(h) \/ ResolveCommit(h)
             \/ Compare(h) \/ RunRead(h) \/ RunFinish(h) \/ Abort(h)
             \/ \E t : Decides(h, t) \/ RunRowFails(h, t)
      PROVE  Count'
  BY <1>9, AsideRequest, CountAside
<1>10. ASSUME \/ CreateTask \/ PublishTask \/ \E a \in Asset : AssetDeleted(a)
              \/ UNCHANGED invVars
       PROVE  Count'
  BY <1>10, AsideTask, CountAside
<1>. QED
  BY <1>5, <1>6, <1>7, <1>8, <1>9, <1>10 DEF InvNext, HandlerStep, Decides

LEMMA CountInit == InvInit => Count
<1>. SUFFICES ASSUME InvInit
              PROVE  Count
  OBVIOUS
<1>1. Busy("archive") = {} /\ Busy("records") = {}
  BY DEF InvInit, Busy, At, Idle
<1>2. IsFiniteSet({}) /\ Cardinality({}) = 0
  BY FS_EmptySet
<1>3. clock = 0 /\ submits = 0 /\ commits = 0 /\ incidents = {} /\ Requested = 0
  BY DEF InvInit, Requested
<1>. QED
  BY <1>1, <1>2, <1>3 DEF Count

\* The types of the histories.
Lapses == spoiled \subseteq Asset /\ overlapped \in BOOLEAN

LEMMA LapsesStep ==
  ASSUME Shape, Lapses, [InvNext]_invVars
  PROVE  Lapses'
<1>1. CASE UNCHANGED lapses
  BY <1>1 DEF Lapses, lapses
<1>2. ASSUME NEW h \in Handler, ResolveTx(h)
      PROVE  Lapses'
  <2>1. overlapped' = (overlapped \/ \E g \in Handler : At(g, "commit")) /\ spoiled' = spoiled
    BY <1>2 DEF ResolveTx
  <2>. QED
    BY <2>1 DEF Lapses
<1>3. ASSUME NEW h \in Handler, NEW t, Decides(h, t)
      PROVE  Lapses'
  <2>1. t.asset \in Asset
    BY <1>3, RunRowEffect
  <2>2. spoiled' \subseteq spoiled \cup {t.asset} /\ overlapped' = overlapped
    BY <1>3, DecidesFacts
  <2>. QED
    BY <2>1, <2>2 DEF Lapses
<1>4. ASSUME NEW h \in Handler, NEW t, RunRowFails(h, t)
      PROVE  Lapses'
  <2>1. t.asset \in Asset
    BY <1>4, RunRowFailsEffect DEF Carries
  <2>. QED
    BY <1>4, <2>1 DEF RunRowFails, Lapses
<1>. QED
  BY <1>1, <1>2, <1>3, <1>4, LapseCases

\* Every variable has its type, whatever the number of requests: there are at most two
\* archives, and uk_task_asset keeps one row at most for a known asset, however archives
\* and resolutions overlap; surplus rows pile up only with the archives.
THEOREM InvInvHolds == InvSpec => []InvInv
<1>1. Shape /\ Count /\ Lapses => InvInv
  <2>. SUFFICES ASSUME Shape, Count, Lapses
                PROVE  InvInv
    OBVIOUS
  <2>1. /\ clock \in Nat /\ submits \in Nat /\ commits \in Nat /\ submits <= MaxSubmits
        /\ MaxSubmits \in Nat
    BY BoundAssumption DEF Shape, Scalars
  <2>2. clock \in 0 .. MaxSubmits + 2 /\ commits \in 0 .. 2
    <3>1. /\ Cardinality(Busy("archive")) \in Nat /\ Cardinality(Busy("records")) \in Nat
      BY FS_CardinalityType DEF Count
    <3>2. Requested \in 0 .. 2
      BY DEF Requested
    <3>3. clock - submits <= 2 /\ commits <= 2
      BY <2>1, <3>1, <3>2 DEF Count
    <3>. QED
      BY <2>1, <3>3
  <2>3. ASSUME NEW a \in Asset, NEW e \in drafts[a] \cup conflicts[a].candidates
        PROVE  e.operator \in User /\ e.cells \in Cells /\ e.at \in 1 .. clock
    <3>1. e \in Entry
      BY <2>3, ConflictFacts DEF Shape, DraftsShape
    <3>2. e.at \in 1 .. clock
      BY <2>3 DEF Shape, DraftsShape, ConflictsShape
    <3>. QED
      BY <3>1, <3>2 DEF Entry
  <2>4. InvTypeOK
    BY <2>1, <2>2, <2>3, ConflictFacts DEF InvTypeOK, Lapses, Shape, Scalars, RecordsShape
  <2>5. ASSUME NEW a \in Asset
        PROVE  /\ Cardinality({i \in DOMAIN records[a] : records[a][i].known}) <= 1
               /\ Len(records[a]) <= commits + (IF "operator" \in DOMAIN conflicts[a] THEN 1 ELSE 0)
    <3>1. PICK K : K = {i \in DOMAIN records[a] : records[a][i].known}
      OBVIOUS
    <3>2. \A i, j \in K : i = j
      BY <3>1 DEF Shape, RecordsShape
    <3>3. Cardinality(K) <= 1
      <4>1. CASE K = {}
        BY <4>1, FS_EmptySet
      <4>2. CASE K # {}
        <5>1. PICK i : K = {i}
          BY <3>2, <4>2
        <5>2. Cardinality(K) = 1
          BY <5>1, FS_Singleton
        <5>. QED
          BY <5>2
      <4>. QED
        BY <4>1, <4>2
    <3>4. Len(records[a]) <= commits + (IF "operator" \in DOMAIN conflicts[a] THEN 1 ELSE 0)
      BY ConflictFacts DEF Shape, RecordsShape
    <3>. QED
      BY <3>1, <3>3, <3>4
  <2>6. OneRowPerArchive
    BY <2>5 DEF OneRowPerArchive
  <2>. QED
    BY <2>4, <2>6 DEF InvInv
<1>2. InvInit => Count
  BY CountInit
<1>3. Shape /\ Count /\ [InvNext]_invVars => Count'
  BY CountStep
<1>4. InvInit => Lapses
  BY DEF InvInit, Lapses
<1>5. Shape /\ Lapses /\ [InvNext]_invVars => Lapses'
  BY LapsesStep
<1>. QED
  BY <1>1, <1>2, <1>3, <1>4, <1>5, ShapeHolds, PTL DEF InvSpec
-------------------------------------------------------------------------------
(***************************************************************************)
(* What a consensus is                                                     *)
(***************************************************************************)
LEMMA ImageFinite ==
  ASSUME NEW S, IsFiniteSet(S), NEW f, DOMAIN f = S, f = [x \in S |-> f[x]]
  PROVE  IsFiniteSet({f[x] : x \in S})
<1>. PICK T : T = {f[x] : x \in S}
  OBVIOUS
<1>1. f \in Surjection(S, T)
  <2>1. f \in [S -> T] /\ \A t \in T : \E x \in S : f[x] = t
    OBVIOUS
  <2>. QED
    BY <2>1 DEF Surjection
<1>. QED
  BY <1>1, FS_Surjection

LEMMA TwoMembers ==
  ASSUME NEW S, IsFiniteSet(S), NEW x \in S, NEW y \in S, x # y
  PROVE  Cardinality(S) \in Nat /\ Cardinality(S) >= 2
<1>1. {x, y} \in SUBSET S /\ {x, y} = {x} \cup {y} /\ y \notin {x}
  OBVIOUS
<1>2. Cardinality({x, y}) <= Cardinality(S)
  BY <1>1, FS_Subset
<1>3. IsFiniteSet({x}) /\ Cardinality({x}) = 1
  BY FS_Singleton
<1>4. Cardinality({x, y}) = 1 + 1
  BY <1>1, <1>3, FS_AddElement
<1>5. Cardinality(S) \in Nat
  BY FS_CardinalityType
<1>. QED
  BY <1>2, <1>4, <1>5

\* Where assignees do not disagree, the draft picked is where each of them has it.
LEMMA PickedSpeaksForAll ==
  ASSUME NEW entries, IsFiniteSet(entries), NEW assigned,
         \A e \in entries : e.at \in Nat,
         \A e, f \in entries : e.operator = f.operator => e = f,
         ~HasAssigneeConflict(entries, assigned),
         NEW pick \in PickConsensus(entries, assigned),
         NEW e \in entries, e.operator \in assigned
  PROVE  SameLocation(e.cells.location, pick.cells.location)
<1>. PICK own : own = {x \in entries : x.operator \in assigned}
  OBVIOUS
<1>1. LatestPerOperator(entries) = entries
  <2>1. \A x, y \in entries : y.operator = x.operator => y.at <= x.at
    <3>1. \A x \in entries : x.at <= x.at
      OBVIOUS
    <3>. QED
      BY <3>1
  <2>. QED
    BY <2>1 DEF LatestPerOperator
<1>2. AssigneeEntries(entries, assigned) = own
  BY <1>1 DEF AssigneeEntries
<1>3. IsFiniteSet(own)
  BY FS_Subset
<1>. PICK f : f = [x \in own |-> EntryKey(x)]
  OBVIOUS
<1>. PICK keys : keys = {f[x] : x \in own}
  OBVIOUS
<1>4. IsFiniteSet(keys)
  BY <1>3, ImageFinite
<1>5. keys = {EntryKey(x) : x \in own}
  OBVIOUS
<1>6. ~(Cardinality(own) >= 2 /\ Cardinality(keys) > 1)
  BY <1>2, <1>5 DEF HasAssigneeConflict
<1>7. e \in own /\ pick \in own
  <2>1. e \in own
    OBVIOUS
  <2>2. PickConsensus(entries, assigned) = Newest(own)
    BY <1>2, <2>1 DEF PickConsensus
  <2>. QED
    BY <2>1, <2>2 DEF Newest
<1>8. EntryKey(e) = EntryKey(pick)
  <2>1. SUFFICES ASSUME EntryKey(e) # EntryKey(pick)
                 PROVE  FALSE
    OBVIOUS
  <2>2. e # pick
    BY <2>1
  <2>3. Cardinality(own) >= 2
    BY <1>3, <1>7, <2>2, TwoMembers
  <2>4. EntryKey(e) \in keys /\ EntryKey(pick) \in keys
    BY <1>5, <1>7
  <2>5. Cardinality(keys) \in Nat /\ Cardinality(keys) >= 2
    BY <1>4, <2>1, <2>4, TwoMembers
  <2>. QED
    BY <1>6, <2>3, <2>5
<1>. QED
  BY <1>8 DEF EntryKey, SameLocation

-------------------------------------------------------------------------------
(***************************************************************************)
(* What a difference means                                                 *)
(***************************************************************************)
LEMMA SpeaksForKept ==
  ASSUME NEW row, NEW other, SameRow(row, other), NEW a, NEW by, SpeaksFor(other, a, by),
         Counted(a, by)' \subseteq Counted(a, by), items' = items
  PROVE  SpeaksFor(row, a, by)'
BY DEF SpeaksFor, SameRow

\* What was counted by a time that is past can only be replaced.
LEMMA CountedKept ==
  ASSUME Shape, [InvNext]_invVars, NEW a \in Asset, NEW by \in Nat, by < clock,
         assignees' = assignees
  PROVE  Counted(a, by)' \subseteq Counted(a, by)
<1>1. ASSUME NEW e \in drafts'[a], e.at <= by
      PROVE  e \in drafts[a]
  <2>1. clock \in Nat
    BY DEF Shape, Scalars
  <2>. QED
    BY <1>1, <2>1, DraftsOnward
<1>. QED
  BY <1>1 DEF Counted

\* Where conflicts that are pending have no rows, a row is never replaced.
LEMMA RowsOnward ==
  ASSUME Shape, [InvNext]_invVars, NEW a \in Asset, conflicts[a].pending => records[a] = << >>,
         NEW i \in DOMAIN records[a]
  PROVE  i \in DOMAIN records'[a] /\ SameRow(records'[a][i], records[a][i])
<1>1. ~conflicts[a].pending
  BY DEF Shape
<1>2. ASSUME NEW h \in Handler, ArchiveTask(h)
      PROVE  i \in DOMAIN records'[a] /\ SameRow(records'[a][i], records[a][i])
  <2>1. PICK o : o = handler[h] /\ o.pc = "records" /\ Carries(o) /\ Inserted(a, o.rows[a])
    BY <1>2, ArchiveTaskEffect
  <2>2. CASE records'[a] = records[a]
    BY <2>2, SameRows
  <2>3. CASE records'[a] # records[a]
    <3>1. PICK row \in Row : /\ records'[a] = Append(records[a], row)
                             /\ row.known => ~HasKnownRow(a)
      BY <2>1, <2>3 DEF Inserted, Carries, Fresh
    <3>2. Added(records'[a], a, row)
      BY <3>1, AddedRow
    <3>. QED
      BY <3>2 DEF Added, SameRow
  <2>. QED
    BY <2>2, <2>3
<1>3. ASSUME NEW h \in Handler, ResolveCommit(h)
      PROVE  records'[a] = records[a]
  <2>1. PICK o : /\ o.asset \in Asset /\ conflicts[o.asset] \in PendingConflict
                 /\ records' = [records EXCEPT ![o.asset] = Upsert(o.asset, o.row)]
    BY <1>3, ResolveCommitEffect
  <2>2. o.asset # a
    BY <1>1, <2>1, ConflictFacts
  <2>. QED
    BY <2>1, <2>2 DEF Shape, RecordsShape
<1>4. ASSUME NEW h \in Handler, NEW t, Decides(h, t)
      PROVE  i \in DOMAIN records'[a] /\ SameRow(records'[a][i], records[a][i])
  <2>1. PICK o, s, todo, diff :
           /\ o = handler[h] /\ o.pc = "run" /\ Carries(o) /\ t \in o.todo
           /\ t.asset \in Asset /\ t.index \in DOMAIN records[t.asset] /\ t.row \in Row
           /\ DecidedAt(s, t.asset, t.index, diff) /\ Rightly(t, diff)
           /\ diff \in Match .. Loss
           /\ records' = [records EXCEPT ![t.asset] = s]
           /\ todo = o.todo \ {t}
           /\ Continue(h, [pc |-> "run", todo |-> todo])
    BY <1>4, RunRowEffect
  <2>2. CASE a = t.asset
    BY <2>1, <2>2 DEF Shape, RecordsShape, DecidedAt, SameRow
  <2>3. CASE a # t.asset
    <3>1. records'[a] = records[a]
      BY <2>1, <2>3 DEF Shape, RecordsShape
    <3>. QED
      BY <3>1, SameRows
  <2>. QED
    BY <2>2, <2>3
<1>. QED
  BY <1>2, <1>3, <1>4, SameRows, TableCases

\* What a task has that went by the book so far.
PlainFacts ==
  /\ Plain /\ Plain' /\ gone = {} /\ gone' = {} /\ items' = items /\ assignees' = assignees
  /\ spoiled \subseteq spoiled'
  /\ \A g \in Handler : InHand(handler[g])
  /\ \A a \in Asset : OnRecord(a)

LEMMA InHandKept ==
  ASSUME Shape, [InvNext]_invVars, PlainFacts, NEW r, Carries(r), InHand(r)
  PROVE  InHand(r)'
<1>1. ASSUME r.pc = "records", NEW a \in Asset, r.rows[a] # NoRow
      PROVE  r.candidates[a] = {} /\ SpeaksFor(r.rows[a], a, r.read)'
  <2>1. r.candidates[a] = {} /\ SpeaksFor(r.rows[a], a, r.read)
    BY <1>1 DEF InHand
  <2>2. Counted(a, r.read)' \subseteq Counted(a, r.read)
    BY <1>1, CountedKept DEF Carries, PlainFacts
  <2>3. SameRow(r.rows[a], r.rows[a])
    BY DEF SameRow
  <2>. QED
    BY <2>1, <2>2, <2>3, SpeaksForKept DEF PlainFacts
<1>2. ASSUME r.pc = "run", NEW t \in r.todo
      PROVE  SameRow(t.row, records'[t.asset][t.index])
  <2>1. PICK a \in Asset : \E i \in DOMAIN records[a] : a = t.asset /\ i = t.index
    BY <1>2 DEF Carries
  <2>. PICK i \in DOMAIN records[a] : a = t.asset /\ i = t.index
    BY <2>1
  <2>2. SameRow(t.row, records[a][i])
    BY <1>2, <2>1 DEF InHand
  <2>3. SameRow(records'[a][i], records[a][i])
    BY <2>1, RowsOnward DEF PlainFacts, OnRecord
  <2>. QED
    BY <2>1, <2>2, <2>3 DEF SameRow
<1>3. r.pc \in {"resolve", "commit"} => r.row.known
  BY DEF InHand
<1>. QED
  BY <1>1, <1>2, <1>3 DEF InHand, SameRow

\* The request that takes the step has in hand what it should.
HandsMove ==
  \/ \A g \in Handler :
       handler'[g] = handler[g] \/ handler'[g].pc \notin {"records", "resolve", "commit", "run"}
  \/ \E h \in Handler : \E r : Continue(h, r) /\ InHand(r)'

LEMMA ArchiveReadsRight ==
  ASSUME Shape, PlainFacts, NEW h \in Handler, ArchiveRead(h)
  PROVE  \E r : Continue(h, r) /\ InHand(r)'
<1>0. PICK lost, entries, assigned, expected, rows, candidates :
        /\ Returned(lost, entries, assigned, expected)
        /\ Computed(h, entries, assigned, expected, rows, candidates)
  BY ArchiveReadEffect, Zenon
<1>. PICK now : now = clock
  OBVIOUS
<1>. PICK r : r = [pc |-> "records", rows |-> rows, candidates |-> candidates, read |-> now]
  OBVIOUS
<1>1. Continue(h, r)
  BY <1>0 DEF Computed
<1>2. lost = "nothing"
  BY <1>0 DEF Returned, PlainFacts, Plain, Happened
<1>3. entries = drafts /\ assigned = assignees /\ expected = Expected /\ drafts' = drafts
  BY <1>0, <1>2 DEF Returned, ArchiveRead
<1>4. expected = items
  <2>1. started /\ status \in NoTask .. Compared
    BY RequestCarries DEF ArchiveRead, At, Carries, Shape, Scalars
  <2>2. status >= Running
    BY <2>1, StageFacts DEF Running, Compared
  <2>3. items # {}
    BY <2>2, StageFacts DEF PlainFacts, Plain, Happened
  <2>. QED
    BY <1>3, <2>3 DEF Expected, PlainFacts
<1>5. ASSUME NEW a \in Asset, rows[a] # NoRow
      PROVE  candidates[a] = {} /\ SpeaksFor(rows[a], a, clock)
  <2>1. /\ RowCases(drafts[a], assignees, items, a, rows[a])
        /\ candidates[a] = IF HasAssigneeConflict(drafts[a], assignees)
                           THEN AssigneeEntries(drafts[a], assignees) ELSE {}
    BY <1>0, <1>3, <1>4 DEF Computed
  <2>2. PICK row : row = rows[a]
    OBVIOUS
  <2>3. CASE drafts[a] = {}
    <3>1. row = MissingRow
      BY <1>5, <2>1, <2>2, <2>3 DEF RowCases
    <3>2. row.known = TRUE /\ row.scanned = FALSE
      BY <3>1, MissingFields
    <3>3. Counted(a, clock) = {}
      BY <2>3 DEF Counted
    <3>4. SpeaksFor(row, a, clock)
      BY <3>2, <3>3 DEF SpeaksFor
    <3>5. ~HasAssigneeConflict(drafts[a], assignees)
      BY <2>3, ConflictHasEntries
    <3>. QED
      BY <2>1, <2>2, <3>4, <3>5
  <2>4. CASE drafts[a] # {}
    <3>1. ~HasAssigneeConflict(drafts[a], assignees)
      BY <1>5, <2>1, <2>4 DEF RowCases
    <3>2. PICK e \in PickConsensus(drafts[a], assignees) : \E known \in BOOLEAN :
            known = (a \in items) /\ row = ScannedRow(e, known)
      BY <1>5, <2>1, <2>2, <2>4 DEF RowCases
    <3>3. PICK known \in BOOLEAN : known = (a \in items) /\ row = ScannedRow(e, known)
      BY <3>2
    <3>4. row.scanned = TRUE /\ row.location = e.cells.location /\ row.known = known
      BY <3>3, ScannedFields
    <3>5. ASSUME NEW f \in Counted(a, clock)
          PROVE  SameLocation(f.cells.location, row.location)
      <4>1. f \in drafts[a] /\ f.operator \in assignees
        BY <3>5 DEF Counted
      <4>2. IsFiniteSet(drafts[a]) /\ \A x, y \in drafts[a] : x.operator = y.operator => x = y
        BY DEF Shape, DraftsShape
      <4>3. \A x \in drafts[a] : x.at \in Nat
        BY DEF Shape, DraftsShape, Entry
      <4>4. SameLocation(f.cells.location, e.cells.location)
        BY <3>1, <4>1, <4>2, <4>3, PickedSpeaksForAll
      <4>. QED
        BY <3>4, <4>4
    <3>6. SpeaksFor(row, a, clock)
      BY <3>3, <3>4, <3>5 DEF SpeaksFor
    <3>. QED
      BY <2>1, <2>2, <3>1, <3>6
  <2>. QED
    BY <2>3, <2>4
<1>6. ASSUME NEW a \in Asset, rows[a] # NoRow
      PROVE  SpeaksFor(rows[a], a, now)'
  <2>1. SpeaksFor(rows[a], a, now)
    BY <1>5, <1>6
  <2>. QED
    BY <1>3, <2>1 DEF SpeaksFor, Counted, PlainFacts
<1>. QED
  BY <1>1, <1>5, <1>6 DEF InHand

LEMMA HandsMoves ==
  ASSUME Shape, [InvNext]_invVars, PlainFacts
  PROVE  HandsMove
<1>1. CASE Inert
  BY <1>1 DEF Inert, HandsMove
<1>2. ASSUME NEW h \in Handler, NEW r, Continue(h, r),
             r.pc \notin {"records", "resolve", "commit", "run"}
      PROVE  HandsMove
  BY <1>2, OthersKeep DEF HandsMove
<1>3. ASSUME NEW h \in Handler, NEW r, Continue(h, r), InHand(r)'
      PROVE  HandsMove
  BY <1>3 DEF HandsMove
<1>4. ASSUME NEW h \in Handler, NEW a \in Asset, WriteDraft(h, a)
      PROVE  HandsMove
  <2>1. PICK e, r : Wrote(h, a, e, r)
    BY <1>4, WriteDraftEffect, Zenon
  <2>2. Continue(h, r) /\ r.pc \notin {"records", "resolve", "commit", "run"}
    BY <2>1 DEF Wrote, Idle
  <2>. QED
    BY <1>2, <2>2
<1>5. ASSUME NEW h \in Handler, ArchiveRead(h)
      PROVE  HandsMove
  BY <1>5, ArchiveReadsRight DEF HandsMove
<1>6. ASSUME NEW h \in Handler, NEW a \in Asset, ResolveConflict(h, a)
      PROVE  HandsMove
  <2>1. PICK answered \in BOOLEAN :
          /\ IF answered THEN UNCHANGED incidents ELSE Incident("assets")
          /\ \E operator, location :
               Continue(h, [pc |-> "resolve", asset |-> a,
                      row |-> [known |-> answered /\ a \notin gone,
                               operator |-> operator, scanned |-> TRUE,
                               location |-> location, diff |-> Undecided]])
    BY <1>6 DEF ResolveConflict, Start, Continue
  <2>2. PICK operator, location :
               Continue(h, [pc |-> "resolve", asset |-> a,
                      row |-> [known |-> answered /\ a \notin gone,
                               operator |-> operator, scanned |-> TRUE,
                               location |-> location, diff |-> Undecided]])
    BY <2>1, Zenon
  <2>3. answered
    BY <2>1 DEF Incident, Happened, PlainFacts, Plain
  <2>4. PICK known \in BOOLEAN : known = (answered /\ a \notin gone)
    OBVIOUS
  <2>5. PICK row : row = [known |-> known, operator |-> operator, scanned |-> TRUE,
                          location |-> location, diff |-> Undecided]
    OBVIOUS
  <2>6. PICK r : r = [pc |-> "resolve", asset |-> a, row |-> row]
    OBVIOUS
  <2>7. Continue(h, r)
    BY <2>2, <2>4, <2>5, <2>6, Zenon
  <2>8. row.known
    BY <2>3, <2>4, <2>5 DEF PlainFacts
  <2>9. InHand(r)'
    BY <2>6, <2>8 DEF InHand
  <2>. QED
    BY <1>3, <2>7, <2>9
<1>7. ASSUME NEW h \in Handler, ResolveTx(h)
      PROVE  HandsMove
  <2>1. PICK o : o = handler[h] /\ o.pc = "resolve"
    BY <1>7 DEF ResolveTx, At
  <2>2. PICK all : all = LastPending(o.asset)
    OBVIOUS
  <2>3. PICK r : r = [pc |-> "commit", asset |-> o.asset, row |-> o.row, all |-> all]
    OBVIOUS
  <2>4. Continue(h, r)
    BY <1>7, <2>1, <2>2, <2>3 DEF ResolveTx
  <2>5. o.row.known
    BY <2>1 DEF PlainFacts, InHand
  <2>6. InHand(r)'
    BY <2>3, <2>5 DEF InHand
  <2>. QED
    BY <1>3, <2>4, <2>6
<1>8. CASE \E h \in Handler : ArchiveTask(h) \/ ResolveCommit(h) \/ Compare(h) \/ RunFinish(h)
  <2>1. PICK h \in Handler : ArchiveTask(h) \/ ResolveCommit(h) \/ Compare(h) \/ RunFinish(h)
    BY <1>8
  <2>2. ASSUME Continue(h, [pc |-> "compare"])
        PROVE  HandsMove
    <3>1. PICK r : r = [pc |-> "compare"]
      OBVIOUS
    <3>. QED
      BY <1>2, <2>2, <3>1
  <2>3. ASSUME Continue(h, Idle)
        PROVE  HandsMove
    BY <1>2, <2>3 DEF Idle
  <2>. QED
    BY <2>1, <2>2, <2>3 DEF ArchiveTask, ResolveCommit, Compare, RunFinish, Finish, Start, Continue
<1>9. ASSUME NEW h \in Handler, RunRead(h)
      PROVE  HandsMove
  <2>1. CASE Continue(h, Idle)
    BY <1>2, <2>1 DEF Idle
  <2>2. CASE Continue(h, [pc |-> "run", todo |-> UndecidedRows])
    <3>1. PICK r : r = [pc |-> "run", todo |-> UndecidedRows]
      OBVIOUS
    <3>2. records' = records
      BY <1>9 DEF RunRead, tables
    <3>3. ASSUME NEW t \in UndecidedRows
          PROVE  SameRow(t.row, records[t.asset][t.index])
      <4>1. PICK a \in Asset : \E i \in DOMAIN records[a] :
              t = [asset |-> a, index |-> i, row |-> records[a][i]]
        BY <3>3, UndecidedFacts
      <4>2. PICK i : t = [asset |-> a, index |-> i, row |-> records[a][i]]
        BY <4>1
      <4>. QED
        BY <4>2 DEF SameRow
    <3>4. InHand(r)'
      BY <3>1, <3>2, <3>3 DEF InHand, SameRow
    <3>. QED
      BY <1>3, <2>2, <3>1, <3>4
  <2>. QED
    BY <1>9, <2>1, <2>2 DEF RunRead, Finish
<1>10. ASSUME NEW h \in Handler, NEW t, Decides(h, t) \/ RunRowFails(h, t)
       PROVE  HandsMove
  <2>1. PICK o, todo :
           /\ o = handler[h] /\ o.pc = "run" /\ Carries(o)
           /\ todo = o.todo \ {t}
           /\ Continue(h, [pc |-> "run", todo |-> todo])
    BY <1>10, RunRowEffect, RunRowFailsEffect
  <2>2. PICK r : r = [pc |-> "run", todo |-> todo]
    OBVIOUS
  <2>3. InHand(o)'
    BY <2>1, InHandKept DEF PlainFacts
  <2>4. InHand(r)'
    BY <2>1, <2>2, <2>3 DEF InHand
  <2>. QED
    BY <1>3, <2>1, <2>2, <2>4
<1>. QED
  BY <1>1, <1>4, <1>5, <1>6, <1>7, <1>8, <1>9, <1>10, StepCases

LEMMA DecidedKept ==
  ASSUME NEW row, NEW other, SameRow(row, other), row.diff = other.diff, NEW a, Decided(other, a)
  PROVE  Decided(row, a)
BY DEF Decided, SameRow

LEMMA FreshIsDecided ==
  ASSUME NEW row, row.diff = Undecided, NEW a
  PROVE  Decided(row, a)
BY DEF Decided, Undecided, Match, Surplus, Loss

\* Rows that stay what they were, whether they have been decided or not.
LEMMA OnRecordKept ==
  ASSUME Shape, [InvNext]_invVars, PlainFacts, NEW a \in Asset,
         conflicts'[a] = conflicts[a], cut' = cut,
         DOMAIN records'[a] = DOMAIN records[a], records[a] = << >> => records'[a] = << >>,
         \A i \in DOMAIN records[a] : SameRow(records'[a][i], records[a][i]),
         a \notin spoiled' => \A i \in DOMAIN records[a] : Decided(records'[a][i], a)
  PROVE  OnRecord(a)'
<1>0. OnRecord(a)
  BY DEF PlainFacts
<1>1. ASSUME conflicts[a] = NoConflict, NEW i \in DOMAIN records[a]
      PROVE  SpeaksFor(records[a][i], a, cut)'
  <2>1. cut \in Nat /\ cut < clock
    <3>1. commits # 0
      BY <1>1, BeforeArchive
    <3>. QED
      BY <3>1, StageFacts
  <2>. PICK row, other, by : row = records'[a][i] /\ other = records[a][i] /\ by = cut
    OBVIOUS
  <2>2. SameRow(row, other) /\ SpeaksFor(other, a, by)
    BY <1>0, <1>1 DEF OnRecord
  <2>3. Counted(a, by)' \subseteq Counted(a, by) /\ items' = items
    BY <2>1, CountedKept DEF PlainFacts
  <2>4. SpeaksFor(row, a, by)'
    BY <2>2, <2>3, SpeaksForKept
  <2>5. records'[a][i] = row /\ cut' = by
    OBVIOUS
  <2>. QED
    BY <2>4, <2>5 DEF SpeaksFor, Counted
<1>2. Resolved(a)' => Resolved(a)
  BY DEF Resolved
<1>3. conflicts'[a].pending => records'[a] = << >>
  BY <1>0 DEF OnRecord
<1>4. ASSUME Resolved(a), NEW i \in DOMAIN records[a]
      PROVE  /\ records'[a][i].known /\ records'[a][i].scanned
             /\ records'[a][i].location = conflicts'[a].location
  BY <1>0, <1>4 DEF OnRecord, SameRow
<1>. QED
  BY <1>1, <1>2, <1>3, <1>4 DEF OnRecord, Decided

LEMMA OnRecordArchive ==
  ASSUME Shape, [InvNext]_invVars, PlainFacts, NEW a \in Asset, NEW h \in Handler, ArchiveTask(h)
  PROVE  OnRecord(a)'
<1>1. commits = 0
  <2>1. commits \in Nat /\ commits' = commits + 1 /\ commits' <= 1
    BY StageFacts DEF ArchiveTask, PlainFacts, Plain, Once
  <2>. QED
    BY <2>1
<1>2. records[a] = << >> /\ DOMAIN records[a] = {} /\ ~HasKnownRow(a) /\ conflicts[a] = NoConflict
  BY <1>1, BeforeArchive
<1>3. PICK o :
        /\ o = handler[h] /\ o.pc = "records" /\ Carries(o)
        /\ records' = [b \in Asset |-> records'[b]] /\ DOMAIN conflicts' = Asset
        /\ \A b \in Asset :
             /\ Inserted(b, o.rows[b])
             /\ \/ o.candidates[b] = {} /\ conflicts'[b] = conflicts[b]
                \/ /\ o.candidates[b] # {} /\ conflicts[b] = NoConflict
                   /\ conflicts'[b] = [pending |-> TRUE, candidates |-> o.candidates[b]]
        /\ cut' = IF commits = 0 THEN o.read ELSE cut
        /\ \/ Continue(h, Idle)
           \/ Continue(h, [pc |-> "compare"]) /\ \A b \in Asset : o.candidates[b] = {}
  BY ArchiveTaskEffect
<1>4. CASE o.rows[a] = NoRow
  <2>1. records'[a] = << >> /\ DOMAIN records'[a] = {}
    BY <1>2, <1>3, <1>4 DEF Inserted
  <2>. QED
    BY <2>1 DEF OnRecord
<1>5. CASE o.rows[a] # NoRow
  <2>1. PICK row \in Row : row = o.rows[a] /\ row.diff = Undecided
    BY <1>3, <1>5 DEF Carries, Fresh
  <2>2. InHand(o)'
    BY <1>3, InHandKept DEF PlainFacts
  <2>3. PICK by : by = o.read
    OBVIOUS
  <2>4. o.candidates[a] = {} /\ SpeaksFor(row, a, by)'
    BY <1>3, <1>5, <2>1, <2>2, <2>3 DEF InHand
  <2>5. records'[a] = Append(records[a], row)
    BY <1>2, <1>3, <1>5, <2>1 DEF Inserted
  <2>6. Added(records'[a], a, row)
    BY <1>2, <2>5, AddedRow
  <2>7. PICK n : DOMAIN records'[a] = {n} /\ records'[a][n] = row
    BY <1>2, <2>6 DEF Added
  <2>8. conflicts'[a] = NoConflict
    BY <1>2, <1>3, <2>4
  <2>9. ~conflicts'[a].pending /\ ~Resolved(a)'
    <3>1. PICK c : c = conflicts'[a]
      OBVIOUS
    <3>2. "operator" \notin {"pending", "candidates"}
      OBVIOUS
    <3>3. c.pending = FALSE /\ c \notin ResolvedConflict
      BY <2>8, <3>1, <3>2, ConflictFields
    <3>. QED
      BY <3>1, <3>3 DEF Resolved
  <2>10. cut' = by
    BY <1>1, <1>3, <2>3
  <2>11. SpeaksFor(records[a][n], a, cut)'
    BY <2>4, <2>7, <2>10 DEF SpeaksFor, Counted
  <2>12. Decided(records'[a][n], a)
    BY <2>1, <2>7, FreshIsDecided
  <2>. QED
    BY <2>7, <2>9, <2>11, <2>12 DEF OnRecord, Decided
<1>. QED
  BY <1>4, <1>5

LEMMA OnRecordResolve ==
  ASSUME Shape, [InvNext]_invVars, PlainFacts, NEW a \in Asset, NEW h \in Handler, ResolveCommit(h),
         cut' = cut
  PROVE  OnRecord(a)'
<1>1. PICK o, r :
        /\ o = handler[h] /\ o.pc = "commit" /\ Carries(o)
        /\ o.asset \in Asset /\ o.row \in Row /\ o.row.diff = Undecided /\ o.row.scanned
        /\ conflicts[o.asset] \in PendingConflict
        /\ records' = [records EXCEPT ![o.asset] = Upsert(o.asset, o.row)]
        /\ conflicts' = [conflicts EXCEPT ![o.asset] =
                           [pending |-> FALSE, candidates |-> conflicts[o.asset].candidates,
                            operator |-> o.row.operator, location |-> o.row.location]]
        /\ Continue(h, r)
        /\ r = Idle \/ (r = [pc |-> "compare"] /\ o.all)
  BY ResolveCommitEffect
<1>2. CASE a # o.asset
  <2>1. records'[a] = records[a] /\ conflicts'[a] = conflicts[a]
    BY <1>1, <1>2 DEF Shape, RecordsShape, ConflictsShape
  <2>2. \A i \in DOMAIN records[a] :
          /\ SameRow(records'[a][i], records[a][i])
          /\ a \notin spoiled' => Decided(records'[a][i], a)
    BY <2>1 DEF SameRow, PlainFacts, OnRecord
  <2>. QED
    BY <2>1, <2>2, OnRecordKept
<1>3. CASE a = o.asset
  <2>1. records[a] = << >>
    BY <1>1, <1>3, ConflictFacts DEF PlainFacts, OnRecord
  <2>2. DOMAIN records[a] = {}
    BY <2>1
  <2>3. PICK row \in Row : row = o.row /\ row.known /\ row.scanned /\ row.diff = Undecided
    BY <1>1 DEF PlainFacts, InHand
  <2>4. PICK s : s = Upsert(a, row)
    OBVIOUS
  <2>5. Upserted(s, a, row)
    BY <2>4, UpsertFacts
  <2>6. PICK n : DOMAIN s = {n} /\ s[n] = row
    BY <2>2, <2>5 DEF Upserted
  <2>7. records'[a] = s
    BY <1>1, <1>3, <2>3, <2>4 DEF Shape, RecordsShape
  <2>8. PICK c, candidates, operator, location :
          /\ c = conflicts'[a] /\ location = row.location
          /\ c = [pending |-> FALSE, candidates |-> candidates,
                  operator |-> operator, location |-> location]
    BY <1>1, <1>3, <2>3 DEF Shape, ConflictsShape
  <2>9. c.pending = FALSE /\ c.location = location /\ "operator" \in DOMAIN c
    BY <2>8
  <2>10. c # NoConflict
    <3>1. "operator" \notin {"pending", "candidates"}
      OBVIOUS
    <3>. QED
      BY <2>9, <3>1, ConflictFields
  <2>11. Decided(row, a)
    BY <2>3, FreshIsDecided
  <2>12. \A i \in DOMAIN records'[a] :
           /\ records'[a][i].known /\ records'[a][i].scanned
           /\ records'[a][i].location = conflicts'[a].location
           /\ Decided(records'[a][i], a)
    BY <2>3, <2>6, <2>7, <2>8, <2>9, <2>11
  <2>. QED
    BY <2>8, <2>9, <2>10, <2>12 DEF OnRecord, Decided
<1>. QED
  BY <1>2, <1>3

LEMMA OnRecordRow ==
  ASSUME Shape, [InvNext]_invVars, PlainFacts, NEW a \in Asset, NEW h \in Handler, NEW t, Decides(h, t),
         UNCHANGED <<conflicts, cut>>
  PROVE  OnRecord(a)'
<1>1. PICK o, s, todo, diff :
        /\ o = handler[h] /\ o.pc = "run" /\ Carries(o) /\ t \in o.todo
        /\ t.asset \in Asset /\ t.index \in DOMAIN records[t.asset] /\ t.row \in Row
        /\ DecidedAt(s, t.asset, t.index, diff) /\ Rightly(t, diff)
        /\ diff \in Match .. Loss
        /\ records' = [records EXCEPT ![t.asset] = s]
        /\ todo = o.todo \ {t}
        /\ Continue(h, [pc |-> "run", todo |-> todo])
  BY RunRowEffect
<1>2. CASE a # t.asset
  <2>1. records'[a] = records[a]
    BY <1>1, <1>2 DEF Shape, RecordsShape
  <2>2. \A i \in DOMAIN records[a] :
          /\ SameRow(records'[a][i], records[a][i])
          /\ a \notin spoiled' => Decided(records'[a][i], a)
    BY <2>1 DEF SameRow, PlainFacts, OnRecord
  <2>. QED
    BY <2>1, <2>2, OnRecordKept
<1>3. CASE a = t.asset
  <2>1. PICK n \in DOMAIN records[a] : n = t.index
    BY <1>1, <1>3
  <2>2. PICK seen : seen = t.row
    OBVIOUS
  <2>4. records'[a] = s /\ DecidedAt(s, a, n, diff)
    BY <1>1, <1>3, <2>1 DEF Shape, RecordsShape
  <2>5. SameRow(seen, records[a][n])
    BY <1>1, <1>3, <2>1, <2>2 DEF PlainFacts, InHand
  <2>6. \A i \in DOMAIN records[a] : SameRow(s[i], records[a][i])
    BY <2>4 DEF DecidedAt, SameRow
  <2>7. ASSUME a \notin spoiled'
        PROVE  Decided(s[n], a)
    <3>1. s[n].diff = diff /\ SameRow(s[n], seen)
      BY <2>4, <2>5, <2>6 DEF DecidedAt, SameRow
    <3>2. Book(a) = BookLocation[a]
      BY DEF Book, PlainFacts
    <3>3. diff = IF ~seen.known THEN Surplus
                 ELSE IF seen.scanned /\ SameLocation(seen.location, BookLocation[a]) THEN Match
                 ELSE Loss
      BY <1>1, <1>3, <2>2, <2>7, <3>2 DEF Rightly, Decision
    <3>. QED
      BY <3>1, <3>3 DEF Decided, SameRow, Match, Surplus, Loss
  <2>8. ASSUME a \notin spoiled', NEW i \in DOMAIN records[a], i # n
        PROVE  Decided(s[i], a)
    <3>1. s[i].diff = records[a][i].diff /\ Decided(records[a][i], a)
      BY <2>4, <2>8 DEF DecidedAt, PlainFacts, OnRecord
    <3>. QED
      BY <2>6, <2>8, <3>1, DecidedKept
  <2>9. DOMAIN records'[a] = DOMAIN records[a] /\ records[a] # << >>
    BY <2>1, <2>4 DEF DecidedAt
  <2>10. \A i \in DOMAIN records[a] :
           /\ SameRow(records'[a][i], records[a][i])
           /\ a \notin spoiled' => Decided(records'[a][i], a)
    BY <2>4, <2>6, <2>7, <2>8
  <2>. QED
    BY <2>9, <2>10, OnRecordKept
<1>. QED
  BY <1>2, <1>3

LEMMA OnRecordStep ==
  ASSUME Shape, [InvNext]_invVars, PlainFacts, NEW a \in Asset
  PROVE  OnRecord(a)'
<1>1. CASE UNCHANGED <<records, conflicts, commits, cut>>
  <2>1. \A i \in DOMAIN records[a] :
          /\ SameRow(records'[a][i], records[a][i])
          /\ a \notin spoiled' => Decided(records'[a][i], a)
    BY <1>1 DEF SameRow, PlainFacts, OnRecord
  <2>. QED
    BY <1>1, <2>1, OnRecordKept
<1>. QED
  BY <1>1, OnRecordArchive, OnRecordResolve, OnRecordRow, TableCases

\* The step is the request's own or somebody else's; before the publication no
\* request has anything in hand.
LEMMA DifferenceInvStep ==
  ASSUME Shape, DifferenceInv, [InvNext]_invVars
  PROVE  DifferenceInv'
<1>. SUFFICES ASSUME Plain'
              PROVE  (\A g \in Handler : InHand(handler[g])') /\ (\A a \in Asset : OnRecord(a)')
  BY DEF DifferenceInv
<1>1. Plain
  <2>1. commits \in Nat
    BY StageFacts
  <2>2. \A h \in Handler : ArchiveTask(h) => commits' = commits + 1
    BY DEF ArchiveTask
  <2>3. commits' \in Nat /\ commits <= commits'
    BY <2>1, <2>2, TableCases
  <2>4. Once
    BY <2>1, <2>3 DEF Plain, Once
  <2>. QED
    BY <2>4, TaskOnward DEF Plain, Happened
<1>2. gone = {} /\ gone' = {}
  <2>1. Shape'
    BY ShapeStep
  <2>2. gone' = {}
    BY <2>1 DEF Shape, Stages, Plain, Happened
  <2>. QED
    BY <2>2, TaskOnward
<1>3. (items' = items \/ status = Unpublished) /\ (assignees' = assignees \/ status = NoTask)
  BY TaskOnward DEF Plain, Happened
<1>4. (\A g \in Handler : InHand(handler[g])) /\ (\A a \in Asset : OnRecord(a))
  BY <1>1 DEF DifferenceInv
<1>5. CASE items' = items /\ assignees' = assignees
  <2>1. PlainFacts
    BY <1>1, <1>2, <1>4, <1>5, SpoiledStays DEF PlainFacts
  <2>2. ASSUME NEW g \in Handler, handler'[g] = handler[g]
        PROVE  InHand(handler[g])'
    <3>1. PICK o : o = handler[g] /\ Carries(o) /\ InHand(o)
      BY <1>4 DEF Shape
    <3>2. InHand(o)'
      BY <2>1, <3>1, InHandKept
    <3>3. handler'[g] = o
      BY <2>2, <3>1
    <3>. QED
      BY <3>2, <3>3
  <2>3. \A g \in Handler : InHand(handler[g])'
    <3>1. CASE \A g \in Handler :
                 \/ handler'[g] = handler[g]
                 \/ handler'[g].pc \notin {"records", "resolve", "commit", "run"}
      <4>1. ASSUME NEW g \in Handler,
                   handler'[g].pc \notin {"records", "resolve", "commit", "run"}
            PROVE  InHand(handler[g])'
        BY <4>1 DEF InHand
      <4>. QED
        BY <2>2, <3>1, <4>1
    <3>2. ASSUME NEW h \in Handler, NEW r, Continue(h, r), InHand(r)'
          PROVE  \A g \in Handler : InHand(handler[g])'
      <4>1. handler'[h] = r /\ \A g \in Handler \ {h} : handler'[g] = handler[g]
        BY <3>2, OthersKeep
      <4>2. InHand(handler[h])'
        BY <3>2, <4>1
      <4>. QED
        BY <2>2, <4>1, <4>2
    <3>. QED
      BY <2>1, <3>1, <3>2, HandsMoves DEF HandsMove
  <2>. QED
    BY <2>1, <2>3, OnRecordStep
<1>6. CASE status \in {NoTask, Unpublished}
  <2>1. /\ conflicts = [a \in Asset |-> NoConflict]
        /\ \A a \in Asset : records[a] = << >> /\ DOMAIN records[a] = {}
        /\ \A g \in Handler :
             handler[g].pc \notin {"archive", "records", "resolve", "commit", "compare", "run"}
    <3>1. commits = 0 /\ ~started
      BY <1>6, BeforePublication, StageFacts DEF NoTask, Unpublished, Running, Compared
    <3>2. \A g \in Handler : handler[g].pc # "archive" /\ handler[g].pc # "records"
      BY <3>1 DEF Shape, Carries
    <3>. QED
      BY <3>1, <3>2, BeforeArchive
  <2>2. Inert
    <3>1. ASSUME NEW h \in Handler, NEW a \in Asset
          PROVE  ~WriteDraft(h, a) /\ ~ResolveConflict(h, a)
      BY <1>6, WriteDraftEffect DEF ResolveConflict, NoTask, Unpublished, Running, Archived
    <3>2. ASSUME NEW h \in Handler
          PROVE  /\ ~ArchiveRead(h) /\ ~ArchiveTask(h) /\ ~ResolveTx(h) /\ ~ResolveCommit(h)
                 /\ ~Compare(h) /\ ~RunRead(h) /\ ~RunFinish(h)
                 /\ \A t : ~Decides(h, t) /\ ~RunRowFails(h, t)
      BY <1>6, <2>1 DEF ArchiveRead, ArchiveTask, ResolveTx, ResolveCommit, Compare, RunRead,
         RunFinish, Decides, RunRow, RunRowOnError, Decide, RunRowFails, At, NoTask, Unpublished, Archived
    <3>. QED
      BY <3>1, <3>2, StepCases
  <2>3. \A g \in Handler : handler'[g].pc \notin {"records", "resolve", "commit", "run"}
    BY <2>1, <2>2 DEF Inert
  <2>4. \A a \in Asset : records'[a] = << >> /\ DOMAIN records'[a] = {}
    BY <2>1, <2>2 DEF Inert, tables
  <2>5. \A g \in Handler : InHand(handler[g])'
    BY <2>3 DEF InHand
  <2>6. \A a \in Asset : OnRecord(a)'
    BY <2>4 DEF OnRecord
  <2>. QED
    BY <2>5, <2>6
<1>. QED
  BY <1>3, <1>5, <1>6

\* From the drafts to the comparison, in a task archived once: an asset is a match
\* only if each assignee who counted it, or the verdict on their conflict, has it
\* where the book has it, a loss only if they have not, and surplus only if it was no
\* item, whatever is counted, resolved or compared at the same time, unless a read of
\* the archive or of the scope failed, an asset was deleted or the items changed late;
\* an asset whose row was decided on an error of asset-rpc is excepted, and no other.
THEOREM DifferenceIsRealHolds == InvSpec => []DifferenceIsReal
<1>1. InvInit => DifferenceInv
  <2>. SUFFICES ASSUME InvInit
                PROVE  DifferenceInv
    OBVIOUS
  <2>1. \A h \in Handler : InHand(handler[h])
    BY DEF InvInit, InHand, Idle
  <2>2. \A a \in Asset : records[a] = << >> /\ DOMAIN records[a] = {}
    BY DEF InvInit
  <2>3. \A a \in Asset : OnRecord(a)
    BY <2>2 DEF OnRecord
  <2>. QED
    BY <2>1, <2>3 DEF DifferenceInv
<1>2. Shape /\ DifferenceInv /\ [InvNext]_invVars => DifferenceInv'
  BY DifferenceInvStep
<1>3. Shape /\ DifferenceInv => DifferenceIsReal
  <2>. SUFFICES ASSUME Shape, DifferenceInv, Plain, NEW a \in Asset \ spoiled,
                       NEW i \in DOMAIN records[a],
                       NEW places,
                       places = IF conflicts[a] # NoConflict THEN {conflicts[a].location}
                                ELSE {e.cells.location : e \in {f \in CountedAtCut(a) :
                                                                  f.operator \in assignees}}
                PROVE  LET diff == records[a][i].diff
                       IN /\ diff = Match => \A p \in places : SameLocation(p, BookLocation[a])
                          /\ diff = Loss => \A p \in places : ~SameLocation(p, BookLocation[a])
                          /\ diff = Surplus => a \notin items
    BY DEF DifferenceIsReal, Plain
  <2>1. OnRecord(a)
    BY DEF DifferenceInv
  <2>2. PICK row : row = records[a][i]
    OBVIOUS
  <2>3. Decided(row, a)
    BY <2>1, <2>2 DEF OnRecord
  <2>4. CASE conflicts[a] = NoConflict
    <3>1. SpeaksFor(row, a, cut)
      BY <2>1, <2>2, <2>4 DEF OnRecord
    <3>2. \A p \in places : \E e \in Counted(a, cut) : p = e.cells.location
      BY <2>4 DEF Counted, CountedAtCut
    <3>. QED
      BY <2>2, <2>3, <3>1, <3>2 DEF SpeaksFor, Decided, SameLocation
  <2>5. CASE conflicts[a] # NoConflict
    <3>1. Resolved(a)
      <4>1. ~conflicts[a].pending
        BY <2>1 DEF OnRecord
      <4>. QED
        BY <2>5, <4>1, ConflictFacts
    <3>2. row.known /\ row.scanned /\ places = {row.location}
      BY <2>1, <2>2, <2>5, <3>1 DEF OnRecord
    <3>. QED
      BY <2>2, <2>3, <3>2 DEF Decided
  <2>. QED
    BY <2>4, <2>5
<1>. QED
  BY <1>1, <1>2, <1>3, ShapeHolds, PTL DEF InvSpec
===============================================================================
