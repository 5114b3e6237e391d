------------------------------ MODULE DraftStore ------------------------------
(***************************************************************************)
(* The drafts of one asset of a running inventory task: the Mongo          *)
(* collection that Submit writes and Drafts reads, the Redis lock around a *)
(* submission and the version check on updated_at.                         *)
(*                                                                         *)
(* A session is one browser window of an operator with the request it has  *)
(* under way.  Submit takes the lock, asks asset-rpc whether the asset is  *)
(* in scope, looks it up among the task's items, reads the clock, writes   *)
(* the draft and releases the lock; each is a call of its own.  The lock's *)
(* key and its value both hold the operator's id, so that only sessions of *)
(* one operator compete and each of them may delete the lock.              *)
(***************************************************************************)
EXTENDS InventoryDraft

CONSTANTS
  Operator,    \* users who submit
  Session,     \* browser windows
  OperatorOf,  \* the operator at each window
  Assigned,    \* sets of operators the task may be assigned to
  Cells,       \* contents a draft may be given
  MaxTime,     \* bound: milliseconds
  MaxSubmits,  \* bound: submissions
  MaxFaults    \* bound: failed calls, aborted and stalled requests

ASSUME OperatorAssumption == IsFiniteSet(Operator)
ASSUME OperatorOfAssumption == OperatorOf \in [Session -> Operator]
ASSUME SessionAssumption == "free" \notin Session
ASSUME AssignedAssumption == Assigned \subseteq SUBSET Operator
ASSUME CellsAssumption == \A c \in Cells : c.location \in Seq(Character)
ASSUME BoundAssumption == MaxTime \in Nat \ {0} /\ MaxSubmits \in Nat /\ MaxFaults \in Nat

VARIABLES
  asset,   \* where the asset is: an item of the task, in scope only, elsewhere
  assignee, \* operators assigned to the task; the others are administrators
  redis,   \* "up", or "none" when no client is configured
  drafts,  \* the draft of each operator: its cells and updated_at
  lock,    \* fams:lock:inventory:<task>:<asset>:<operator>
  clock,   \* time.Now() in milliseconds, the precision of updated_at
  session, \* the request of each window
  view,    \* the version each window last read, and whether it is the last one
  early,   \* history: operators whose lock expired while its owner was at work
  tied,    \* history: operators with two writes in the same millisecond
  submits, \* submissions so far
  faults   \* failures so far

dsVars == <<asset, assignee, redis, drafts, lock, clock, session, view, early, tied,
            submits, faults>>
setting == <<asset, assignee, redis>>
history == <<early, tied>>

NoDraft == [at |-> 0]
Draft == [cells : Cells, at : 1 .. MaxTime]
NoVersion == 0
Free == "free"
Idle == [pc |-> "idle"]

SessionState ==
  {Idle, [pc |-> "unlock"]}
  \cup [pc : {"scope"}, cells : Cells, expected : 0 .. MaxTime, listed : BOOLEAN]
  \cup [pc : {"write"}, cells : Cells, expected : 0 .. MaxTime, stamp : 1 .. MaxTime]

DsInit ==
  /\ asset \in {"item", "in scope", "elsewhere"}
  /\ assignee \in Assigned
  /\ redis \in {"up", "none"}
  /\ drafts = [o \in Operator |-> NoDraft]
  /\ lock = [o \in Operator |-> Free]
  /\ clock = 1
  /\ session = [s \in Session |-> Idle]
  /\ view = [s \in Session |-> [at |-> NoVersion, last |-> TRUE]]
  /\ early = {}
  /\ tied = {}
  /\ submits = 0
  /\ faults = 0

Fault == faults < MaxFaults /\ faults' = faults + 1

Finish(s) == session' = [session EXCEPT ![s] = [pc |-> "unlock"]]

-------------------------------------------------------------------------------
(***************************************************************************)
(* The Redis lock.  Its value is the operator's id; the model keeps the    *)
(* session that took it, which the code does not know.                     *)
(***************************************************************************)
\* Mutant: SET without NX.
TryLockAlways(s) ==
  \/ redis = "none" /\ UNCHANGED lock
  \/ redis = "up" /\ lock' = [lock EXCEPT ![OperatorOf[s]] = s]

TryLock(s) ==
  \/ redis = "none" /\ UNCHANGED lock
  \/ /\ redis = "up"
     /\ lock[OperatorOf[s]] = Free
     /\ lock' = [lock EXCEPT ![OperatorOf[s]] = s]

\* The script compares the value with the operator's id: it is always equal.
Unlock(s) == lock' = [lock EXCEPT ![OperatorOf[s]] = Free]

\* After 30 seconds.  A request that takes longer counts as a failure.
Expire(o) ==
  /\ lock[o] # Free
  /\ lock' = [lock EXCEPT ![o] = Free]
  /\ IF session[lock[o]] = Idle THEN UNCHANGED <<early, faults>>
     ELSE early' = early \cup {o} /\ Fault
  /\ UNCHANGED <<setting, drafts, clock, session, view, tied, submits>>

-------------------------------------------------------------------------------
(***************************************************************************)
(* The requests of a window                                                *)
(***************************************************************************)
\* GET drafts: the window now knows the version of its operator's draft.
ReadDrafts(s) ==
  /\ session[s] = Idle
  /\ view' = [view EXCEPT ![s] = [at |-> drafts[OperatorOf[s]].at, last |-> TRUE]]
  /\ UNCHANGED <<setting, drafts, lock, clock, session, history, submits, faults>>

\* expectedUpdatedAt is sent when a version is known.  An assignee's asset is
\* looked up among the items unless their list comes back empty.
Submit(s) ==
  /\ session[s] = Idle
  /\ \E c \in Cells, listed \in BOOLEAN :
       /\ session' = [session EXCEPT ![s] =
                        [pc |-> "scope", cells |-> c, expected |-> view[s].at,
                         listed |-> listed]]
       /\ IF listed THEN UNCHANGED faults ELSE Fault
  /\ TryLock(s)
  /\ submits < MaxSubmits /\ submits' = submits + 1
  /\ UNCHANGED <<setting, drafts, clock, view, history>>

Refuse(s) ==
  /\ session' = [session EXCEPT ![s] = Idle]
  /\ Unlock(s)
  /\ UNCHANGED <<setting, drafts, clock, view, history, submits>>

InScope(s) == asset # "elsewhere"

Selected(s) ==
  \/ OperatorOf[s] \notin assignee
  \/ asset = "item"
  \/ ~session[s].listed

\* The checks pass and the handler reads the clock.
CheckScope(s) ==
  /\ session[s].pc = "scope"
  /\ InScope(s)
  /\ Selected(s)
  /\ session' = [session EXCEPT ![s] = [pc |-> "write", cells |-> @.cells,
                                        expected |-> @.expected, stamp |-> clock]]
  /\ UNCHANGED <<setting, drafts, lock, clock, view, history, submits, faults>>

RefuseScope(s) ==
  /\ session[s].pc = "scope"
  /\ \/ ~(InScope(s) /\ Selected(s)) /\ UNCHANGED faults
     \/ Fault
  /\ Refuse(s)

\* Mutant: a version of the draft at least as new as the one expected.
MatchesAtLeast(s) ==
  \/ session[s].expected = NoVersion
  \/ drafts[OperatorOf[s]].at >= session[s].expected

\* The filter of the update; without a version the update inserts.
Matches(s) ==
  \/ session[s].expected = NoVersion
  \/ drafts[OperatorOf[s]].at = session[s].expected

UpdateOne(s) ==
  LET o == OperatorOf[s]
      at == session[s].stamp
  IN /\ drafts' = [drafts EXCEPT ![o] = [cells |-> session[s].cells, at |-> at]]
     /\ tied' = IF drafts[o].at = at THEN tied \cup {o} ELSE tied
     /\ view' = [t \in Session |->
                   IF OperatorOf[t] = o THEN [view[t] EXCEPT !.last = view[t].at = NoVersion]
                   ELSE view[t]]

WriteDraft(s) ==
  /\ session[s].pc = "write"
  /\ Matches(s)
  /\ UpdateOne(s)
  /\ Finish(s)
  /\ UNCHANGED <<setting, lock, clock, early, submits, faults>>

\* No document matches, or the update fails, written or not.
WriteRefused(s) ==
  /\ session[s].pc = "write"
  /\ \/ ~Matches(s) /\ UNCHANGED <<drafts, tied, view, faults>>
     \/ Fault /\ UNCHANGED <<drafts, tied, view>>
     \/ Fault /\ Matches(s) /\ UpdateOne(s)
  /\ Finish(s)
  /\ UNCHANGED <<setting, lock, clock, early, submits>>

Release(s) ==
  /\ session[s].pc = "unlock"
  /\ Refuse(s)
  /\ UNCHANGED faults

\* The process stops, the client leaves or the release fails: the lock stays
\* until it expires.
Abort(s) ==
  /\ session[s] # Idle
  /\ Fault
  /\ session' = [session EXCEPT ![s] = Idle]
  /\ UNCHANGED <<setting, drafts, lock, clock, view, history, submits>>

Tick ==
  /\ clock < MaxTime
  /\ clock' = clock + 1
  /\ UNCHANGED <<setting, drafts, lock, session, view, history, submits, faults>>

DsNext ==
  \/ \E s \in Session :
       \/ ReadDrafts(s) \/ Submit(s) \/ CheckScope(s) \/ RefuseScope(s) \/ WriteDraft(s)
       \/ WriteRefused(s) \/ Release(s) \/ Abort(s)
  \/ \E o \in Operator : Expire(o)
  \/ Tick

DsSpec == DsInit /\ [][DsNext]_dsVars

-------------------------------------------------------------------------------
(***************************************************************************)
(* Properties                                                              *)
(***************************************************************************)
\* Every variable has its type; stamps come from the clock.
DsTypeOK ==
  /\ asset \in {"item", "in scope", "elsewhere"}
  /\ assignee \in Assigned
  /\ redis \in {"up", "none"}
  /\ drafts \in [Operator -> Draft \cup {NoDraft}]
  /\ lock \in [Operator -> Session \cup {Free}]
  /\ clock \in 1 .. MaxTime
  /\ session \in [Session -> SessionState]
  /\ view \in [Session -> [at : 0 .. MaxTime, last : BOOLEAN]]
  /\ early \subseteq Operator /\ tied \subseteq Operator
  /\ submits \in 0 .. MaxSubmits /\ faults \in 0 .. MaxFaults
  /\ \A o \in Operator : drafts[o].at <= clock

Inside(o) == {s \in Session : OperatorOf[s] = o /\ session[s] # Idle}

\* The lock has done its work for this operator so far.
Guarded(o) == redis = "up" /\ o \notin early

\* Submit and redislock: two windows of an operator are between TryLock and
\* Unlock at once only if a lock expired under its owner or Redis is absent.
\* It takes SetNX, and every path of Submit releasing the lock exactly once.
OneInside == \A o \in Operator : Guarded(o) => Cardinality(Inside(o)) <= 1

\* Submit: the types together with the exclusion the lock is there for.
DsInv == DsTypeOK /\ OneInside

\* Submit's version check: a window that sends the version it last read never
\* replaces an edit it has not seen, although updated_at, a wall clock time in
\* milliseconds, is not a version number: a later write by another window can
\* have the same one only in the same millisecond, or if the lock failed.
NoUnseenOverwrite ==
  \A s \in Session :
    LET o == OperatorOf[s] IN
    session[s].pc = "write" /\ session[s].expected # NoVersion /\ Matches(s) /\ ~view[s].last
      => o \in tied \/ ~Guarded(o)

\* Submit: the updated_at of an operator's draft never goes back while the lock
\* holds.  The archive takes the newest draft for the last one.
VersionsAdvance ==
  [][\A o \in Operator : Guarded(o) => drafts'[o].at >= drafts[o].at]_dsVars

Entries == {[operator |-> o, cells |-> drafts[o].cells, at |-> drafts[o].at] :
              o \in {p \in Operator : drafts[p] # NoDraft}}

\* The words of a text, for comparison with Location: how many letters of either
\* width each has.
Words(text) ==
  LET letter == {i \in DOMAIN text : HalfWidth(text[i]) # Space}
      start == {i \in letter : i - 1 \notin letter}
      word(i) == Cardinality({j \in start : j <= i})
  IN [k \in 1 .. Cardinality(start) |-> Cardinality({i \in letter : word(i) = k})]

\* strnorm and HasAssigneeConflict: two assignees are in conflict over where
\* the asset is exactly if the words they wrote differ, whatever the width and
\* the spacing; drafts that differ in their notes conflict as well.
ConflictIsOfWords ==
  LET own == {e \in Entries : e.operator \in assignee} IN
  HasAssigneeConflict(Entries, assignee) <=>
    \E e, f \in own :
      \/ Words(e.cells.location) # Words(f.cells.location)
      \/ Normalize(e.cells.notes) # Normalize(f.cells.notes)

\* PickConsensus at the archive: where assignees do not disagree, whatever order
\* Mongo and the map return the drafts in, the draft taken has the content of
\* each assignee's draft; without an assignee's draft it is the newest one.
ConsensusSpeaksForAll ==
  ~HasAssigneeConflict(Entries, assignee) =>
    LET own == {e \in Entries : e.operator \in assignee} IN
    \A pick \in PickConsensus(Entries, assignee) :
      IF own = {} THEN \A e \in Entries : e.at <= pick.at
      ELSE pick \in own /\ \A e \in own : EntryKey(e) = EntryKey(pick)
===============================================================================
