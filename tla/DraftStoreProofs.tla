--------------------------- MODULE DraftStoreProofs ---------------------------
(***************************************************************************)
(* The invariants of DraftStore, for any operators and windows, any cells, *)
(* any number of submissions and any number of faults; and what Location   *)
(* makes of a text of any length.                                          *)
(***************************************************************************)
EXTENDS DraftStore, FiniteSetTheorems, WellFoundedInduction, TLAPS

-------------------------------------------------------------------------------
(***************************************************************************)
(* The inductive invariant                                                 *)
(***************************************************************************)
\* What a window in the middle of a submission has in hand.
Scope == [pc : {"scope"}, cells : Cells, expected : 0 .. MaxTime, listed : BOOLEAN]
Write == [pc : {"write"}, cells : Cells, expected : 0 .. MaxTime, stamp : 1 .. MaxTime]

\* While the lock does its work, whoever is inside holds it.
HolderInside ==
  \A s \in Session :
    Guarded(OperatorOf[s]) /\ session[s] # Idle => lock[OperatorOf[s]] = s

\* The time a writer is about to stamp is past, and not before the draft's.
StampsFresh ==
  \A s \in Session :
    session[s].pc = "write" =>
      /\ session[s].stamp <= clock
      /\ Guarded(OperatorOf[s]) => drafts[OperatorOf[s]].at <= session[s].stamp

\* A window sends the version it last read.  The draft is not older than that
\* version, and newer if another window has written it since.
ViewsKept ==
  \A s \in Session :
    LET o == OperatorOf[s] IN
    /\ session[s].pc \in {"scope", "write"} => session[s].expected = view[s].at
    /\ Guarded(o) => view[s].at <= drafts[o].at
    /\ Guarded(o) /\ o \notin tied /\ ~view[s].last => view[s].at < drafts[o].at

DsIInv == DsTypeOK /\ HolderInside /\ StampsFresh /\ ViewsKept

-------------------------------------------------------------------------------
(***************************************************************************)
(* Facts about states and single steps                                     *)
(***************************************************************************)
LEMMA SessionCases ==
  ASSUME DsTypeOK, NEW s \in Session
  PROVE  /\ session[s] \in SessionState
         /\ OperatorOf[s] \in Operator
         /\ session[s] = Idle <=> session[s].pc = "idle"
         /\ session[s].pc \in {"idle", "unlock", "scope", "write"}
         /\ session[s].pc = "scope" => session[s] \in Scope
         /\ session[s].pc = "write" => session[s] \in Write
<1>1. session[s] \in SessionState /\ OperatorOf[s] \in Operator
  BY OperatorOfAssumption DEF DsTypeOK
<1>. QED
  BY <1>1 DEF SessionState, Scope, Write, Idle

LEMMA StateFacts ==
  ASSUME DsTypeOK
  PROVE  /\ clock \in Nat /\ clock >= 1
         /\ \A o \in Operator : drafts[o].at \in Nat /\ drafts[o].at <= clock /\ drafts[o].at <= MaxTime
         /\ \A s \in Session : view[s].at \in Nat /\ view[s].at <= MaxTime /\ view[s].last \in BOOLEAN
<1>1. \A o \in Operator : drafts[o] \in Draft \cup {NoDraft}
  BY DEF DsTypeOK
<1>2. \A o \in Operator : drafts[o].at \in 0 .. MaxTime
  BY <1>1, BoundAssumption DEF Draft, NoDraft
<1>3. clock \in 1 .. MaxTime /\ \A o \in Operator : drafts[o].at <= clock
  BY DEF DsTypeOK
<1>4. ASSUME NEW s \in Session
      PROVE  view[s].at \in 0 .. MaxTime /\ view[s].last \in BOOLEAN
  BY DEF DsTypeOK
<1>. QED
  BY <1>2, <1>3, <1>4, BoundAssumption

\* The window's request goes on; nothing but its own state changes in the session table.
LEMMA MoveEffect ==
  ASSUME DsTypeOK, NEW s \in Session, NEW new \in SessionState,
         session' = [session EXCEPT ![s] = new]
  PROVE  /\ session' \in [Session -> SessionState]
         /\ session'[s] = new
         /\ \A t \in Session : t # s => session'[t] = session[t]
BY DEF DsTypeOK

LEMMA FaultEffect ==
  ASSUME DsTypeOK, Fault \/ UNCHANGED faults
  PROVE  faults' \in 0 .. MaxFaults
<1>1. faults \in 0 .. MaxFaults
  BY DEF DsTypeOK
<1>2. CASE faults' = faults + 1 /\ faults < MaxFaults
  BY <1>1, <1>2, BoundAssumption
<1>. QED
  BY <1>1, <1>2 DEF Fault

\* TryLock: the lock is taken if it was free; Unlock: it is free again.
LEMMA LockEffect ==
  ASSUME DsTypeOK, NEW s \in Session, TryLock(s) \/ Unlock(s)
  PROVE  /\ lock' \in [Operator -> Session \cup {Free}]
         /\ \A o \in Operator : o # OperatorOf[s] => lock'[o] = lock[o]
         /\ TryLock(s) /\ redis = "up" => lock[OperatorOf[s]] = Free /\ lock'[OperatorOf[s]] = s
<1>1. OperatorOf[s] \in Operator /\ lock \in [Operator -> Session \cup {Free}]
  BY OperatorOfAssumption DEF DsTypeOK
<1>. QED
  BY <1>1 DEF TryLock, Unlock

\* Submit, as far as the invariant goes.
LEMMA SubmitEffect ==
  ASSUME DsTypeOK, NEW s \in Session, Submit(s)
  PROVE  /\ session[s] = Idle
         /\ session' \in [Session -> SessionState]
         /\ session'[s] \in Scope
         /\ session'[s].expected = view[s].at
         /\ \A t \in Session : t # s => session'[t] = session[t]
         /\ TryLock(s)
         /\ submits' \in 0 .. MaxSubmits
         /\ faults' \in 0 .. MaxFaults
         /\ UNCHANGED <<setting, drafts, clock, view, history>>
<1>1. PICK c \in Cells, listed \in BOOLEAN :
        /\ session' = [session EXCEPT ![s] =
                         [pc |-> "scope", cells |-> c, expected |-> view[s].at, listed |-> listed]]
        /\ Fault \/ UNCHANGED faults
  BY DEF Submit
<1>. DEFINE new == [pc |-> "scope", cells |-> c, expected |-> view[s].at, listed |-> listed]
<1>2. view[s].at \in 0 .. MaxTime
  BY DEF DsTypeOK
<1>3. new \in Scope /\ new \in SessionState /\ new.expected = view[s].at
  BY <1>2 DEF Scope, SessionState
<1>4. session' = [session EXCEPT ![s] = new]
  BY <1>1
<1>. HIDE DEF new
<1>5. submits' \in 0 .. MaxSubmits
  <2>1. submits \in 0 .. MaxSubmits
    BY DEF DsTypeOK
  <2>2. submits < MaxSubmits /\ submits' = submits + 1
    BY DEF Submit
  <2>. QED
    BY <2>1, <2>2, BoundAssumption
<1>. QED
  BY <1>1, <1>3, <1>4, <1>5, MoveEffect, FaultEffect DEF Submit

LEMMA CheckScopeEffect ==
  ASSUME DsTypeOK, NEW s \in Session, CheckScope(s)
  PROVE  /\ session[s].pc = "scope"
         /\ session' \in [Session -> SessionState]
         /\ session'[s] \in Write
         /\ session'[s].expected = session[s].expected
         /\ session'[s].stamp = clock
         /\ \A t \in Session : t # s => session'[t] = session[t]
         /\ UNCHANGED <<setting, drafts, lock, clock, view, history, submits, faults>>
<1>. DEFINE new == [pc |-> "write", cells |-> session[s].cells,
                    expected |-> session[s].expected, stamp |-> clock]
<1>1. session[s].pc = "scope" /\ session' = [session EXCEPT ![s] = new]
  BY DEF CheckScope
<1>2. session[s].cells \in Cells /\ session[s].expected \in 0 .. MaxTime
  BY <1>1, SessionCases DEF Scope
<1>3. clock \in 1 .. MaxTime
  BY DEF DsTypeOK
<1>4. new \in Write /\ new \in SessionState /\ new.expected = session[s].expected /\ new.stamp = clock
  BY <1>2, <1>3 DEF Write, SessionState
<1>. HIDE DEF new
<1>. QED
  BY <1>1, <1>4, MoveEffect DEF CheckScope

\* The write: the operator's draft has the stamp, every window that knows a version
\* of it no longer knows the last one.
LEMMA UpdateEffect ==
  ASSUME DsTypeOK, NEW s \in Session, session[s].pc = "write", session[s].stamp <= clock,
         UpdateOne(s)
  PROVE  LET o == OperatorOf[s] IN
         /\ drafts' \in [Operator -> Draft \cup {NoDraft}]
         /\ drafts'[o].at = session[s].stamp
         /\ \A p \in Operator : p # o => drafts'[p] = drafts[p]
         /\ \A p \in Operator : drafts'[p].at <= clock
         /\ tied' \subseteq Operator /\ tied \subseteq tied'
         /\ drafts[o].at = session[s].stamp => o \in tied'
         /\ view' \in [Session -> [at : 0 .. MaxTime, last : BOOLEAN]]
         /\ \A t \in Session : view'[t].at = view[t].at
         /\ \A t \in Session : OperatorOf[t] # o => view'[t] = view[t]
<1>. PICK o : o = OperatorOf[s]
  OBVIOUS
<1>1. o \in Operator /\ session[s].cells \in Cells /\ session[s].stamp \in 1 .. MaxTime
  BY SessionCases DEF Write
<1>2. PICK new : new = [cells |-> session[s].cells, at |-> session[s].stamp]
  OBVIOUS
<1>3. new \in Draft /\ new.at = session[s].stamp
  BY <1>1, <1>2 DEF Draft
<1>4. drafts' = [drafts EXCEPT ![o] = new] /\ drafts \in [Operator -> Draft \cup {NoDraft}]
  BY <1>2 DEF UpdateOne, DsTypeOK
<1>5. /\ drafts' \in [Operator -> Draft \cup {NoDraft}]
      /\ drafts'[o].at = session[s].stamp
      /\ \A p \in Operator : p # o => drafts'[p] = drafts[p]
  BY <1>1, <1>3, <1>4
<1>6. \A p \in Operator : drafts'[p].at <= clock
  BY <1>5 DEF DsTypeOK
<1>7. /\ tied' \subseteq Operator /\ tied \subseteq tied'
      /\ drafts[o].at = session[s].stamp => o \in tied'
  BY <1>1 DEF UpdateOne, DsTypeOK
<1>8. ASSUME NEW t \in Session
      PROVE  /\ view'[t] \in [at : 0 .. MaxTime, last : BOOLEAN]
             /\ view'[t].at = view[t].at
             /\ OperatorOf[t] # o => view'[t] = view[t]
  <2>1. /\ view[t] = [at |-> view[t].at, last |-> view[t].last]
        /\ view[t].at \in 0 .. MaxTime /\ view[t].last \in BOOLEAN
    BY DEF DsTypeOK
  <2>. DEFINE known == [view[t] EXCEPT !.last = view[t].at = NoVersion]
  <2>2. view'[t] = IF OperatorOf[t] = o THEN known ELSE view[t]
    BY DEF UpdateOne
  <2>3. known = [at |-> view[t].at, last |-> view[t].at = NoVersion]
    BY <2>1
  <2>. HIDE DEF known
  <2>. QED
    BY <2>1, <2>2, <2>3
<1>9. view' \in [Session -> [at : 0 .. MaxTime, last : BOOLEAN]]
  <2>1. view' = [t \in Session |-> view'[t]]
    BY DEF UpdateOne
  <2>. QED
    BY <1>8, <2>1
<1>. QED
  BY <1>5, <1>6, <1>7, <1>8, <1>9
LEMMA WriteEffect ==
  ASSUME DsTypeOK, NEW s \in Session, WriteDraft(s) \/ WriteRefused(s)
  PROVE  /\ session[s].pc = "write"
         /\ session' \in [Session -> SessionState]
         /\ session'[s].pc = "unlock" /\ session[s] # Idle
         /\ \A t \in Session : t # s => session'[t] = session[t]
         /\ UpdateOne(s) \/ UNCHANGED <<drafts, tied, view>>
         /\ faults' \in 0 .. MaxFaults
         /\ UNCHANGED <<setting, lock, clock, early, submits>>
<1>1. session[s].pc = "write" /\ Finish(s)
  BY DEF WriteDraft, WriteRefused
<1>2. [pc |-> "unlock"] \in SessionState /\ session[s] # Idle
  BY <1>1 DEF SessionState, Idle
<1>3. Fault \/ UNCHANGED faults
  BY DEF WriteDraft, WriteRefused
<1>. QED
  BY <1>1, <1>2, <1>3, MoveEffect, FaultEffect DEF WriteDraft, WriteRefused, Finish

\* The three ways a request ends: refused, answered, or aborted with the lock kept.
LEMMA EndEffect ==
  ASSUME DsTypeOK, NEW s \in Session, RefuseScope(s) \/ Release(s) \/ Abort(s)
  PROVE  /\ session[s] # Idle
         /\ session' \in [Session -> SessionState]
         /\ session'[s] = Idle
         /\ \A t \in Session : t # s => session'[t] = session[t]
         /\ lock' \in [Operator -> Session \cup {Free}]
         /\ \A o \in Operator : o # OperatorOf[s] => lock'[o] = lock[o]
         /\ faults' \in 0 .. MaxFaults
         /\ UNCHANGED <<setting, drafts, clock, view, history, submits>>
<1>1. Idle \in SessionState
  BY DEF SessionState
<1>2. session[s] # Idle
  BY DEF RefuseScope, Release, Abort, Idle
<1>3. session' = [session EXCEPT ![s] = Idle]
  BY DEF RefuseScope, Release, Abort, Refuse
<1>4. Unlock(s) \/ UNCHANGED lock
  BY DEF RefuseScope, Release, Abort, Refuse
<1>5. Fault \/ UNCHANGED faults
  BY DEF RefuseScope, Release, Abort
<1>6. /\ lock' \in [Operator -> Session \cup {Free}]
      /\ \A o \in Operator : o # OperatorOf[s] => lock'[o] = lock[o]
  BY <1>4, LockEffect DEF DsTypeOK
<1>. QED
  BY <1>1, <1>2, <1>3, <1>5, <1>6, MoveEffect, FaultEffect DEF RefuseScope, Release, Abort, Refuse

LEMMA ExpireEffect ==
  ASSUME DsTypeOK, NEW o \in Operator, Expire(o)
  PROVE  /\ lock[o] \in Session
         /\ lock' = [lock EXCEPT ![o] = Free]
         /\ lock' \in [Operator -> Session \cup {Free}]
         /\ early' \subseteq Operator /\ early \subseteq early'
         /\ session[lock[o]] = Idle \/ o \in early'
         /\ faults' \in 0 .. MaxFaults
         /\ UNCHANGED <<setting, drafts, clock, session, view, tied, submits>>
<1>1. lock[o] \in Session /\ lock \in [Operator -> Session \cup {Free}] /\ early \subseteq Operator
  BY DEF DsTypeOK, Expire
<1>2. lock' = [lock EXCEPT ![o] = Free]
  BY DEF Expire
<1>3. lock' \in [Operator -> Session \cup {Free}]
  BY <1>1, <1>2
<1>4. Fault \/ UNCHANGED faults
  BY DEF Expire
<1>5. /\ early' \subseteq Operator /\ early \subseteq early'
      /\ session[lock[o]] = Idle \/ o \in early'
  BY <1>1 DEF Expire
<1>. QED
  BY <1>1, <1>2, <1>3, <1>4, <1>5, FaultEffect DEF Expire

LEMMA ReadDraftsEffect ==
  ASSUME DsTypeOK, NEW s \in Session, ReadDrafts(s)
  PROVE  /\ session[s] = Idle
         /\ view' \in [Session -> [at : 0 .. MaxTime, last : BOOLEAN]]
         /\ view'[s].at = drafts[OperatorOf[s]].at /\ view'[s].last = TRUE
         /\ \A t \in Session : t # s => view'[t] = view[t]
         /\ UNCHANGED <<setting, drafts, lock, clock, session, history, submits, faults>>
<1>. PICK new : new = [at |-> drafts[OperatorOf[s]].at, last |-> TRUE]
  OBVIOUS
<1>1. drafts[OperatorOf[s]].at \in 0 .. MaxTime
  BY SessionCases, StateFacts, BoundAssumption
<1>2. new \in [at : 0 .. MaxTime, last : BOOLEAN]
  BY <1>1
<1>3. view' = [view EXCEPT ![s] = new] /\ session[s] = Idle
  BY DEF ReadDrafts
<1>4. view \in [Session -> [at : 0 .. MaxTime, last : BOOLEAN]]
  BY DEF DsTypeOK
<1>5. /\ view' \in [Session -> [at : 0 .. MaxTime, last : BOOLEAN]]
      /\ view'[s] = new
      /\ \A t \in Session : t # s => view'[t] = view[t]
  BY <1>2, <1>3, <1>4
<1>6. UNCHANGED <<setting, drafts, lock, clock, session, history, submits, faults>>
  BY DEF ReadDrafts
<1>. QED
  BY <1>3, <1>5, <1>6

\* Every step is one of these.
LEMMA StepCases ==
  ASSUME [DsNext]_dsVars
  PROVE  \/ UNCHANGED dsVars
         \/ \E s \in Session : ReadDrafts(s)
         \/ \E s \in Session : Submit(s)
         \/ \E s \in Session : CheckScope(s)
         \/ \E s \in Session : WriteDraft(s) \/ WriteRefused(s)
         \/ \E s \in Session : RefuseScope(s) \/ Release(s) \/ Abort(s)
         \/ \E o \in Operator : Expire(o)
         \/ Tick
BY DEF DsNext

-------------------------------------------------------------------------------
(***************************************************************************)
(* Type correctness                                                        *)
(***************************************************************************)
LEMMA DsTypeInit == DsInit => DsTypeOK
<1>. SUFFICES ASSUME DsInit
              PROVE  DsTypeOK
  OBVIOUS
<1>1. \A o \in Operator : drafts[o].at = 0
  BY DEF DsInit, NoDraft
<1>2. Idle \in SessionState /\ 0 \in 0 .. MaxTime /\ 1 \in 1 .. MaxTime
      /\ 0 \in 0 .. MaxSubmits /\ 0 \in 0 .. MaxFaults
  BY BoundAssumption DEF SessionState
<1>3. view \in [Session -> [at : 0 .. MaxTime, last : BOOLEAN]]
  BY <1>2 DEF DsInit, NoVersion
<1>4. drafts \in [Operator -> Draft \cup {NoDraft}] /\ lock \in [Operator -> Session \cup {Free}]
      /\ session \in [Session -> SessionState]
  BY <1>2 DEF DsInit
<1>5. clock \in 1 .. MaxTime /\ \A o \in Operator : drafts[o].at <= clock
  <2>1. clock = 1
    BY DEF DsInit
  <2>. QED
    BY <1>1, <1>2, <2>1
<1>6. submits \in 0 .. MaxSubmits /\ faults \in 0 .. MaxFaults
  BY <1>2 DEF DsInit
<1>7. /\ asset \in {"item", "in scope", "elsewhere"}
      /\ assignee \in Assigned
      /\ redis \in {"up", "none"}
      /\ early \subseteq Operator /\ tied \subseteq Operator
  BY DEF DsInit
<1>. QED
  BY <1>3, <1>4, <1>5, <1>6, <1>7 DEF DsTypeOK

LEMMA DsTypeStep == DsTypeOK /\ StampsFresh /\ [DsNext]_dsVars => DsTypeOK'
<1>. SUFFICES ASSUME DsTypeOK, StampsFresh, [DsNext]_dsVars
              PROVE  DsTypeOK'
  OBVIOUS
<1>1. CASE UNCHANGED dsVars
  BY <1>1 DEF dsVars, setting, history, DsTypeOK
<1>2. ASSUME NEW s \in Session, ReadDrafts(s)
      PROVE  DsTypeOK'
  BY <1>2, ReadDraftsEffect DEF DsTypeOK, setting, history
<1>3. ASSUME NEW s \in Session, Submit(s)
      PROVE  DsTypeOK'
  <2>1. lock' \in [Operator -> Session \cup {Free}]
    BY <1>3, SubmitEffect, LockEffect
  <2>. QED
    BY <1>3, <2>1, SubmitEffect DEF DsTypeOK, setting, history
<1>4. ASSUME NEW s \in Session, CheckScope(s)
      PROVE  DsTypeOK'
  BY <1>4, CheckScopeEffect DEF DsTypeOK, setting, history
<1>5. ASSUME NEW s \in Session, WriteDraft(s) \/ WriteRefused(s)
      PROVE  DsTypeOK'
  <2>1. /\ session[s].pc = "write" /\ session' \in [Session -> SessionState]
        /\ UpdateOne(s) \/ UNCHANGED <<drafts, tied, view>>
        /\ faults' \in 0 .. MaxFaults
        /\ UNCHANGED <<setting, lock, clock, early, submits>>
    BY <1>5, WriteEffect
  <2>2. session[s].stamp <= clock
    BY <2>1 DEF StampsFresh
  <2>3. /\ drafts' \in [Operator -> Draft \cup {NoDraft}]
        /\ \A p \in Operator : drafts'[p].at <= clock
        /\ tied' \subseteq Operator
        /\ view' \in [Session -> [at : 0 .. MaxTime, last : BOOLEAN]]
    <3>1. CASE UpdateOne(s)
      BY <2>1, <2>2, <3>1, UpdateEffect
    <3>2. CASE UNCHANGED <<drafts, tied, view>>
      BY <3>2 DEF DsTypeOK
    <3>. QED
      BY <2>1, <3>1, <3>2
  <2>. QED
    BY <2>1, <2>3 DEF DsTypeOK, setting
<1>6. ASSUME NEW s \in Session, RefuseScope(s) \/ Release(s) \/ Abort(s)
      PROVE  DsTypeOK'
  BY <1>6, EndEffect DEF DsTypeOK, setting, history
<1>7. ASSUME NEW o \in Operator, Expire(o)
      PROVE  DsTypeOK'
  BY <1>7, ExpireEffect DEF DsTypeOK, setting
<1>8. CASE Tick
  <2>1. clock \in 1 .. MaxTime /\ clock < MaxTime /\ clock' = clock + 1
    BY <1>8 DEF Tick, DsTypeOK
  <2>2. clock' \in 1 .. MaxTime
    BY <2>1, BoundAssumption
  <2>3. \A o \in Operator : drafts[o].at <= clock'
    BY <2>1, StateFacts
  <2>. QED
    BY <1>8, <2>2, <2>3 DEF Tick, DsTypeOK, setting, history
<1>. QED
  BY <1>1, <1>2, <1>3, <1>4, <1>5, <1>6, <1>7, <1>8, StepCases
-------------------------------------------------------------------------------
(***************************************************************************)
(* The lock                                                                *)
(***************************************************************************)
\* Once the lock has failed an operator, it has: the history only grows.
LEMMA GuardedBefore ==
  ASSUME DsTypeOK, StampsFresh, [DsNext]_dsVars, NEW o \in Operator, Guarded(o)'
  PROVE  Guarded(o) /\ redis' = redis /\ early \subseteq early'
<1>1. redis' = redis
  BY DEF DsNext, dsVars, setting, ReadDrafts, Submit, CheckScope, RefuseScope, Refuse, WriteDraft,
         WriteRefused, Release, Abort, Expire, Tick
<1>2. early \subseteq early'
  <2>1. CASE \E p \in Operator : Expire(p)
    BY <2>1, ExpireEffect
  <2>2. CASE ~\E p \in Operator : Expire(p)
    BY <2>2 DEF DsNext, dsVars, history, ReadDrafts, Submit, CheckScope, RefuseScope, Refuse,
                WriteDraft, WriteRefused, Release, Abort, Tick
  <2>. QED
    BY <2>1, <2>2
<1>. QED
  BY <1>1, <1>2 DEF Guarded

LEMMA HolderStep ==
  ASSUME DsTypeOK, HolderInside, StampsFresh, [DsNext]_dsVars
  PROVE  HolderInside'
<1>1. SUFFICES ASSUME NEW s \in Session, Guarded(OperatorOf[s])', session'[s] # Idle
               PROVE  lock'[OperatorOf[s]] = s
  BY DEF HolderInside
<1>. PICK o : o = OperatorOf[s]
  OBVIOUS
<1>2. o \in Operator /\ Guarded(o) /\ redis = "up"
  BY <1>1, GuardedBefore, SessionCases DEF Guarded
<1>3. session[s] # Idle => lock[o] = s
  BY <1>2 DEF HolderInside
<1>4. CASE UNCHANGED dsVars
  BY <1>1, <1>3, <1>4 DEF dsVars
<1>5. CASE \E t \in Session : ReadDrafts(t)
  BY <1>1, <1>3, <1>5, ReadDraftsEffect
<1>6. ASSUME NEW t \in Session, Submit(t)
      PROVE  lock'[o] = s
  <2>1. CASE t = s
    BY <1>2, <1>6, <2>1, SubmitEffect, LockEffect
  <2>2. CASE t # s
    <3>1. session[s] # Idle /\ lock[o] = s
      BY <1>1, <1>3, <1>6, <2>2, SubmitEffect
    <3>2. s # Free
      BY SessionAssumption DEF Free
    <3>3. OperatorOf[t] # o
      BY <1>2, <1>6, <3>1, <3>2, SubmitEffect, LockEffect
    <3>. QED
      BY <1>2, <1>6, <3>1, <3>3, SubmitEffect, LockEffect
  <2>. QED
    BY <2>1, <2>2
<1>7. CASE \E t \in Session : CheckScope(t)
  <2>1. PICK t \in Session : CheckScope(t)
    BY <1>7
  <2>2. session[t] # Idle /\ lock' = lock
    BY <2>1, CheckScopeEffect, SessionCases
  <2>3. session[s] # Idle
    BY <1>1, <2>1, <2>2, CheckScopeEffect
  <2>. QED
    BY <1>3, <2>2, <2>3
<1>8. CASE \E t \in Session : WriteDraft(t) \/ WriteRefused(t)
  BY <1>1, <1>3, <1>8, WriteEffect
<1>9. ASSUME NEW t \in Session, RefuseScope(t) \/ Release(t) \/ Abort(t)
      PROVE  lock'[o] = s
  <2>1. t # s /\ session[s] # Idle /\ session[t] # Idle
    BY <1>1, <1>9, EndEffect
  <2>2. OperatorOf[t] # o
    BY <1>2, <1>3, <2>1 DEF HolderInside
  <2>. QED
    BY <1>2, <1>3, <1>9, <2>1, <2>2, EndEffect
<1>10. ASSUME NEW p \in Operator, Expire(p)
       PROVE  lock'[o] = s
  <2>1. session[s] # Idle /\ lock[o] = s
    BY <1>1, <1>3, <1>10, ExpireEffect
  <2>2. p # o
    BY <1>1, <1>10, <2>1, ExpireEffect DEF Guarded
  <2>. QED
    BY <1>2, <1>10, <2>1, <2>2 DEF DsTypeOK, Expire
<1>11. CASE Tick
  BY <1>1, <1>3, <1>11 DEF Tick
<1>. QED
  BY <1>4, <1>5, <1>6, <1>7, <1>8, <1>9, <1>10, <1>11, StepCases

-------------------------------------------------------------------------------
(***************************************************************************)
(* The stamps                                                              *)
(***************************************************************************)
LEMMA AloneInside ==
  ASSUME HolderInside, NEW s \in Session, NEW t \in Session,
         OperatorOf[s] = OperatorOf[t], Guarded(OperatorOf[s]),
         session[s] # Idle, session[t] # Idle
  PROVE  s = t
BY DEF HolderInside

LEMMA StampsStep ==
  ASSUME DsTypeOK, HolderInside, StampsFresh, [DsNext]_dsVars
  PROVE  StampsFresh'
<1>1. SUFFICES ASSUME NEW s \in Session, session'[s].pc = "write"
               PROVE  /\ session'[s].stamp <= clock'
                      /\ Guarded(OperatorOf[s])' => drafts'[OperatorOf[s]].at <= session'[s].stamp
  BY DEF StampsFresh
<1>. PICK o : o = OperatorOf[s]
  OBVIOUS
<1>2. o \in Operator /\ (Guarded(o)' => Guarded(o))
  BY GuardedBefore, SessionCases
<1>3. session[s].pc = "write" =>
        /\ session[s].stamp \in Nat /\ session[s].stamp <= clock
        /\ Guarded(o) => drafts[o].at <= session[s].stamp
  BY SessionCases, BoundAssumption DEF StampsFresh, Write
<1>a. CASE session'[s] = session[s] /\ drafts'[o] = drafts[o] /\ clock' = clock
  BY <1>1, <1>2, <1>3, <1>a
<1>4. CASE UNCHANGED dsVars
  BY <1>a, <1>4 DEF dsVars
<1>5. CASE \E t \in Session : ReadDrafts(t)
  BY <1>a, <1>5, ReadDraftsEffect
<1>6. CASE \E t \in Session : Submit(t)
  <2>1. PICK t \in Session : Submit(t)
    BY <1>6
  <2>2. t # s
    BY <1>1, <2>1, SubmitEffect DEF Scope
  <2>. QED
    BY <1>a, <2>1, <2>2, SubmitEffect
<1>7. ASSUME NEW t \in Session, CheckScope(t)
      PROVE  /\ session'[s].stamp <= clock'
             /\ Guarded(o)' => drafts'[o].at <= session'[s].stamp
  <2>1. CASE t = s
    <3>1. session'[s].stamp = clock /\ clock' = clock /\ drafts' = drafts
      BY <1>7, <2>1, CheckScopeEffect
    <3>. QED
      BY <1>2, <3>1, StateFacts
  <2>2. CASE t # s
    BY <1>a, <1>7, <2>2, CheckScopeEffect
  <2>. QED
    BY <2>1, <2>2
<1>8. ASSUME NEW t \in Session, WriteDraft(t) \/ WriteRefused(t)
      PROVE  /\ session'[s].stamp <= clock'
             /\ Guarded(o)' => drafts'[o].at <= session'[s].stamp
  <2>1. /\ session[t].pc = "write" /\ session[t] # Idle /\ session'[t].pc = "unlock"
        /\ \A u \in Session : u # t => session'[u] = session[u]
        /\ UpdateOne(t) \/ UNCHANGED <<drafts, tied, view>>
        /\ clock' = clock
    BY <1>8, WriteEffect
  <2>2. t # s /\ session'[s] = session[s] /\ session[s].pc = "write" /\ session[s] # Idle
    BY <1>1, <2>1, SessionCases
  <2>3. CASE UNCHANGED <<drafts, tied, view>>
    BY <1>a, <2>1, <2>2, <2>3
  <2>4. CASE UpdateOne(t) /\ OperatorOf[t] # o
    <3>1. session[t].stamp <= clock
      BY <2>1 DEF StampsFresh
    <3>2. drafts'[o] = drafts[o]
      BY <1>2, <2>1, <2>4, <3>1, UpdateEffect
    <3>. QED
      BY <1>a, <2>1, <2>2, <3>2
  <2>5. CASE OperatorOf[t] = o
    <3>1. ~Guarded(o)
      BY <2>1, <2>2, <2>5, AloneInside
    <3>. QED
      BY <1>2, <1>3, <2>1, <2>2, <3>1
  <2>. QED
    BY <2>1, <2>3, <2>4, <2>5
<1>9. CASE \E t \in Session : RefuseScope(t) \/ Release(t) \/ Abort(t)
  <2>1. PICK t \in Session : RefuseScope(t) \/ Release(t) \/ Abort(t)
    BY <1>9
  <2>2. t # s
    BY <1>1, <2>1, EndEffect DEF Idle
  <2>. QED
    BY <1>a, <2>1, <2>2, EndEffect
<1>10. CASE \E p \in Operator : Expire(p)
  BY <1>a, <1>10, ExpireEffect
<1>11. CASE Tick
  <2>1. /\ session' = session /\ drafts' = drafts
        /\ clock' = clock + 1 /\ clock \in Nat
    BY <1>11, StateFacts DEF Tick
  <2>2. session[s].stamp <= clock' /\ (Guarded(o)' => drafts[o].at <= session[s].stamp)
    BY <1>1, <1>2, <1>3, <2>1
  <2>. QED
    BY <2>1, <2>2
<1>. QED
  BY <1>4, <1>5, <1>6, <1>7, <1>8, <1>9, <1>10, <1>11, StepCases
-------------------------------------------------------------------------------
(***************************************************************************)
(* The version check                                                       *)
(***************************************************************************)
LEMMA ViewsStep ==
  ASSUME DsTypeOK, HolderInside, StampsFresh, ViewsKept, [DsNext]_dsVars
  PROVE  ViewsKept'
<1>. DEFINE Sends(s) == session'[s].pc \in {"scope", "write"} => session'[s].expected = view'[s].at
            Kept(s, o) ==
              /\ Guarded(o)' => view'[s].at <= drafts'[o].at
              /\ Guarded(o)' /\ o \notin tied' /\ ~view'[s].last => view'[s].at < drafts'[o].at
<1>1. SUFFICES ASSUME NEW s \in Session
               PROVE  Sends(s) /\ Kept(s, OperatorOf[s])
  BY DEF ViewsKept
<1>. PICK o : o = OperatorOf[s]
  OBVIOUS
<1>2. o \in Operator /\ (Guarded(o)' => Guarded(o))
  BY GuardedBefore, SessionCases
<1>3. /\ session[s].pc \in {"scope", "write"} => session[s].expected = view[s].at
      /\ Guarded(o) => view[s].at <= drafts[o].at
      /\ Guarded(o) /\ o \notin tied /\ ~view[s].last => view[s].at < drafts[o].at
  BY DEF ViewsKept
<1>a. ASSUME session'[s] = session[s] \/ session'[s].pc \in {"idle", "unlock"}, view'[s] = view[s]
      PROVE  Sends(s)
  BY <1>3, <1>a
<1>b. ASSUME view'[s] = view[s], drafts'[o] = drafts[o], tied \subseteq tied'
      PROVE  Kept(s, o)
  BY <1>2, <1>3, <1>b
<1>4. CASE UNCHANGED dsVars
  BY <1>a, <1>b, <1>4 DEF dsVars, history
<1>5. ASSUME NEW t \in Session, ReadDrafts(t)
      PROVE  Sends(s) /\ Kept(s, o)
  <2>1. CASE t = s
    <3>1. /\ session'[s].pc = "idle"
          /\ view'[s].at = drafts[o].at /\ view'[s].last = TRUE /\ drafts' = drafts
      <4>1. session[s] = Idle /\ session' = session /\ Idle.pc = "idle"
        BY <1>5, <2>1, ReadDraftsEffect DEF Idle
      <4>. QED
        BY <1>5, <2>1, <4>1, ReadDraftsEffect
    <3>. QED
      BY <1>2, <3>1, StateFacts
  <2>2. CASE t # s
    <3>1. session' = session /\ view'[s] = view[s] /\ drafts' = drafts /\ tied' = tied
      BY <1>5, <2>2, ReadDraftsEffect DEF history
    <3>. QED
      BY <1>a, <1>b, <3>1
  <2>. QED
    BY <2>1, <2>2
<1>6. ASSUME NEW t \in Session, Submit(t)
      PROVE  Sends(s) /\ Kept(s, o)
  <2>1. view' = view /\ drafts' = drafts /\ tied' = tied
    BY <1>6, SubmitEffect DEF history
  <2>2. Sends(s)
    <3>1. CASE t = s
      BY <1>6, <2>1, <3>1, SubmitEffect
    <3>2. CASE t # s
      BY <1>a, <1>6, <2>1, <3>2, SubmitEffect
    <3>. QED
      BY <3>1, <3>2
  <2>. QED
    BY <1>b, <2>1, <2>2
<1>7. ASSUME NEW t \in Session, CheckScope(t)
      PROVE  Sends(s) /\ Kept(s, o)
  <2>1. view' = view /\ drafts' = drafts /\ tied' = tied
    BY <1>7, CheckScopeEffect DEF history
  <2>2. Sends(s)
    <3>1. CASE t = s
      BY <1>3, <1>7, <2>1, <3>1, CheckScopeEffect
    <3>2. CASE t # s
      BY <1>a, <1>7, <2>1, <3>2, CheckScopeEffect
    <3>. QED
      BY <3>1, <3>2
  <2>. QED
    BY <1>b, <2>1, <2>2
<1>8. ASSUME NEW t \in Session, WriteDraft(t) \/ WriteRefused(t)
      PROVE  Sends(s) /\ Kept(s, o)
  <2>1. /\ session[t].pc = "write" /\ session[t] # Idle /\ session'[t].pc = "unlock"
        /\ \A u \in Session : u # t => session'[u] = session[u]
        /\ UpdateOne(t) \/ UNCHANGED <<drafts, tied, view>>
    BY <1>8, WriteEffect
  <2>2. session'[s] = session[s] \/ session'[s].pc \in {"idle", "unlock"}
    BY <2>1
  <2>3. CASE UNCHANGED <<drafts, tied, view>>
    BY <1>a, <1>b, <2>2, <2>3
  <2>4. CASE UpdateOne(t)
    <3>. PICK p : p = OperatorOf[t]
      OBVIOUS
    <3>1. session[t].stamp <= clock /\ (Guarded(p) => drafts[p].at <= session[t].stamp)
      BY <2>1 DEF StampsFresh
    <3>2. /\ drafts'[p].at = session[t].stamp
          /\ \A q \in Operator : q # p => drafts'[q] = drafts[q]
          /\ tied \subseteq tied'
          /\ drafts[p].at = session[t].stamp => p \in tied'
          /\ view'[s].at = view[s].at
          /\ o # p => view'[s] = view[s]
      BY <2>1, <2>4, <3>1, UpdateEffect
    <3>3. CASE o # p
      BY <1>2, <1>a, <1>b, <2>2, <3>2, <3>3
    <3>4. CASE o = p
      <4>1. Sends(s)
        BY <1>3, <2>2, <3>2
      <4>2. session[t].stamp \in Nat
        BY <2>1, SessionCases, BoundAssumption DEF Write
      <4>3. view[s].at \in Nat /\ drafts[o].at \in Nat
        BY <1>2, StateFacts
      <4>4. Guarded(o)' => view'[s].at <= drafts'[o].at
        BY <1>2, <1>3, <3>1, <3>2, <3>4, <4>2, <4>3
      <4>5. Guarded(o)' /\ o \notin tied' => view'[s].at < drafts'[o].at
        BY <1>2, <1>3, <3>1, <3>2, <3>4, <4>2, <4>3
      <4>. QED
        BY <4>1, <4>4, <4>5
    <3>. QED
      BY <3>3, <3>4
  <2>. QED
    BY <2>1, <2>3, <2>4
<1>9. ASSUME NEW t \in Session, RefuseScope(t) \/ Release(t) \/ Abort(t)
      PROVE  Sends(s) /\ Kept(s, o)
  <2>1. view' = view /\ drafts' = drafts /\ tied' = tied
        /\ (session'[s] = session[s] \/ session'[s].pc \in {"idle", "unlock"})
    BY <1>9, EndEffect DEF history, Idle
  <2>. QED
    BY <1>a, <1>b, <2>1
<1>10. CASE \E p \in Operator : Expire(p)
  BY <1>a, <1>b, <1>10, ExpireEffect
<1>11. CASE Tick
  BY <1>a, <1>b, <1>11 DEF Tick, history
<1>. QED
  BY <1>4, <1>5, <1>6, <1>7, <1>8, <1>9, <1>10, <1>11, StepCases

LEMMA DsIInvInit == DsInit => DsIInv
<1>. SUFFICES ASSUME DsInit
              PROVE  DsIInv
  OBVIOUS
<1>1. \A s \in Session : session[s] = Idle /\ session[s].pc = "idle" /\ OperatorOf[s] \in Operator
  BY OperatorOfAssumption DEF DsInit, Idle
<1>2. \A s \in Session : view[s].at = 0 /\ view[s].last = TRUE
  BY DEF DsInit, NoVersion
<1>3. \A o \in Operator : drafts[o].at = 0
  BY DEF DsInit, NoDraft
<1>4. HolderInside /\ StampsFresh /\ ViewsKept
  BY <1>1, <1>2, <1>3 DEF HolderInside, StampsFresh, ViewsKept
<1>. QED
  BY <1>4, DsTypeInit DEF DsIInv

LEMMA DsIInvStep == DsIInv /\ [DsNext]_dsVars => DsIInv'
BY DsTypeStep, HolderStep, StampsStep, ViewsStep DEF DsIInv

LEMMA DsIInvHolds == DsSpec => []DsIInv
BY DsIInvInit, DsIInvStep, PTL DEF DsSpec

\* Submit: two windows of an operator are between TryLock and Unlock at once only if
\* the lock expired under its owner or Redis is absent; and every variable has its
\* type.
THEOREM DsInvHolds == DsSpec => []DsInv
<1>1. DsIInv => DsInv
  <2>. SUFFICES ASSUME DsIInv
                PROVE  OneInside
    BY DEF DsIInv, DsInv
  <2>1. SUFFICES ASSUME NEW o \in Operator, Guarded(o)
                 PROVE  Cardinality(Inside(o)) <= 1
    BY DEF OneInside
  <2>2. CASE Inside(o) = {}
    BY <2>2, FS_EmptySet
  <2>3. CASE Inside(o) # {}
    <3>1. PICK s \in Inside(o) : TRUE
      BY <2>3
    <3>2. \A t \in Inside(o) : t = s
      BY <2>1, <3>1 DEF Inside, DsIInv, HolderInside
    <3>3. Inside(o) = {s}
      BY <3>1, <3>2
    <3>. QED
      BY <3>3, FS_Singleton
  <2>. QED
    BY <2>2, <2>3
<1>. QED
  BY <1>1, DsIInvHolds, PTL

\* The updated_at of an operator's draft never goes back while the lock holds: a
\* writer's clock reading is not older than the draft it replaces.
THEOREM VersionsAdvanceHolds == DsSpec => VersionsAdvance
<1>. DEFINE Advance == \A o \in Operator : Guarded(o) => drafts'[o].at >= drafts[o].at
<1>1. DsIInv /\ [DsNext]_dsVars => Advance
  <2>. SUFFICES ASSUME DsIInv, [DsNext]_dsVars, NEW o \in Operator, Guarded(o)
                PROVE  drafts'[o].at >= drafts[o].at
    OBVIOUS
  <2>0. drafts[o].at \in Nat /\ DsTypeOK
    BY StateFacts DEF DsIInv
  <2>1. CASE drafts' = drafts
    BY <2>0, <2>1
  <2>2. ASSUME NEW t \in Session, session[t].pc = "write", UpdateOne(t)
        PROVE  drafts'[o].at >= drafts[o].at
    <3>. PICK p : p = OperatorOf[t]
      OBVIOUS
    <3>1. session[t].stamp <= clock /\ (Guarded(p) => drafts[p].at <= session[t].stamp)
      BY <2>2 DEF DsIInv, StampsFresh
    <3>2. drafts'[p].at = session[t].stamp /\ \A q \in Operator : q # p => drafts'[q] = drafts[q]
      BY <2>0, <2>2, <3>1, UpdateEffect
    <3>3. session[t].stamp \in Nat
      BY <2>0, <2>2, SessionCases, BoundAssumption DEF Write
    <3>. QED
      BY <2>0, <3>1, <3>2, <3>3
  <2>3. drafts' = drafts \/ \E t \in Session : session[t].pc = "write" /\ UpdateOne(t)
    BY DEF DsNext, dsVars, ReadDrafts, Submit, CheckScope, RefuseScope, Refuse, WriteDraft,
           WriteRefused, Release, Abort, Expire, Tick
  <2>. QED
    BY <2>1, <2>2, <2>3
<1>. QED
  BY <1>1, DsIInvHolds, PTL DEF DsSpec, VersionsAdvance

\* Submit's version check: while the lock holds, a window that sends the version it
\* last read never replaces an edit it has not seen, unless two writes fell into the
\* same millisecond.
THEOREM NoUnseenOverwriteHolds == DsSpec => []NoUnseenOverwrite
<1>1. DsIInv => NoUnseenOverwrite
  <2>. SUFFICES ASSUME DsIInv, NEW s \in Session,
                       session[s].pc = "write", session[s].expected # NoVersion, Matches(s),
                       ~view[s].last, OperatorOf[s] \notin tied, Guarded(OperatorOf[s])
                PROVE  FALSE
    BY DEF NoUnseenOverwrite
  <2>1. drafts[OperatorOf[s]].at = view[s].at
    BY DEF DsIInv, ViewsKept, Matches
  <2>2. view[s].at < drafts[OperatorOf[s]].at /\ view[s].at \in Nat
    BY StateFacts DEF DsIInv, ViewsKept
  <2>. QED
    BY <2>1, <2>2
<1>. QED
  BY <1>1, DsIInvHolds, PTL

-------------------------------------------------------------------------------
(***************************************************************************)
(* The merging of the drafts                                               *)
(***************************************************************************)
LEMMA ImageFinite ==
  ASSUME NEW S, IsFiniteSet(S), NEW f, DOMAIN f = S, f = [x \in S |-> f[x]]
  PROVE  IsFiniteSet({f[x] : x \in S})
<1>. PICK T : T = {f[x] : x \in S}
  OBVIOUS
<1>1. f \in [S -> T] /\ \A t \in T : \E x \in S : f[x] = t
  OBVIOUS
<1>2. f \in Surjection(S, T)
  BY <1>1 DEF Surjection
<1>3. IsFiniteSet(T)
  BY <1>2, FS_Surjection
<1>. QED
  BY <1>3

\* One draft for each operator: the latest of each are all of them.
LEMMA OnePerOperator ==
  ASSUME DsTypeOK
  PROVE  /\ LatestPerOperator(Entries) = Entries
         /\ IsFiniteSet(Entries)
         /\ \A e \in Entries : e.at \in Nat /\ e.operator \in Operator
<1>. DEFINE EntryOf(o) == [operator |-> o, cells |-> drafts[o].cells, at |-> drafts[o].at]
            Writers == {o \in Operator : drafts[o] # NoDraft}
<1>1. Entries = {EntryOf(o) : o \in Writers}
  BY DEF Entries
<1>2. \A e \in Entries : e = EntryOf(e.operator) /\ e.operator \in Writers
  BY <1>1
<1>3. \A e \in Entries : e.at \in Nat /\ e.operator \in Operator
  BY <1>2, StateFacts
<1>4. \A e, f \in Entries : f.operator = e.operator => f = e
  BY <1>2
<1>5. LatestPerOperator(Entries) = Entries
  BY <1>3, <1>4 DEF LatestPerOperator
<1>6. IsFiniteSet(Writers)
  BY OperatorAssumption, FS_Subset
<1>7. IsFiniteSet({EntryOf(o) : o \in Writers})
  <2>. PICK W : W = Writers
    OBVIOUS
  <2>. PICK f : f = [o \in W |-> EntryOf(o)]
    OBVIOUS
  <2>1. IsFiniteSet({f[o] : o \in W})
    BY <1>6, ImageFinite
  <2>2. {f[o] : o \in W} = {EntryOf(o) : o \in Writers}
    OBVIOUS
  <2>. QED
    BY <2>1, <2>2
<1>. QED
  BY <1>1, <1>3, <1>5, <1>7

\* A set of two things that differ has at least two members.
LEMMA TwoMembers ==
  ASSUME NEW S, IsFiniteSet(S), NEW x \in S, NEW y \in S, x # y
  PROVE  Cardinality(S) >= 2
<1>1. {x, y} \in SUBSET S
  OBVIOUS
<1>2. IsFiniteSet({x, y}) /\ Cardinality({x, y}) <= Cardinality(S)
  BY <1>1, FS_Subset
<1>3. IsFiniteSet({x}) /\ Cardinality({x}) = 1
  BY FS_Singleton
<1>4. {x, y} = {x} \cup {y} /\ y \notin {x}
  OBVIOUS
<1>5. Cardinality({x, y}) = 1 + 1
  BY <1>3, <1>4, FS_AddElement
<1>6. Cardinality(S) \in Nat
  BY FS_CardinalityType
<1>. QED
  BY <1>2, <1>5, <1>6

Own == {e \in Entries : e.operator \in assignee}

\* HasAssigneeConflict: the drafts of two assignees differ in their normal form.
LEMMA ConflictMeans ==
  ASSUME DsTypeOK
  PROVE  /\ AssigneeEntries(Entries, assignee) = Own
         /\ HasAssigneeConflict(Entries, assignee)
              <=> \E e, f \in Own : EntryKey(e) # EntryKey(f)
<1>. PICK all : all = Entries
  OBVIOUS
<1>. PICK own : own = {e \in all : e.operator \in assignee}
  OBVIOUS
<1>1. LatestPerOperator(all) = all /\ IsFiniteSet(all)
  BY OnePerOperator
<1>2. AssigneeEntries(all, assignee) = own
  BY <1>1 DEF AssigneeEntries
<1>3. IsFiniteSet(own)
  BY <1>1, FS_Subset
<1>. PICK keys : keys = {EntryKey(e) : e \in own}
  OBVIOUS
<1>4. IsFiniteSet(keys)
  <2>. PICK f : f = [e \in own |-> EntryKey(e)]
    OBVIOUS
  <2>1. IsFiniteSet({f[e] : e \in own})
    BY <1>3, ImageFinite
  <2>2. {f[e] : e \in own} = keys
    OBVIOUS
  <2>. QED
    BY <2>1, <2>2
<1>5. HasAssigneeConflict(all, assignee) <=> Cardinality(own) >= 2 /\ Cardinality(keys) > 1
  BY <1>2 DEF HasAssigneeConflict
<1>6. Cardinality(keys) \in Nat
  BY <1>4, FS_CardinalityType
<1>7. ASSUME NEW e \in own, NEW f \in own, EntryKey(e) # EntryKey(f)
      PROVE  Cardinality(own) >= 2 /\ Cardinality(keys) > 1
  <2>1. Cardinality(own) >= 2
    BY <1>3, <1>7, TwoMembers
  <2>2. Cardinality(keys) >= 2
    BY <1>4, <1>7, TwoMembers
  <2>. QED
    BY <1>6, <2>1, <2>2
<1>8. ASSUME Cardinality(keys) > 1
      PROVE  \E e, f \in own : EntryKey(e) # EntryKey(f)
  <2>. SUFFICES ASSUME \A e, f \in own : EntryKey(e) = EntryKey(f) PROVE FALSE
    OBVIOUS
  <2>1. keys # {}
    BY <1>8, FS_EmptySet
  <2>2. PICK x \in keys : TRUE
    BY <2>1
  <2>3. keys = {x}
    OBVIOUS
  <2>4. Cardinality({x}) = 1
    BY FS_Singleton
  <2>. QED
    BY <1>8, <2>3, <2>4
<1>. QED
  BY <1>2, <1>5, <1>7, <1>8 DEF Own

\* PickConsensus at the archive: where assignees do not disagree, the draft taken has
\* the content of each assignee's draft, whatever the order they are returned in;
\* without an assignee's draft it is the newest one.
THEOREM ConsensusSpeaksForAllHolds == DsSpec => []ConsensusSpeaksForAll
<1>1. DsTypeOK => ConsensusSpeaksForAll
  <2>. SUFFICES ASSUME DsTypeOK, ~HasAssigneeConflict(Entries, assignee)
                PROVE  \A pick \in PickConsensus(Entries, assignee) :
                         IF Own = {} THEN \A e \in Entries : e.at <= pick.at
                         ELSE pick \in Own /\ \A e \in Own : EntryKey(e) = EntryKey(pick)
    BY DEF ConsensusSpeaksForAll, Own
  <2>1. /\ AssigneeEntries(Entries, assignee) = Own
        /\ \A e, f \in Own : EntryKey(e) = EntryKey(f)
    BY ConflictMeans
  <2>2. CASE Own = {}
    BY <2>1, <2>2 DEF PickConsensus, PickForArchive, Newest, Own
  <2>3. CASE Own # {}
    BY <2>1, <2>3 DEF PickConsensus, Newest
  <2>. QED
    BY <2>2, <2>3
<1>2. DsIInv => DsTypeOK
  BY DEF DsIInv
<1>. QED
  BY <1>1, <1>2, DsIInvHolds, PTL

-------------------------------------------------------------------------------
(***************************************************************************)
(* Numbers, and functions computed along them                              *)
(***************************************************************************)
Less == {pair \in Nat \X Nat : pair[1] < pair[2]}

LEMMA LeastNatural ==
  ASSUME NEW T, T \subseteq Nat, T # {}
  PROVE  \E m \in T : \A n \in T : m <= n
<1>1. OpToRel(<, Nat) = Less
  BY DEF OpToRel, Less
<1>2. PICK m \in T : \A n \in T : <<n, m>> \notin Less
  BY <1>1, NatLessThanWellFounded, WFMin
<1>3. \A n \in T : ~(n < m)
  BY <1>2 DEF Less
<1>. QED
  BY <1>3

(* Induction: a set that holds a number as soon as it holds all the        *)
(* smaller ones holds them all.                                            *)
LEMMA ByNumber ==
  ASSUME NEW R, \A n \in Nat : (\A k \in Nat : k < n => k \in R) => n \in R
  PROVE  \A n \in Nat : n \in R
<1>. SUFFICES ASSUME \E n \in Nat : n \notin R PROVE FALSE
  OBVIOUS
<1>. PICK Bad : Bad = {n \in Nat : n \notin R}
  OBVIOUS
<1>1. Bad \subseteq Nat /\ Bad # {}
  OBVIOUS
<1>2. PICK m \in Bad : \A n \in Bad : m <= n
  BY <1>1, LeastNatural
<1>3. \A n \in Nat : n < m => n \in R
  BY <1>1, <1>2
<1>. QED
  BY <1>2, <1>3

(* A table whose entries are each computed from the one before exists, up  *)
(* to any number.                                                          *)
Computes(n, first, step, g) == g[0] = first /\ \A i \in 1 .. n : g[i] = step[<<i, g[i - 1]>>]

LEMMA TableExists ==
  ASSUME NEW T, NEW first \in T, NEW step \in [Nat \X T -> T], NEW n \in Nat
  PROVE  \E g \in [0 .. n -> T] : Computes(n, first, step, g)
<1>. DEFINE R == {k \in Nat : \E g \in [0 .. k -> T] : Computes(k, first, step, g)}
<1>1. ASSUME NEW k \in Nat, \A j \in Nat : j < k => j \in R
      PROVE  k \in R
  <2>1. CASE k = 0
    <3>. PICK g : g = [i \in 0 .. k |-> first]
      OBVIOUS
    <3>1. g \in [0 .. k -> T] /\ g[0] = first /\ \A i \in 1 .. k : FALSE
      BY <2>1
    <3>. QED
      BY <3>1 DEF Computes
  <2>2. CASE k # 0
    <3>. PICK j : j = k - 1
      OBVIOUS
    <3>1. j \in Nat /\ j < k /\ k = j + 1
      BY <2>2
    <3>. PICK g \in [0 .. j -> T] : Computes(j, first, step, g)
      BY <1>1, <3>1
    <3>. PICK h : h = [i \in 0 .. k |-> IF i = k THEN step[<<k, g[j]>>] ELSE g[i]]
      OBVIOUS
    <3>2. g[j] \in T
      BY <3>1
    <3>3. step[<<k, g[j]>>] \in T
      BY <3>2
    <3>4. h \in [0 .. k -> T]
      BY <3>1, <3>3
    <3>5. h[k] = step[<<k, g[j]>>] /\ \A i \in 0 .. j : h[i] = g[i]
      BY <3>1
    <3>6. h[0] = first
      BY <3>1, <3>5 DEF Computes
    <3>7. ASSUME NEW i \in 1 .. k PROVE h[i] = step[<<i, h[i - 1]>>]
      <4>1. CASE i = k
        <5>1. i - 1 = j /\ j \in 0 .. j
          BY <3>1, <4>1
        <5>. QED
          BY <3>5, <4>1, <5>1
      <4>2. CASE i # k
        <5>1. i \in 1 .. j /\ i \in 0 .. j /\ i - 1 \in 0 .. j
          BY <3>1, <4>2
        <5>2. g[i] = step[<<i, g[i - 1]>>]
          BY <5>1 DEF Computes
        <5>. QED
          BY <3>5, <5>1, <5>2
      <4>. QED
        BY <4>1, <4>2
    <3>8. Computes(k, first, step, h)
      BY <3>6, <3>7 DEF Computes
    <3>. QED
      BY <3>4, <3>8
  <2>. QED
    BY <2>1, <2>2
<1>2. n \in R
  <2>. HIDE DEF R
  <2>. QED
    BY <1>1, ByNumber
<1>. QED
  BY <1>2

-------------------------------------------------------------------------------
(***************************************************************************)
(* Characters and texts                                                    *)
(***************************************************************************)
Text == Seq(Character)

\* In half width a character is a blank or a letter.
LEMMA CharacterCases ==
  /\ Space \in Character /\ Letter \in Character /\ Space # Letter
  /\ \A c \in Character : HalfWidth(c) = Space \/ HalfWidth(c) = Letter
BY DEF Character, Space, WideSpace, Letter, WideLetter, HalfWidth

LEMMA HalfWidthType ==
  ASSUME NEW s \in Text
  PROVE  ToHalfWidth(s) \in Text /\ Len(ToHalfWidth(s)) = Len(s)
         /\ \A i \in 1 .. Len(s) : ToHalfWidth(s)[i] = HalfWidth(s[i])
<1>1. \A c \in Character : HalfWidth(c) \in Character
  BY CharacterCases
<1>. QED
  BY <1>1 DEF Text, ToHalfWidth

\* The character continues a run of spaces.
Repeats(u, i) == i > 1 /\ u[i] = Space /\ u[i - 1] = Space

Merges(u, g) ==
  /\ g \in [0 .. Len(u) -> Text]
  /\ g[0] = << >>
  /\ \A i \in 1 .. Len(u) :
       g[i] = IF Repeats(u, i) THEN g[i - 1] ELSE Append(g[i - 1], u[i])

LEMMA MergeDef ==
  ASSUME NEW u \in Text
  PROVE  \E g : Merges(u, g) /\ MergeSpaces(u) = g[Len(u)]
<1>. DEFINE Value(i, x) == IF Repeats(u, i) THEN x ELSE Append(x, u[i])
            step == [p \in Nat \X Text |-> IF p[1] \in 1 .. Len(u) THEN Value(p[1], p[2]) ELSE p[2]]
            Eqn(g) == g = [i \in 0 .. Len(u) |->
                             IF i = 0 THEN << >>
                             ELSE IF i > 1 /\ u[i] = Space /\ u[i - 1] = Space THEN g[i - 1]
                             ELSE Append(g[i - 1], u[i])]
<1>1. ASSUME NEW i \in 1 .. Len(u), NEW x \in Text PROVE Value(i, x) \in Text
  BY DEF Text
<1>2. step \in [Nat \X Text -> Text]
  BY <1>1
<1>3. \A i \in 1 .. Len(u), x \in Text : step[<<i, x>>] = Value(i, x)
  BY DEF Text
<1>4. Len(u) \in Nat /\ << >> \in Text
  BY DEF Text
<1>5. PICK g \in [0 .. Len(u) -> Text] : Computes(Len(u), << >>, step, g)
  <2>. HIDE DEF step
  <2>. QED
    BY <1>2, <1>4, TableExists
<1>6. ASSUME NEW i \in 1 .. Len(u) PROVE g[i] = Value(i, g[i - 1])
  <2>1. i - 1 \in 0 .. Len(u)
    BY <1>4
  <2>2. g[i - 1] \in Text
    BY <2>1
  <2>3. g[i] = step[<<i, g[i - 1]>>]
    BY <1>5 DEF Computes
  <2>. HIDE DEF step, Value
  <2>. QED
    BY <1>3, <2>2, <2>3
<1>7. Eqn(g)
  <2>1. g[0] = << >>
    BY <1>5 DEF Computes
  <2>2. g = [i \in 0 .. Len(u) |-> g[i]]
    OBVIOUS
  <2>. HIDE DEF step
  <2>3. \A i \in 0 .. Len(u) : i = 0 \/ i \in 1 .. Len(u)
    BY <1>4
  <2>. QED
    BY <1>6, <2>1, <2>2, <2>3 DEF Repeats
<1>. PICK f : f = CHOOSE h : Eqn(h)
  OBVIOUS
<1>8. Eqn(f)
  <2>. HIDE DEF Eqn
  <2>. QED
    BY <1>7, Zenon
<1>9. MergeSpaces(u) = f[Len(u)]
  BY Zenon DEF MergeSpaces
<1>10. ASSUME NEW i \in 0 .. Len(u)
       PROVE  f[i] = IF i = 0 THEN << >> ELSE Value(i, f[i - 1])
  BY <1>8 DEF Repeats
<1>11. f \in [0 .. Len(u) -> Text]
  <2>. DEFINE R == {n \in Nat : n <= Len(u) => f[n] \in Text}
  <2>1. ASSUME NEW n \in Nat, \A k \in Nat : k < n => k \in R PROVE n \in R
    <3>1. CASE n = 0
      <4>1. 0 \in 0 .. Len(u)
        BY <1>4
      <4>. QED
        BY <1>4, <1>10, <3>1, <4>1
    <3>2. CASE n # 0 /\ n <= Len(u)
      <4>1. n \in 1 .. Len(u) /\ n \in 0 .. Len(u) /\ n - 1 \in Nat /\ n - 1 < n /\ n - 1 <= Len(u)
        BY <1>4, <3>2
      <4>2. f[n - 1] \in Text
        BY <2>1, <4>1
      <4>3. f[n] = Value(n, f[n - 1])
        BY <1>10, <3>2, <4>1
      <4>. HIDE DEF Value
      <4>4. f[n] \in Text
        BY <1>1, <4>1, <4>2, <4>3
      <4>. QED
        BY <4>4
    <3>. QED
      BY <3>1, <3>2
  <2>2. \A n \in Nat : n \in R
    <3>. HIDE DEF R
    <3>. QED
      BY <2>1, ByNumber
  <2>3. \A n \in 0 .. Len(u) : f[n] \in Text
    BY <1>4, <2>2
  <2>4. DOMAIN f = 0 .. Len(u) /\ f = [i \in 0 .. Len(u) |-> f[i]]
    BY <1>8
  <2>. HIDE DEF Eqn, R, step, Value
  <2>. QED
    BY <2>3, <2>4
<1>12. Merges(u, f)
  <2>1. f[0] = << >>
    <3>1. 0 \in 0 .. Len(u)
      BY <1>4
    <3>. QED
      BY <1>10, <3>1
  <2>2. \A i \in 1 .. Len(u) : i \in 0 .. Len(u) /\ i # 0
    BY <1>4
  <2>. QED
    BY <1>10, <1>11, <2>1, <2>2 DEF Merges
<1>. QED
  BY <1>9, <1>12

\* A character more: dropped if it continues a run of spaces, added if not.
LEMMA MergeAppend ==
  ASSUME NEW u \in Text, NEW c \in Character
  PROVE  /\ MergeSpaces(u) \in Text
         /\ MergeSpaces(Append(u, c)) =
              IF Len(u) > 0 /\ c = Space /\ u[Len(u)] = Space THEN MergeSpaces(u)
              ELSE Append(MergeSpaces(u), c)
<1>. PICK v : v = Append(u, c)
  OBVIOUS
<1>. PICK n : n = Len(u)
  OBVIOUS
<1>1. v \in Text /\ n \in Nat /\ Len(v) = n + 1 /\ v[n + 1] = c
      /\ \A i \in 1 .. n : v[i] = u[i]
  BY DEF Text
<1>. PICK g : Merges(u, g) /\ MergeSpaces(u) = g[n]
  BY MergeDef
<1>. PICK h : Merges(v, h) /\ MergeSpaces(v) = h[n + 1]
  BY <1>1, MergeDef
<1>. DEFINE R == {k \in Nat : k <= n => h[k] = g[k]}
<1>2. ASSUME NEW k \in Nat, \A j \in Nat : j < k => j \in R PROVE k \in R
  <2>1. CASE k = 0
    BY <2>1 DEF Merges
  <2>2. CASE k # 0 /\ k <= n
    <3>1. k \in 1 .. n /\ k \in 1 .. n + 1 /\ k - 1 \in Nat /\ k - 1 < k /\ k - 1 <= n
      BY <1>1, <2>2
    <3>2. h[k - 1] = g[k - 1]
      BY <1>2, <3>1
    <3>3. Repeats(v, k) <=> Repeats(u, k)
      <4>1. k > 1 => k - 1 \in 1 .. n
        BY <1>1, <3>1
      <4>. QED
        BY <1>1, <3>1, <4>1 DEF Repeats
    <3>4. v[k] = u[k]
      BY <1>1, <3>1
    <3>5. h[k] = (IF Repeats(v, k) THEN h[k - 1] ELSE Append(h[k - 1], v[k]))
      BY <1>1, <3>1 DEF Merges
    <3>6. g[k] = (IF Repeats(u, k) THEN g[k - 1] ELSE Append(g[k - 1], u[k]))
      BY <3>1 DEF Merges
    <3>7. h[k] = g[k]
      BY <3>2, <3>3, <3>4, <3>5, <3>6
    <3>. QED
      BY <3>7
  <2>. QED
    BY <2>1, <2>2
<1>3. n \in R
  <2>. HIDE DEF R
  <2>. QED
    BY <1>1, <1>2, ByNumber
<1>4. h[n] = g[n]
  BY <1>1, <1>3
<1>5. g[n] \in Text
  BY <1>1 DEF Merges
<1>6. h[n + 1] = (IF Repeats(v, n + 1) THEN h[n] ELSE Append(h[n], v[n + 1]))
  <2>1. n + 1 \in 1 .. n + 1 /\ (n + 1) - 1 = n
    BY <1>1
  <2>. QED
    BY <1>1, <2>1 DEF Merges
<1>7. Repeats(v, n + 1) <=> n > 0 /\ c = Space /\ u[n] = Space
  <2>1. (n + 1) - 1 = n /\ (n + 1 > 1 <=> n > 0) /\ (n > 0 => n \in 1 .. n)
    BY <1>1
  <2>. QED
    BY <1>1, <2>1 DEF Repeats
<1>. QED
  BY <1>1, <1>4, <1>5, <1>6, <1>7

LEMMA MergeEmpty == MergeSpaces(<< >>) = << >>
<1>1. << >> \in Text /\ Len(<< >>) = 0
  BY DEF Text
<1>2. PICK g : Merges(<< >>, g) /\ MergeSpaces(<< >>) = g[Len(<< >>)]
  BY <1>1, MergeDef
<1>. QED
  BY <1>1, <1>2 DEF Merges

\* A text is empty or one of a character less and a character.
LEMMA LastCharacter ==
  ASSUME NEW s \in Text, Len(s) > 0
  PROVE  \E u \in Text, c \in Character : s = Append(u, c) /\ Len(s) = Len(u) + 1
<1>. PICK n : n = Len(s)
  OBVIOUS
<1>1. n \in Nat /\ n > 0 /\ n - 1 \in Nat
  BY DEF Text
<1>. PICK u : u = [i \in 1 .. n - 1 |-> s[i]]
  OBVIOUS
<1>2. \A i \in 1 .. n - 1 : i \in 1 .. n
  BY <1>1
<1>3. s \in [1 .. n -> Character]
  BY DEF Text
<1>4. u \in [1 .. n - 1 -> Character]
  BY <1>2, <1>3
<1>5. u \in Text /\ Len(u) = n - 1
  BY <1>1, <1>4 DEF Text
<1>6. s[n] \in Character
  BY <1>1, <1>3
<1>7. s = Append(u, s[n])
  BY <1>1, <1>2, <1>3, <1>5, <1>6 DEF Text
<1>. QED
  BY <1>1, <1>5, <1>6, <1>7

LEMMA AppendIs ==
  ASSUME NEW u \in Text, NEW c \in Character
  PROVE  /\ Append(u, c) \in Text /\ Len(u) \in Nat /\ Len(Append(u, c)) = Len(u) + 1
         /\ Append(u, c)[Len(u) + 1] = c
         /\ \A i \in 1 .. Len(u) : Append(u, c)[i] = u[i]
BY DEF Text

\* Induction along a text.
LEMMA ByText ==
  ASSUME NEW R, << >> \in R, \A u \in Text, c \in Character : u \in R => Append(u, c) \in R
  PROVE  \A s \in Text : s \in R
<1>. DEFINE Q == {n \in Nat : \A s \in Text : Len(s) = n => s \in R}
<1>1. ASSUME NEW n \in Nat, \A k \in Nat : k < n => k \in Q PROVE n \in Q
  <2>. SUFFICES ASSUME NEW s \in Text, Len(s) = n PROVE s \in R
    OBVIOUS
  <2>1. CASE n = 0
    <3>1. s = << >>
      BY <2>1 DEF Text
    <3>. QED
      BY <3>1
  <2>2. CASE n # 0
    <3>1. Len(s) > 0
      BY <2>2
    <3>2. PICK u \in Text, c \in Character : s = Append(u, c) /\ Len(s) = Len(u) + 1
      BY <3>1, LastCharacter
    <3>3. Len(u) \in Nat /\ Len(u) < n
      BY <3>2 DEF Text
    <3>4. Len(u) \in Q
      BY <1>1, <3>3
    <3>. QED
      BY <3>2, <3>4
  <2>. QED
    BY <2>1, <2>2
<1>2. \A n \in Nat : n \in Q
  <2>. HIDE DEF Q
  <2>. QED
    BY <1>1, ByNumber
<1>. QED
  BY <1>2 DEF Text

-------------------------------------------------------------------------------
(***************************************************************************)
(* Location                                                                *)
(***************************************************************************)
\* The places of a text where there is a letter of either width.
Ink(s) == {i \in 1 .. Len(s) : HalfWidth(s[i]) # Space}

\* The text ends in a letter.
Open(s) == Len(s) \in Ink(s)

\* The first and the last letter.
Ends(s, lo, hi) == lo \in Ink(s) /\ hi \in Ink(s) /\ \A i \in Ink(s) : lo <= i /\ i <= hi

LEMMA EndsExist ==
  ASSUME NEW s \in Text, Ink(s) # {}
  PROVE  \E lo, hi : Ends(s, lo, hi)
<1>. PICK n : n = Len(s)
  OBVIOUS
<1>. PICK ink : ink = Ink(s)
  OBVIOUS
<1>1. n \in Nat
  BY DEF Text
<1>2. ink \subseteq 1 .. n /\ ink \subseteq Nat /\ ink # {}
  BY <1>1 DEF Ink
<1>3. PICK lo \in ink : \A i \in ink : lo <= i
  BY <1>2, LeastNatural
<1>. PICK back : back = {n - i : i \in ink}
  OBVIOUS
<1>4. back \subseteq Nat /\ back # {}
  BY <1>1, <1>2
<1>5. PICK m \in back : \A k \in back : m <= k
  BY <1>4, LeastNatural
<1>6. PICK hi \in ink : m = n - hi
  BY <1>5
<1>7. ASSUME NEW i \in ink PROVE i <= hi
  <2>1. n - i \in back /\ i \in 1 .. n /\ hi \in 1 .. n
    BY <1>2
  <2>2. n - hi <= n - i
    BY <1>5, <1>6, <2>1
  <2>. QED
    BY <1>1, <2>1, <2>2
<1>. QED
  BY <1>3, <1>7 DEF Ends

LEMMA TrimDef ==
  ASSUME NEW s \in Text
  PROVE  /\ Ink(s) = {} => TrimSpace(s) = << >>
         /\ \A lo, hi : Ends(s, lo, hi) => TrimSpace(s) = SubSeq(s, lo, hi)
<1>. PICK ink : ink = Ink(s)
  OBVIOUS
<1>1. {i \in DOMAIN s : HalfWidth(s[i]) # Space} = ink
  BY DEF Ink, Text
<1>2. TrimSpace(s) = IF ink = {} THEN << >>
                     ELSE SubSeq(s, CHOOSE i \in ink : \A j \in ink : i <= j,
                                    CHOOSE i \in ink : \A j \in ink : i >= j)
  <2>. DEFINE letters == {i \in DOMAIN s : HalfWidth(s[i]) # Space}
  <2>1. TrimSpace(s) = IF letters = {} THEN << >>
                       ELSE SubSeq(s, CHOOSE i \in letters : \A j \in letters : i <= j,
                                      CHOOSE i \in letters : \A j \in letters : i >= j)
    BY DEF TrimSpace
  <2>2. letters = ink
    BY <1>1
  <2>. HIDE DEF letters
  <2>. QED
    BY <2>1, <2>2
<1>3. ASSUME NEW lo, NEW hi, Ends(s, lo, hi)
      PROVE  /\ ink # {}
             /\ lo = CHOOSE i \in ink : \A j \in ink : i <= j
             /\ hi = CHOOSE i \in ink : \A j \in ink : i >= j
  <2>1. ink \subseteq Int /\ lo \in ink /\ hi \in ink /\ \A i \in ink : lo <= i /\ i <= hi
    BY <1>3 DEF Ends, Ink, Text
  <2>2. \A j \in ink : hi >= j
    BY <2>1
  <2>. PICK x : x = CHOOSE i \in ink : \A j \in ink : i <= j
    OBVIOUS
  <2>. PICK y : y = CHOOSE i \in ink : \A j \in ink : i >= j
    OBVIOUS
  <2>3. x \in ink /\ \A j \in ink : x <= j
    BY <2>1
  <2>4. y \in ink /\ \A j \in ink : y >= j
    BY <2>1, <2>2
  <2>5. lo = x
    BY <2>1, <2>3
  <2>6. hi = y
    BY <2>1, <2>4
  <2>. QED
    BY <2>1, <2>5, <2>6
<1>. QED
  BY <1>2, <1>3

\* A part of a text, in half width.
Half(s, lo, hi) == ToHalfWidth(SubSeq(s, lo, hi))

\* The text from a place on, with its runs of spaces merged.
From(s, lo) == MergeSpaces(Half(s, lo, Len(s)))

LEMMA LocationDef ==
  ASSUME NEW s \in Text
  PROVE  /\ Ink(s) = {} => Location(s) = << >>
         /\ \A lo, hi : Ends(s, lo, hi) =>
              Location(s) = MergeSpaces(Half(s, lo, hi))
<1>1. ToHalfWidth(<< >>) = << >>
  BY DEF ToHalfWidth
<1>2. Ink(s) = {} => Location(s) = << >>
  BY <1>1, TrimDef, MergeEmpty DEF Location
<1>. QED
  BY <1>2, TrimDef DEF Location, Half

LEMMA HalfIs ==
  ASSUME NEW s \in Text, NEW lo \in Nat, NEW hi \in Nat, 1 <= lo, lo <= hi, hi <= Len(s)
  PROVE  /\ Half(s, lo, hi) \in Text /\ Len(Half(s, lo, hi)) = hi - lo + 1
         /\ \A i \in 1 .. hi - lo + 1 : Half(s, lo, hi)[i] = HalfWidth(s[lo + i - 1])
<1>. PICK p : p = SubSeq(s, lo, hi)
  OBVIOUS
<1>1. p \in Text /\ Len(p) = hi - lo + 1 /\ \A i \in 1 .. hi - lo + 1 : p[i] = s[lo + i - 1]
  BY DEF Text
<1>2. /\ ToHalfWidth(p) \in Text /\ Len(ToHalfWidth(p)) = Len(p)
      /\ \A i \in 1 .. Len(p) : ToHalfWidth(p)[i] = HalfWidth(p[i])
  BY <1>1, HalfWidthType
<1>. QED
  BY <1>1, <1>2 DEF Half

LEMMA HalfOfOne ==
  ASSUME NEW s \in Text, NEW m \in 1 .. Len(s)
  PROVE  Half(s, m, m) = <<HalfWidth(s[m])>>
<1>1. m \in Nat /\ 1 <= m /\ m <= m /\ m <= Len(s) /\ m - m + 1 = 1 /\ m + 1 - 1 = m
  BY DEF Text
<1>. PICK p : p = Half(s, m, m)
  OBVIOUS
<1>2. /\ p \in Text /\ Len(p) = m - m + 1
      /\ \A i \in 1 .. m - m + 1 : p[i] = HalfWidth(s[m + i - 1])
  BY <1>1, HalfIs
<1>3. p \in Text /\ Len(p) = 1 /\ p[1] = HalfWidth(s[m])
  BY <1>1, <1>2
<1>. QED
  BY <1>3 DEF Text

LEMMA SameText ==
  ASSUME NEW s \in Text, NEW t \in Text, Len(s) = Len(t), \A i \in 1 .. Len(s) : s[i] = t[i]
  PROVE  s = t
BY DEF Text

\* The part that is longer by a character.
LEMMA HalfAppend ==
  ASSUME NEW s \in Text, NEW c \in Character, NEW lo \in 1 .. Len(s)
  PROVE  /\ Half(s, lo, Len(s)) \in Text /\ Len(Half(s, lo, Len(s))) > 0
         /\ Half(s, lo, Len(s))[Len(Half(s, lo, Len(s)))] = HalfWidth(s[Len(s)])
         /\ Half(Append(s, c), lo, Len(s) + 1) = Append(Half(s, lo, Len(s)), HalfWidth(c))
<1>. PICK n : n = Len(s)
  OBVIOUS
<1>. PICK t : t = Append(s, c)
  OBVIOUS
<1>1. /\ n \in Nat /\ t \in Text /\ Len(t) = n + 1 /\ t[n + 1] = c
      /\ \A i \in 1 .. n : t[i] = s[i]
  BY AppendIs
<1>2. lo \in Nat /\ 1 <= lo /\ lo <= n /\ n <= Len(s)
      /\ n + 1 \in Nat /\ lo <= n + 1 /\ n + 1 <= Len(t)
  BY <1>1
<1>3. /\ Half(s, lo, n) \in Text /\ Len(Half(s, lo, n)) = n - lo + 1
      /\ \A i \in 1 .. n - lo + 1 : Half(s, lo, n)[i] = HalfWidth(s[lo + i - 1])
  BY <1>1, <1>2, HalfIs
<1>4. /\ Half(t, lo, n + 1) \in Text /\ Len(Half(t, lo, n + 1)) = (n + 1) - lo + 1
      /\ \A i \in 1 .. (n + 1) - lo + 1 : Half(t, lo, n + 1)[i] = HalfWidth(t[lo + i - 1])
  BY <1>1, <1>2, HalfIs
<1>. PICK p : p = Half(s, lo, n)
  OBVIOUS
<1>. PICK q : q = Half(t, lo, n + 1)
  OBVIOUS
<1>. PICK d : d = HalfWidth(c)
  OBVIOUS
<1>. PICK r : r = Append(p, d)
  OBVIOUS
<1>5. d \in Character
  BY CharacterCases
<1>6. /\ r \in Text /\ Len(r) = Len(p) + 1 /\ r[Len(p) + 1] = d
      /\ \A i \in 1 .. Len(p) : r[i] = p[i]
  BY <1>3, <1>5, AppendIs
<1>. PICK m : m = n - lo + 1
  OBVIOUS
<1>7. /\ m \in Nat /\ m > 0 /\ (n + 1) - lo + 1 = m + 1 /\ lo + m - 1 = n
      /\ lo + (m + 1) - 1 = n + 1 /\ m \in 1 .. m /\ m + 1 \in 1 .. m + 1
  BY <1>1, <1>2
<1>8. \A i \in 1 .. m : i \in 1 .. m + 1 /\ lo + i - 1 \in 1 .. n
  BY <1>1, <1>2, <1>7
<1>14. \A i \in 1 .. m + 1 : i \in 1 .. m \/ i = m + 1
  <2>1. m \in Nat
    BY <1>7
  <2>. PICK k \in Nat : k = m
    BY <2>1
  <2>2. \A i \in 1 .. k + 1 : i \in 1 .. k \/ i = k + 1
    OBVIOUS
  <2>. QED
    BY <2>2
<1>9. p \in Text /\ Len(p) = m /\ \A i \in 1 .. m : p[i] = HalfWidth(s[lo + i - 1])
  BY <1>3
<1>10. q \in Text /\ Len(q) = m + 1 /\ \A i \in 1 .. m + 1 : q[i] = HalfWidth(t[lo + i - 1])
  BY <1>4, <1>7
<1>11. ASSUME NEW i \in 1 .. m + 1 PROVE q[i] = r[i]
  <2>1. CASE i \in 1 .. m
    <3>1. r[i] = HalfWidth(s[lo + i - 1])
      BY <1>6, <1>9, <2>1
    <3>2. q[i] = HalfWidth(t[lo + i - 1])
      BY <1>10
    <3>3. t[lo + i - 1] = s[lo + i - 1]
      BY <1>1, <1>8, <2>1
    <3>. QED
      BY <3>1, <3>2, <3>3
  <2>2. CASE i = m + 1
    <3>1. q[i] = HalfWidth(t[lo + i - 1])
      BY <1>10
    <3>2. t[lo + i - 1] = c
      BY <1>1, <1>7, <2>2
    <3>. QED
      BY <1>6, <1>9, <2>2, <3>1, <3>2
  <2>. QED
    BY <1>14, <2>1, <2>2
<1>12. q = r
  <2>1. q \in Text /\ r \in Text /\ Len(q) = Len(r) /\ \A i \in 1 .. Len(q) : q[i] = r[i]
    BY <1>6, <1>9, <1>10, <1>11
  <2>. QED
    BY <2>1, SameText
<1>13. p[m] = HalfWidth(s[n])
  BY <1>7, <1>9
<1>. QED
  BY <1>7, <1>9, <1>12, <1>13

\* A character more: what it does to the letters.
LEMMA InkAppend ==
  ASSUME NEW s \in Text, NEW c \in Character
  PROVE  /\ Ink(Append(s, c)) =
              IF HalfWidth(c) = Space THEN Ink(s) ELSE Ink(s) \cup {Len(s) + 1}
         /\ Open(Append(s, c)) <=> HalfWidth(c) # Space
         /\ Len(s) + 1 \notin Ink(s)
<1>. PICK t : t = Append(s, c)
  OBVIOUS
<1>. PICK n : n = Len(s)
  OBVIOUS
<1>1. /\ n \in Nat /\ t \in Text /\ Len(t) = n + 1 /\ t[n + 1] = c
      /\ \A i \in 1 .. n : t[i] = s[i]
  BY AppendIs
<1>2. 1 .. n + 1 = (1 .. n) \cup {n + 1} /\ n + 1 \notin 1 .. n /\ n + 1 \in 1 .. n + 1
  BY <1>1
<1>. QED
  BY <1>1, <1>2 DEF Ink, Open

\* A blank keeps the ends; a letter is the last one from now on.
LEMMA EndsAppend ==
  ASSUME NEW s \in Text, NEW c \in Character, NEW lo, NEW hi
  PROVE  /\ HalfWidth(c) = Space => (Ends(Append(s, c), lo, hi) <=> Ends(s, lo, hi))
         /\ HalfWidth(c) # Space /\ Ends(s, lo, hi) => Ends(Append(s, c), lo, Len(s) + 1)
         /\ HalfWidth(c) # Space /\ Ink(s) = {} =>
              Ends(Append(s, c), Len(s) + 1, Len(s) + 1)
<1>. PICK n : n = Len(s)
  OBVIOUS
<1>. PICK old : old = Ink(s)
  OBVIOUS
<1>. PICK new : new = Ink(Append(s, c))
  OBVIOUS
<1>1. n \in Nat /\ old \subseteq 1 .. n /\ \A i \in old : i \in Nat /\ i <= n + 1
  BY AppendIs DEF Ink
<1>2. new = IF HalfWidth(c) = Space THEN old ELSE old \cup {n + 1}
  BY InkAppend
<1>3. CASE HalfWidth(c) = Space
  BY <1>2, <1>3 DEF Ends
<1>4. CASE HalfWidth(c) # Space
  <2>1. new = old \cup {n + 1} /\ n + 1 <= n + 1
    BY <1>1, <1>2, <1>4
  <2>. QED
    BY <1>1, <1>4, <2>1 DEF Ends
<1>. QED
  BY <1>3, <1>4

\* The location of a text with its last spaces, if it has any, as one.
Trailing(s) == IF Open(s) THEN Location(s) ELSE Append(Location(s), Space)

LEMMA FromAppend ==
  ASSUME NEW s \in Text, NEW c \in Character, NEW lo \in 1 .. Len(s)
  PROVE  /\ From(s, lo) \in Text
         /\ From(Append(s, c), lo) =
              IF HalfWidth(c) = Space /\ ~Open(s) THEN From(s, lo)
              ELSE Append(From(s, lo), HalfWidth(c))
<1>. PICK n : n = Len(s)
  OBVIOUS
<1>. PICK u : u = Half(s, lo, n)
  OBVIOUS
<1>. PICK d : d = HalfWidth(c)
  OBVIOUS
<1>1. d \in Character /\ n \in 1 .. n
  <2>1. n \in Nat /\ lo \in 1 .. n
    BY AppendIs
  <2>. QED
    BY <2>1, CharacterCases
<1>2. /\ u \in Text /\ Len(u) > 0 /\ u[Len(u)] = HalfWidth(s[n])
      /\ Half(Append(s, c), lo, n + 1) = Append(u, d)
  BY HalfAppend
<1>3. u[Len(u)] = Space <=> ~Open(s)
  BY <1>1, <1>2 DEF Open, Ink
<1>4. /\ MergeSpaces(u) \in Text
      /\ MergeSpaces(Append(u, d)) =
           IF Len(u) > 0 /\ d = Space /\ u[Len(u)] = Space THEN MergeSpaces(u)
           ELSE Append(MergeSpaces(u), d)
  BY <1>1, <1>2, MergeAppend
<1>5. From(s, lo) = MergeSpaces(u)
  BY DEF From
<1>6. From(Append(s, c), lo) = MergeSpaces(Append(u, d))
  BY <1>2, AppendIs DEF From
<1>. QED
  BY <1>2, <1>3, <1>4, <1>5, <1>6

Reads(s) == \A lo, hi : Ends(s, lo, hi) => From(s, lo) = Trailing(s)

LEMMA EndsPlaces ==
  ASSUME NEW s \in Text, NEW lo, NEW hi, Ends(s, lo, hi)
  PROVE  lo \in 1 .. Len(s) /\ hi \in 1 .. Len(s) /\ lo <= hi /\ Ink(s) # {}
BY DEF Ends, Ink

LEMMA BlankAppended ==
  ASSUME NEW s \in Text, NEW c \in Character, HalfWidth(c) = Space
  PROVE  Location(Append(s, c)) = Location(s)
<1>. PICK t : t = Append(s, c)
  OBVIOUS
<1>1. t \in Text /\ Ink(t) = Ink(s)
  BY InkAppend, AppendIs
<1>2. CASE Ink(s) = {}
  BY <1>1, <1>2, LocationDef
<1>3. CASE Ink(s) # {}
  <2>1. PICK lo, hi : Ends(s, lo, hi)
    BY <1>3, EndsExist
  <2>2. Ends(t, lo, hi)
    BY <2>1, EndsAppend
  <2>3. lo \in 1 .. Len(s) /\ hi \in 1 .. Len(s) /\ lo <= hi
    BY <2>1, EndsPlaces
  <2>4. SubSeq(t, lo, hi) = SubSeq(s, lo, hi)
    <3>1. Len(s) \in Nat /\ \A i \in 1 .. Len(s) : t[i] = s[i]
      BY AppendIs
    <3>2. \A i \in 1 .. (1 + hi) - lo : lo + i - 1 \in 1 .. Len(s)
      BY <2>3, <3>1
    <3>. QED
      BY <2>3, <3>1, <3>2
  <2>5. Location(s) = MergeSpaces(Half(s, lo, hi)) /\ Location(t) = MergeSpaces(Half(t, lo, hi))
    BY <1>1, <2>1, <2>2, LocationDef
  <2>. QED
    BY <2>4, <2>5 DEF Half
<1>. QED
  BY <1>2, <1>3

LEMMA LetterAppended ==
  ASSUME NEW s \in Text, NEW c \in Character, HalfWidth(c) # Space, NEW lo, NEW hi,
         Ends(s, lo, hi)
  PROVE  Location(Append(s, c)) = From(Append(s, c), lo)
<1>. PICK t : t = Append(s, c)
  OBVIOUS
<1>1. t \in Text /\ Len(t) = Len(s) + 1
  BY AppendIs
<1>2. Ends(t, lo, Len(s) + 1)
  BY EndsAppend
<1>3. Location(t) = MergeSpaces(Half(t, lo, Len(s) + 1))
  BY <1>1, <1>2, LocationDef
<1>. QED
  BY <1>1, <1>3 DEF From

LEMMA ReadsAll == \A s \in Text : Reads(s)
<1>. DEFINE R == {s \in Text : Reads(s)}
<1>1. << >> \in R
  <2>1. << >> \in Text /\ Ink(<< >>) = {}
    BY DEF Text, Ink
  <2>. QED
    BY <2>1, EndsPlaces DEF Reads
<1>2. ASSUME NEW u \in Text, NEW c \in Character, u \in R PROVE Append(u, c) \in R
  <2>. PICK t : t = Append(u, c)
    OBVIOUS
  <2>1. t \in Text /\ Reads(u) /\ (Open(t) <=> HalfWidth(c) # Space)
    BY <1>2, InkAppend, AppendIs
  <2>2. CASE HalfWidth(c) = Space
    <3>1. ASSUME NEW lo, NEW hi, Ends(t, lo, hi) PROVE From(t, lo) = Trailing(t)
      <4>1. Ends(u, lo, hi)
        BY <2>2, <3>1, EndsAppend
      <4>2. From(u, lo) = Trailing(u) /\ lo \in 1 .. Len(u)
        BY <2>1, <4>1, EndsPlaces DEF Reads
      <4>3. From(t, lo) = IF ~Open(u) THEN From(u, lo) ELSE Append(From(u, lo), Space)
        BY <2>2, <4>2, FromAppend
      <4>4. Location(t) = Location(u)
        BY <2>2, BlankAppended
      <4>. QED
        BY <2>1, <2>2, <4>2, <4>3, <4>4 DEF Trailing
    <3>. QED
      BY <2>1, <3>1 DEF Reads
  <2>3. CASE HalfWidth(c) # Space
    <3>1. ASSUME NEW lo, NEW hi, Ends(t, lo, hi) PROVE From(t, lo) = Trailing(t)
      <4>1. Location(t) = From(t, lo)
        <5>1. hi = Len(t)
          <6>1. Len(t) \in Ink(t)
            BY <2>1, <2>3 DEF Open
          <6>. QED
            BY <2>1, <3>1, <6>1 DEF Ends, Ink, Text
        <5>2. Location(t) = MergeSpaces(Half(t, lo, hi))
          BY <2>1, <3>1, LocationDef
        <5>. QED
          BY <5>1, <5>2 DEF From
      <4>. QED
        BY <2>1, <2>3, <4>1 DEF Trailing
    <3>. QED
      BY <2>1, <3>1 DEF Reads
  <2>. QED
    BY <2>1, <2>2, <2>3
<1>3. \A s \in Text : s \in R
  <2>. HIDE DEF R
  <2>. QED
    BY <1>1, <1>2, ByText
<1>. QED
  BY <1>3

\* What a character more does to the location.
LEMMA LocationAppend ==
  ASSUME NEW s \in Text, NEW c \in Character
  PROVE  /\ HalfWidth(c) = Space => Location(Append(s, c)) = Location(s)
         /\ HalfWidth(c) # Space =>
              Location(Append(s, c)) =
                IF Ink(s) = {} THEN <<Letter>> ELSE Append(Trailing(s), Letter)
<1>. PICK t : t = Append(s, c)
  OBVIOUS
<1>. PICK n : n = Len(s)
  OBVIOUS
<1>1. t \in Text /\ Len(t) = n + 1 /\ n \in Nat /\ t[n + 1] = c
  BY AppendIs
<1>2. CASE HalfWidth(c) = Space
  BY <1>2, BlankAppended
<1>3. CASE HalfWidth(c) # Space
  <2>1. HalfWidth(c) = Letter
    BY <1>3, CharacterCases
  <2>2. CASE Ink(s) = {}
    <3>1. Ends(t, n + 1, n + 1)
      BY <1>3, <2>2, EndsAppend
    <3>2. Location(t) = MergeSpaces(Half(t, n + 1, n + 1))
      BY <1>1, <3>1, LocationDef
    <3>3. Half(t, n + 1, n + 1) = <<Letter>>
      <4>. PICK m \in Nat : m = n + 1
        BY <1>1
      <4>1. m \in 1 .. Len(t)
        BY <1>1
      <4>2. Half(t, m, m) = <<HalfWidth(t[m])>>
        BY <1>1, <4>1, HalfOfOne
      <4>. QED
        BY <1>1, <2>1, <4>2
    <3>4. MergeSpaces(<<Letter>>) = <<Letter>>
      <4>1. << >> \in Text /\ ~(Len(<< >>) > 0) /\ Append(<< >>, Letter) = <<Letter>>
        BY DEF Text
      <4>2. MergeSpaces(Append(<< >>, Letter)) = Append(MergeSpaces(<< >>), Letter)
        BY <4>1, CharacterCases, MergeAppend
      <4>. QED
        BY <4>1, <4>2, MergeEmpty
    <3>. QED
      BY <1>3, <2>2, <3>2, <3>3, <3>4
  <2>3. CASE Ink(s) # {}
    <3>1. PICK lo, hi : Ends(s, lo, hi)
      BY <2>3, EndsExist
    <3>2. lo \in 1 .. Len(s)
      BY <3>1, EndsPlaces
    <3>3. Location(t) = From(t, lo)
      BY <1>3, <3>1, LetterAppended
    <3>4. From(t, lo) = Append(From(s, lo), Letter)
      BY <1>3, <2>1, <3>2, FromAppend
    <3>5. From(s, lo) = Trailing(s)
      BY <3>1, ReadsAll DEF Reads
    <3>. QED
      BY <1>3, <2>3, <3>3, <3>4, <3>5
  <2>. QED
    BY <2>2, <2>3
<1>. QED
  BY <1>2, <1>3

\* A location is empty if there is no letter, and ends in a letter.
LEMMA LocationShape ==
  \A s \in Text :
    /\ Location(s) \in Text
    /\ Location(s) = << >> <=> Ink(s) = {}
    /\ Ink(s) # {} => Len(Location(s)) > 0 /\ Location(s)[Len(Location(s))] = Letter
<1>. DEFINE Shape(s) ==
       /\ Location(s) \in Text
       /\ Location(s) = << >> <=> Ink(s) = {}
       /\ Ink(s) # {} => Len(Location(s)) > 0 /\ Location(s)[Len(Location(s))] = Letter
     R == {s \in Text : Shape(s)}
<1>1. << >> \in R
  <2>1. << >> \in Text /\ Ink(<< >>) = {}
    BY DEF Text, Ink
  <2>2. Location(<< >>) = << >>
    BY <2>1, LocationDef
  <2>. QED
    BY <2>1, <2>2
<1>2. ASSUME NEW u \in Text, NEW c \in Character, u \in R PROVE Append(u, c) \in R
  <2>. PICK t : t = Append(u, c)
    OBVIOUS
  <2>1. t \in Text /\ Shape(u) /\ Ink(t) = IF HalfWidth(c) = Space THEN Ink(u) ELSE Ink(u) \cup {Len(u) + 1}
    BY <1>2, InkAppend, AppendIs
  <2>2. CASE HalfWidth(c) = Space
    <3>1. Location(t) = Location(u) /\ Ink(t) = Ink(u)
      BY <2>1, <2>2, LocationAppend
    <3>. QED
      BY <2>1, <3>1
  <2>3. CASE HalfWidth(c) # Space
    <3>. PICK x : x = Location(t)
      OBVIOUS
    <3>1. Ink(t) # {}
      BY <2>1, <2>3
    <3>2. PICK y \in Text : x = Append(y, Letter)
      <4>1. << >> \in Text /\ <<Letter>> = Append(<< >>, Letter)
        BY DEF Text
      <4>2. Trailing(u) \in Text
        <5>1. Location(u) \in Text /\ Append(Location(u), Space) \in Text
          BY <2>1, CharacterCases, AppendIs
        <5>. QED
          BY <5>1 DEF Trailing
      <4>3. x = IF Ink(u) = {} THEN <<Letter>> ELSE Append(Trailing(u), Letter)
        BY <2>3, LocationAppend
      <4>. QED
        BY <4>1, <4>2, <4>3
    <3>3. /\ x \in Text /\ Len(y) \in Nat /\ Len(x) = Len(y) + 1 /\ x[Len(y) + 1] = Letter
      BY <3>2, CharacterCases, AppendIs
    <3>4. Len(x) > 0 /\ x[Len(x)] = Letter /\ x # << >>
      <4>1. Len(<< >>) = 0
        OBVIOUS
      <4>. QED
        BY <3>3, <4>1
    <3>5. Shape(t)
      BY <3>1, <3>3, <3>4
    <3>. QED
      BY <2>1, <3>5
  <2>. QED
    BY <2>2, <2>3
<1>3. \A s \in Text : s \in R
  <2>. HIDE DEF R
  <2>. QED
    BY <1>1, <1>2, ByText
<1>. QED
  BY <1>3

-------------------------------------------------------------------------------
(***************************************************************************)
(* Words                                                                   *)
(***************************************************************************)
\* The letters that begin a word, how many words have begun up to a place, and
\* the letters of the word of a number.
Starts(s) == {i \in Ink(s) : i - 1 \notin Ink(s)}

WordAt(s, i) == Cardinality({j \in Starts(s) : j <= i})

LettersOf(s, k) == {i \in Ink(s) : WordAt(s, i) = k}

LEMMA WordsDef ==
  ASSUME NEW s \in Text
  PROVE  Words(s) = [k \in 1 .. Cardinality(Starts(s)) |-> Cardinality(LettersOf(s, k))]
<1>1. {i \in DOMAIN s : HalfWidth(s[i]) # Space} = Ink(s)
  BY DEF Ink, Text
<1>. DEFINE letter == {i \in DOMAIN s : HalfWidth(s[i]) # Space}
            start == {i \in letter : i - 1 \notin letter}
            word(i) == Cardinality({j \in start : j <= i})
<1>2. Words(s) = [k \in 1 .. Cardinality(start) |-> Cardinality({i \in letter : word(i) = k})]
  BY DEF Words
<1>3. letter = Ink(s) /\ start = Starts(s)
  BY <1>1 DEF Starts
<1>. HIDE DEF letter, start
<1>. QED
  BY <1>2, <1>3 DEF WordAt, LettersOf

LEMMA FinitePlaces ==
  ASSUME NEW s \in Text, NEW T, T \subseteq Ink(s)
  PROVE  IsFiniteSet(T) /\ Cardinality(T) \in Nat
<1>. PICK n : n = Len(s)
  OBVIOUS
<1>1. n \in Nat
  BY AppendIs, LastCharacter DEF Text
<1>2. IsFiniteSet(1 .. n)
  BY <1>1, FS_Interval
<1>3. T \subseteq 1 .. n
  BY DEF Ink
<1>4. IsFiniteSet(T)
  BY <1>2, <1>3, FS_Subset
<1>. QED
  BY <1>4, FS_CardinalityType

\* Where there is a letter, there is a word.
LEMMA SomeStart ==
  ASSUME NEW s \in Text, Ink(s) # {}
  PROVE  Starts(s) # {}
<1>. PICK lo, hi : Ends(s, lo, hi)
  BY EndsExist
<1>1. lo \in Ink(s) /\ lo - 1 \notin Ink(s)
  <2>1. lo \in Int
    BY DEF Ends, Ink, Text
  <2>. QED
    BY <2>1 DEF Ends
<1>. QED
  BY <1>1 DEF Starts

\* A blank changes no word.
LEMMA WordsBlank ==
  ASSUME NEW s \in Text, NEW c \in Character, HalfWidth(c) = Space
  PROVE  Words(Append(s, c)) = Words(s)
<1>. PICK t : t = Append(s, c)
  OBVIOUS
<1>1. t \in Text /\ Ink(t) = Ink(s)
  BY InkAppend, AppendIs
<1>2. Starts(t) = Starts(s)
  BY <1>1 DEF Starts
<1>3. \A k : LettersOf(t, k) = LettersOf(s, k)
  BY <1>1, <1>2 DEF LettersOf, WordAt
<1>. QED
  BY <1>1, <1>2, <1>3, WordsDef

\* A letter goes to the last word if the text ends in one, and begins one if not.
LEMMA StartsAppend ==
  ASSUME NEW s \in Text, NEW c \in Character, HalfWidth(c) # Space
  PROVE  LET n == Len(s)
             t == Append(s, c)
         IN /\ Open(s) => Starts(t) = Starts(s)
            /\ ~Open(s) => Starts(t) = Starts(s) \cup {n + 1} /\ n + 1 \notin Starts(s)
            /\ \A i \in Ink(s) : WordAt(t, i) = WordAt(s, i)
            /\ WordAt(t, n + 1) = Cardinality(Starts(t))
<1>. PICK n : n = Len(s)
  OBVIOUS
<1>. PICK t : t = Append(s, c)
  OBVIOUS
<1>. PICK old : old = Ink(s)
  OBVIOUS
<1>1. n \in Nat /\ old \subseteq 1 .. n /\ Ink(t) = old \cup {n + 1} /\ n + 1 \notin old
  BY InkAppend, AppendIs DEF Ink
<1>2. (n + 1) - 1 = n /\ \A i \in old : i \in Nat /\ i <= n /\ ~(n + 1 <= i) /\ i - 1 # n + 1
  BY <1>1
<1>3. Starts(s) = {i \in old : i - 1 \notin old}
  BY DEF Starts
<1>4. Starts(t) = {i \in old \cup {n + 1} : i - 1 \notin old \cup {n + 1}}
  BY <1>1 DEF Starts
<1>5. Open(s) <=> n \in old
  BY DEF Open
<1>6. n \in old => Starts(t) = Starts(s)
  BY <1>1, <1>2, <1>3, <1>4
<1>7. n \notin old => Starts(t) = Starts(s) \cup {n + 1} /\ n + 1 \notin Starts(s)
  <2>1. n + 1 - 1 # n + 1
    BY <1>1
  <2>. QED
    BY <1>1, <1>2, <1>3, <1>4, <2>1
<1>8. ASSUME NEW i \in old PROVE WordAt(t, i) = WordAt(s, i)
  <2>1. {j \in Starts(t) : j <= i} = {j \in Starts(s) : j <= i}
    BY <1>2, <1>6, <1>7
  <2>. QED
    BY <2>1 DEF WordAt
<1>9. WordAt(t, n + 1) = Cardinality(Starts(t))
  <2>1. \A j \in Starts(t) : j <= n + 1
    BY <1>1, <1>4
  <2>2. {j \in Starts(t) : j <= n + 1} = Starts(t)
    BY <2>1
  <2>. QED
    BY <2>2 DEF WordAt
<1>. QED
  BY <1>5, <1>6, <1>7, <1>8, <1>9

\* The number of words and how long each is, as a function of the text.
LEMMA WordsShape ==
  ASSUME NEW s \in Text
  PROVE  \E m \in Nat :
           /\ m = Cardinality(Starts(s))
           /\ Words(s) \in [1 .. m -> Nat]
           /\ Ink(s) # {} => m > 0
           /\ Ink(s) = {} => m = 0
           /\ Open(s) => Words(s)[m] > 0
<1>. PICK m : m = Cardinality(Starts(s))
  OBVIOUS
<1>1. Starts(s) \subseteq Ink(s) /\ \A k : LettersOf(s, k) \subseteq Ink(s)
  BY DEF Starts, LettersOf
<1>2. IsFiniteSet(Starts(s)) /\ m \in Nat
  BY <1>1, FinitePlaces
<1>3. \A k : IsFiniteSet(LettersOf(s, k)) /\ Cardinality(LettersOf(s, k)) \in Nat
  BY <1>1, FinitePlaces
<1>4. Words(s) = [k \in 1 .. m |-> Cardinality(LettersOf(s, k))]
  BY WordsDef
<1>5. m = 0 <=> Starts(s) = {}
  BY <1>2, FS_EmptySet
<1>6. Ink(s) # {} => m > 0
  BY <1>2, <1>5, SomeStart
<1>7. Ink(s) = {} => m = 0
  BY <1>1, <1>5
<1>8. ASSUME Open(s) PROVE Words(s)[m] > 0
  <2>. PICK n : n = Len(s)
    OBVIOUS
  <2>1. n \in Ink(s) /\ \A j \in Ink(s) : j <= n
    BY <1>8 DEF Open, Ink, Text
  <2>2. {j \in Starts(s) : j <= n} = Starts(s)
    BY <1>1, <2>1
  <2>3. n \in LettersOf(s, m)
    BY <2>1, <2>2 DEF LettersOf, WordAt
  <2>4. Cardinality(LettersOf(s, m)) # 0
    BY <1>3, <2>3, FS_EmptySet
  <2>5. m \in 1 .. m
    BY <1>2, <1>6, <2>1
  <2>. QED
    BY <1>3, <1>4, <2>4, <2>5
<1>. QED
  BY <1>2, <1>3, <1>4, <1>6, <1>7, <1>8

LEMMA WordsLetter ==
  ASSUME NEW s \in Text, NEW c \in Character, HalfWidth(c) # Space,
         NEW m \in Nat, m = Cardinality(Starts(s))
  PROVE  LET v == Words(s)
             w == Words(Append(s, c))
         IN IF Open(s) THEN /\ DOMAIN w = 1 .. m /\ m > 0 /\ w[m] = v[m] + 1
                            /\ \A k \in 1 .. m : k # m => w[k] = v[k]
            ELSE /\ DOMAIN w = 1 .. m + 1 /\ w[m + 1] = 1
                 /\ \A k \in 1 .. m : w[k] = v[k]
<1>. PICK n : n = Len(s)
  OBVIOUS
<1>. PICK t : t = Append(s, c)
  OBVIOUS
<1>. PICK q : q = Cardinality(Starts(t))
  OBVIOUS
<1>1. t \in Text /\ Ink(t) = Ink(s) \cup {n + 1} /\ n + 1 \notin Ink(s)
  BY InkAppend, AppendIs
<1>2. /\ Open(s) => Starts(t) = Starts(s)
      /\ ~Open(s) => Starts(t) = Starts(s) \cup {n + 1} /\ n + 1 \notin Starts(s)
      /\ \A i \in Ink(s) : WordAt(t, i) = WordAt(s, i)
      /\ WordAt(t, n + 1) = q
  BY StartsAppend
<1>3. Starts(s) \subseteq Ink(s) /\ \A k : LettersOf(s, k) \subseteq Ink(s)
  BY DEF Starts, LettersOf
<1>4. IsFiniteSet(Starts(s)) /\ \A k : IsFiniteSet(LettersOf(s, k))
  BY <1>3, FinitePlaces
<1>5. \A k : Cardinality(LettersOf(s, k)) \in Nat
  BY <1>4, FS_CardinalityType
<1>6. ASSUME NEW k
      PROVE  LettersOf(t, k) = IF k = q THEN LettersOf(s, k) \cup {n + 1} ELSE LettersOf(s, k)
  BY <1>1, <1>2 DEF LettersOf
<1>7. ASSUME NEW k
      PROVE  Cardinality(LettersOf(t, k)) =
               IF k = q THEN Cardinality(LettersOf(s, k)) + 1 ELSE Cardinality(LettersOf(s, k))
  <2>1. n + 1 \notin LettersOf(s, k)
    BY <1>1, <1>3
  <2>2. IsFiniteSet(LettersOf(s, k))
    BY <1>4
  <2>3. Cardinality(LettersOf(s, k) \cup {n + 1}) = Cardinality(LettersOf(s, k)) + 1
    BY <2>1, <2>2, FS_AddElement
  <2>. QED
    BY <1>6, <2>3
<1>. PICK v : v = Words(s)
  OBVIOUS
<1>. PICK w : w = Words(t)
  OBVIOUS
<1>8. v = [k \in 1 .. m |-> Cardinality(LettersOf(s, k))]
  BY WordsDef
<1>9. w = [k \in 1 .. q |-> Cardinality(LettersOf(t, k))]
  BY <1>1, WordsDef
<1>10. CASE Open(s)
  <2>1. q = m
    BY <1>2, <1>10
  <2>2. m > 0
    <3>1. Ink(s) # {}
      BY <1>10 DEF Open
    <3>. QED
      BY <3>1, WordsShape
  <2>3. m \in 1 .. m
    BY <2>2
  <2>. QED
    BY <1>7, <1>8, <1>9, <1>10, <2>1, <2>2, <2>3
<1>11. CASE ~Open(s)
  <2>1. q = m + 1
    BY <1>2, <1>4, <1>11, FS_AddElement
  <2>2. LettersOf(s, m + 1) = {}
    <3>1. ASSUME NEW i \in Ink(s) PROVE WordAt(s, i) # m + 1
      <4>1. {j \in Starts(s) : j <= i} \subseteq Starts(s)
        OBVIOUS
      <4>. PICK T : T = {j \in Starts(s) : j <= i}
        OBVIOUS
      <4>2. IsFiniteSet(T) /\ Cardinality(T) <= Cardinality(Starts(s))
        BY <1>4, <4>1, FS_Subset
      <4>3. Cardinality(T) \in Nat
        BY <4>2, FS_CardinalityType
      <4>4. WordAt(s, i) <= m /\ WordAt(s, i) \in Nat
        BY <4>2, <4>3 DEF WordAt
      <4>. QED
        BY <4>4
    <3>. QED
      BY <3>1 DEF LettersOf
  <2>3. Cardinality(LettersOf(s, m + 1)) = 0
    BY <2>2, FS_EmptySet
  <2>4. Cardinality(LettersOf(t, m + 1)) = 1
    BY <1>7, <2>1, <2>3
  <2>5. m + 1 \in 1 .. m + 1 /\ \A k \in 1 .. m : k \in 1 .. m + 1 /\ k # m + 1
    OBVIOUS
  <2>. QED
    BY <1>7, <1>8, <1>9, <1>11, <2>1, <2>4, <2>5
<1>. QED
  BY <1>10, <1>11

LEMMA SameWordsAppended ==
  ASSUME NEW s \in Text, NEW t \in Text, NEW c \in Character, NEW d \in Character,
         HalfWidth(c) # Space, HalfWidth(d) # Space
  PROVE  Words(Append(s, c)) = Words(Append(t, d))
           <=> (Open(s) <=> Open(t)) /\ Words(s) = Words(t)
<1>. PICK v : v = Words(s)
  OBVIOUS
<1>. PICK x : x = Words(t)
  OBVIOUS
<1>. PICK w : w = Words(Append(s, c))
  OBVIOUS
<1>. PICK y : y = Words(Append(t, d))
  OBVIOUS
<1>1. PICK m \in Nat : /\ m = Cardinality(Starts(s)) /\ v \in [1 .. m -> Nat]
                       /\ Open(s) => v[m] > 0
  BY WordsShape
<1>2. PICK q \in Nat : /\ q = Cardinality(Starts(t)) /\ x \in [1 .. q -> Nat]
                       /\ Open(t) => x[q] > 0
  BY WordsShape
<1>3. IF Open(s) THEN /\ DOMAIN w = 1 .. m /\ m > 0 /\ w[m] = v[m] + 1
                      /\ \A k \in 1 .. m : k # m => w[k] = v[k]
      ELSE DOMAIN w = 1 .. m + 1 /\ w[m + 1] = 1 /\ \A k \in 1 .. m : w[k] = v[k]
  BY <1>1, WordsLetter
<1>4. IF Open(t) THEN /\ DOMAIN y = 1 .. q /\ q > 0 /\ y[q] = x[q] + 1
                      /\ \A k \in 1 .. q : k # q => y[k] = x[k]
      ELSE DOMAIN y = 1 .. q + 1 /\ y[q + 1] = 1 /\ \A k \in 1 .. q : y[k] = x[k]
  BY <1>2, WordsLetter
<1>5. \A i, j \in Nat : 1 .. i = 1 .. j => i = j
  <2>. SUFFICES ASSUME NEW i \in Nat, NEW j \in Nat, 1 .. i = 1 .. j, i < j PROVE FALSE
    <3>1. \A i, j \in Nat : i = j \/ i < j \/ j < i
      OBVIOUS
    <3>. QED
      BY <3>1
  <2>1. j \in 1 .. j /\ j \notin 1 .. i
    OBVIOUS
  <2>. QED
    BY <2>1
<1>6. w = [k \in DOMAIN w |-> w[k]] /\ y = [k \in DOMAIN y |-> y[k]]
  <2>1. Append(s, c) \in Text /\ Append(t, d) \in Text
    BY AppendIs
  <2>2. \E i \in Nat : w \in [1 .. i -> Nat]
    BY <2>1, WordsShape
  <2>3. \E i \in Nat : y \in [1 .. i -> Nat]
    BY <2>1, WordsShape
  <2>. QED
    BY <2>2, <2>3
<1>7. ASSUME Open(s), Open(t) PROVE w = y <=> v = x
  <2>1. ASSUME w = y PROVE v = x
    <3>1. m = q
      BY <1>3, <1>4, <1>5, <1>7, <2>1
    <3>2. m \in 1 .. m /\ v[m] \in Nat /\ x[m] \in Nat
      BY <1>1, <1>2, <1>3, <1>7, <3>1
    <3>3. v[m] = x[m]
      BY <1>3, <1>4, <1>7, <2>1, <3>1, <3>2
    <3>4. \A k \in 1 .. m : v[k] = x[k]
      BY <1>3, <1>4, <1>7, <2>1, <3>1, <3>3
    <3>. QED
      BY <1>1, <1>2, <3>1, <3>4
  <2>2. ASSUME v = x PROVE w = y
    <3>1. m = q
      BY <1>1, <1>2, <1>5, <2>2
    <3>2. DOMAIN w = DOMAIN y /\ \A k \in 1 .. m : w[k] = y[k]
      BY <1>3, <1>4, <1>7, <2>2, <3>1
    <3>. QED
      BY <1>3, <1>6, <1>7, <3>2
  <2>. QED
    BY <2>1, <2>2
<1>8. ASSUME ~Open(s), ~Open(t) PROVE w = y <=> v = x
  <2>1. ASSUME w = y PROVE v = x
    <3>1. m + 1 = q + 1
      <4>1. m + 1 \in Nat /\ q + 1 \in Nat
        OBVIOUS
      <4>. QED
        BY <1>3, <1>4, <1>5, <1>8, <2>1, <4>1
    <3>2. m = q
      BY <3>1
    <3>3. \A k \in 1 .. m : v[k] = x[k]
      BY <1>3, <1>4, <1>8, <2>1, <3>2
    <3>. QED
      BY <1>1, <1>2, <3>2, <3>3
  <2>2. ASSUME v = x PROVE w = y
    <3>1. m = q
      BY <1>1, <1>2, <1>5, <2>2
    <3>2. \A k \in 1 .. m + 1 : k \in 1 .. m \/ k = m + 1
      OBVIOUS
    <3>3. DOMAIN w = DOMAIN y /\ \A k \in 1 .. m + 1 : w[k] = y[k]
      BY <1>3, <1>4, <1>8, <2>2, <3>1, <3>2
    <3>. QED
      BY <1>3, <1>6, <1>8, <3>3
  <2>. QED
    BY <2>1, <2>2
<1>9. ASSUME Open(s), ~Open(t) PROVE w # y
  <2>. SUFFICES ASSUME w = y PROVE FALSE
    OBVIOUS
  <2>1. q + 1 \in Nat
    OBVIOUS
  <2>2. m = q + 1
    BY <1>3, <1>4, <1>5, <1>9, <2>1
  <2>3. v[m] \in Nat /\ v[m] > 0
    <3>1. m \in 1 .. m
      BY <2>2
    <3>. QED
      BY <1>1, <1>9, <3>1
  <2>. QED
    BY <1>3, <1>4, <1>9, <2>2, <2>3
<1>10. ASSUME ~Open(s), Open(t) PROVE w # y
  <2>. SUFFICES ASSUME w = y PROVE FALSE
    OBVIOUS
  <2>1. m + 1 \in Nat
    OBVIOUS
  <2>2. q = m + 1
    BY <1>3, <1>4, <1>5, <1>10, <2>1
  <2>3. x[q] \in Nat /\ x[q] > 0
    <3>1. q \in 1 .. q
      BY <2>2
    <3>. QED
      BY <1>2, <1>10, <3>1
  <2>. QED
    BY <1>3, <1>4, <1>10, <2>2, <2>3
<1>. QED
  BY <1>7, <1>8, <1>9, <1>10

-------------------------------------------------------------------------------
(***************************************************************************)
(* The location tells the words apart, and nothing else                    *)
(***************************************************************************)
LEMMA AppendApart ==
  ASSUME NEW u \in Text, NEW v \in Text, NEW c \in Character, NEW d \in Character,
         Append(u, c) = Append(v, d)
  PROVE  u = v /\ c = d
<1>. PICK x : x = Append(u, c)
  OBVIOUS
<1>1. /\ Len(u) \in Nat /\ Len(x) = Len(u) + 1 /\ x[Len(u) + 1] = c
      /\ \A i \in 1 .. Len(u) : x[i] = u[i]
  BY AppendIs
<1>2. /\ Len(v) \in Nat /\ Len(x) = Len(v) + 1 /\ x[Len(v) + 1] = d
      /\ \A i \in 1 .. Len(v) : x[i] = v[i]
  BY AppendIs
<1>3. Len(u) = Len(v)
  BY <1>1, <1>2
<1>4. \A i \in 1 .. Len(u) : u[i] = v[i]
  BY <1>1, <1>2, <1>3
<1>. QED
  BY <1>1, <1>2, <1>3, <1>4, SameText

LEMMA TrailingShape ==
  ASSUME NEW s \in Text
  PROVE  /\ Trailing(s) \in Text
         /\ Open(s) => Ink(s) # {} /\ Trailing(s) = Location(s)
         /\ ~Open(s) => Trailing(s) = Append(Location(s), Space)
         /\ Ink(s) # {} =>
              /\ Len(Trailing(s)) > 0
              /\ Trailing(s)[Len(Trailing(s))] = IF Open(s) THEN Letter ELSE Space
<1>. PICK x : x = Location(s)
  OBVIOUS
<1>. PICK y : y = Append(x, Space)
  OBVIOUS
<1>1. x \in Text /\ (Ink(s) # {} => Len(x) > 0 /\ x[Len(x)] = Letter)
  BY LocationShape
<1>2. y \in Text /\ Len(x) \in Nat /\ Len(y) = Len(x) + 1 /\ y[Len(x) + 1] = Space
  BY <1>1, CharacterCases, AppendIs
<1>3. Open(s) => Ink(s) # {}
  BY DEF Open
<1>4. Len(y) > 0 /\ y[Len(y)] = Space
  BY <1>2
<1>5. Trailing(s) = IF Open(s) THEN x ELSE y
  BY DEF Trailing
<1>. QED
  BY <1>1, <1>2, <1>3, <1>4, <1>5

LEMMA SameLocationAppended ==
  ASSUME NEW s \in Text, NEW t \in Text, NEW c \in Character, NEW d \in Character,
         HalfWidth(c) # Space, HalfWidth(d) # Space
  PROVE  Location(Append(s, c)) = Location(Append(t, d))
           <=> (Open(s) <=> Open(t)) /\ Location(s) = Location(t)
<1>. DEFINE after(u) == IF Ink(u) = {} THEN <<Letter>> ELSE Append(Trailing(u), Letter)
<1>1. Location(Append(s, c)) = after(s) /\ Location(Append(t, d)) = after(t)
  BY LocationAppend
<1>2. \A u \in Text : Location(u) \in Text /\ (Location(u) = << >> <=> Ink(u) = {})
  BY LocationShape
<1>3. \A u \in Text : Open(u) => Ink(u) # {}
  BY TrailingShape
<1>4. << >> \in Text /\ <<Letter>> = Append(<< >>, Letter) /\ Len(<< >>) = 0
  BY DEF Text
<1>5. \A u \in Text : Ink(u) # {} => Trailing(u) \in Text /\ Trailing(u) # << >>
  BY <1>4, TrailingShape
<1>6. ASSUME (Open(s) <=> Open(t)) /\ Location(s) = Location(t)
      PROVE  after(s) = after(t)
  <2>1. Trailing(s) = Trailing(t)
    BY <1>6 DEF Trailing
  <2>. QED
    BY <1>2, <1>6, <2>1
<1>7. ASSUME after(s) = after(t)
      PROVE  (Open(s) <=> Open(t)) /\ Location(s) = Location(t)
  <2>1. CASE Ink(s) = {} /\ Ink(t) = {}
    BY <1>2, <1>3, <2>1
  <2>2. CASE Ink(s) = {} /\ Ink(t) # {}
    <3>1. Append(<< >>, Letter) = Append(Trailing(t), Letter)
      BY <1>4, <1>7, <2>2
    <3>. QED
      BY <1>4, <1>5, <2>2, <3>1, CharacterCases, AppendApart
  <2>3. CASE Ink(s) # {} /\ Ink(t) = {}
    <3>1. Append(Trailing(s), Letter) = Append(<< >>, Letter)
      BY <1>4, <1>7, <2>3
    <3>. QED
      BY <1>4, <1>5, <2>3, <3>1, CharacterCases, AppendApart
  <2>4. CASE Ink(s) # {} /\ Ink(t) # {}
    <3>1. Append(Trailing(s), Letter) = Append(Trailing(t), Letter)
      BY <1>7, <2>4
    <3>2. Trailing(s) = Trailing(t)
      BY <1>5, <2>4, <3>1, CharacterCases, AppendApart
    <3>3. Open(s) <=> Open(t)
      BY <2>4, <3>2, CharacterCases, TrailingShape
    <3>4. CASE Open(s)
      BY <3>2, <3>3, <3>4, TrailingShape
    <3>5. CASE ~Open(s)
      <4>1. Append(Location(s), Space) = Append(Location(t), Space)
        BY <3>2, <3>3, <3>5, TrailingShape
      <4>. QED
        BY <1>2, <3>3, <3>5, <4>1, CharacterCases, AppendApart
    <3>. QED
      BY <3>4, <3>5
  <2>. QED
    BY <2>1, <2>2, <2>3, <2>4
<1>. HIDE DEF after
<1>. QED
  BY <1>1, <1>6, <1>7

Agree(s, t) == Words(s) = Words(t) <=> Location(s) = Location(t)

\* A text that ends in a letter has a word and a location, the empty one has neither.
LEMMA LetterIsSeen ==
  ASSUME NEW s \in Text, NEW c \in Character, HalfWidth(c) # Space
  PROVE  Words(Append(s, c)) # Words(<< >>) /\ Location(Append(s, c)) # Location(<< >>)
<1>. PICK t : t = Append(s, c)
  OBVIOUS
<1>1. t \in Text /\ Ink(t) # {}
  BY InkAppend, AppendIs
<1>2. << >> \in Text /\ Ink(<< >>) = {}
  BY DEF Text, Ink
<1>3. Location(t) # << >> /\ Location(<< >>) = << >>
  BY <1>1, <1>2, LocationShape
<1>4. PICK m \in Nat : m > 0 /\ Words(t) \in [1 .. m -> Nat]
  BY <1>1, WordsShape
<1>5. PICK q \in Nat : q = 0 /\ Words(<< >>) \in [1 .. q -> Nat]
  BY <1>2, WordsShape
<1>6. m \in 1 .. m /\ m \notin 1 .. q
  BY <1>4, <1>5
<1>. QED
  BY <1>3, <1>4, <1>5, <1>6

\* strnorm.Location: two texts have one location exactly if they have the same words.
LEMMA LocationIsOfWords == \A s, t \in Text : Agree(s, t)
<1>. DEFINE R == {n \in Nat : \A s, t \in Text : Len(s) + Len(t) = n => Agree(s, t)}
<1>1. ASSUME NEW n \in Nat, \A k \in Nat : k < n => k \in R PROVE n \in R
  <2>. SUFFICES ASSUME NEW s \in Text, NEW t \in Text, Len(s) + Len(t) = n PROVE Agree(s, t)
    OBVIOUS
  <2>1. ASSUME NEW u \in Text, NEW v \in Text, Len(u) + Len(v) < n PROVE Agree(u, v)
    <3>1. Len(u) + Len(v) \in Nat
      BY DEF Text
    <3>. QED
      BY <1>1, <2>1, <3>1
  <2>. HIDE DEF R
  <2>2. Len(s) \in Nat /\ Len(t) \in Nat
    BY DEF Text
  <2>3. /\ Len(s) = 0 => s = << >>
        /\ Len(t) = 0 => t = << >>
    BY DEF Text
  <2>4. Len(s) > 0 => \E u \in Text, c \in Character : s = Append(u, c) /\ Len(s) = Len(u) + 1
    BY LastCharacter
  <2>5. Len(t) > 0 => \E v \in Text, d \in Character : t = Append(v, d) /\ Len(t) = Len(v) + 1
    BY LastCharacter
  <2>6. ASSUME NEW u \in Text, NEW c \in Character, s = Append(u, c), Len(s) = Len(u) + 1,
               HalfWidth(c) = Space
        PROVE  Agree(s, t)
    <3>1. Len(u) \in Nat
      BY DEF Text
    <3>2. Len(u) + Len(t) < n
      BY <2>2, <2>6, <3>1
    <3>3. Agree(u, t)
      BY <2>1, <3>2
    <3>4. Words(s) = Words(u) /\ Location(s) = Location(u)
      BY <2>6, WordsBlank, LocationAppend
    <3>. QED
      BY <3>3, <3>4 DEF Agree
  <2>7. ASSUME NEW v \in Text, NEW d \in Character, t = Append(v, d), Len(t) = Len(v) + 1,
               HalfWidth(d) = Space
        PROVE  Agree(s, t)
    <3>1. Len(v) \in Nat
      BY DEF Text
    <3>2. Len(s) + Len(v) < n
      BY <2>2, <2>7, <3>1
    <3>3. Agree(s, v)
      BY <2>1, <3>2
    <3>4. Words(t) = Words(v) /\ Location(t) = Location(v)
      BY <2>7, WordsBlank, LocationAppend
    <3>. QED
      BY <3>3, <3>4 DEF Agree
  <2>8. ASSUME NEW u \in Text, NEW c \in Character, s = Append(u, c), Len(s) = Len(u) + 1,
               HalfWidth(c) # Space,
               NEW v \in Text, NEW d \in Character, t = Append(v, d), Len(t) = Len(v) + 1,
               HalfWidth(d) # Space
        PROVE  Agree(s, t)
    <3>1. Len(u) \in Nat /\ Len(v) \in Nat
      BY DEF Text
    <3>2. Len(u) + Len(v) < n
      BY <2>8, <3>1
    <3>3. Agree(u, v)
      BY <2>1, <3>2
    <3>4. Words(s) = Words(t) <=> (Open(u) <=> Open(v)) /\ Words(u) = Words(v)
      BY <2>8, SameWordsAppended
    <3>5. Location(s) = Location(t) <=> (Open(u) <=> Open(v)) /\ Location(u) = Location(v)
      BY <2>8, SameLocationAppended
    <3>. QED
      BY <3>3, <3>4, <3>5, Zenon DEF Agree
  <2>9. CASE Len(s) = 0 /\ Len(t) = 0
    BY <2>3, <2>9 DEF Agree
  <2>10. CASE Len(s) = 0 /\ Len(t) > 0
    <3>. PICK v \in Text, d \in Character : t = Append(v, d) /\ Len(t) = Len(v) + 1
      BY <2>5, <2>10
    <3>1. HalfWidth(d) # Space => Agree(s, t)
      BY <2>3, <2>10, LetterIsSeen DEF Agree
    <3>. QED
      BY <2>7, <3>1
  <2>11. CASE Len(s) > 0 /\ Len(t) = 0
    <3>. PICK u \in Text, c \in Character : s = Append(u, c) /\ Len(s) = Len(u) + 1
      BY <2>4, <2>11
    <3>1. HalfWidth(c) # Space => Agree(s, t)
      BY <2>3, <2>11, LetterIsSeen DEF Agree
    <3>. QED
      BY <2>6, <3>1
  <2>12. CASE Len(s) > 0 /\ Len(t) > 0
    <3>. PICK u \in Text, c \in Character : s = Append(u, c) /\ Len(s) = Len(u) + 1
      BY <2>4, <2>12
    <3>. PICK v \in Text, d \in Character : t = Append(v, d) /\ Len(t) = Len(v) + 1
      BY <2>5, <2>12
    <3>. QED
      BY <2>6, <2>7, <2>8
  <2>. QED
    BY <2>2, <2>9, <2>10, <2>11, <2>12
<1>2. \A n \in Nat : n \in R
  <2>. HIDE DEF R
  <2>. QED
    BY <1>1, ByNumber
<1>. QED
  BY <1>2 DEF Text

LEMMA EntriesHaveTexts ==
  ASSUME DsTypeOK
  PROVE  \A e \in Entries : e.cells.location \in Text
<1>. SUFFICES ASSUME NEW o \in Operator, drafts[o] # NoDraft
              PROVE  drafts[o].cells.location \in Text
  BY DEF Entries
<1>1. drafts[o] \in Draft
  BY DEF DsTypeOK
<1>2. drafts[o].cells \in Cells
  BY <1>1 DEF Draft
<1>. QED
  BY <1>2, CellsAssumption DEF Text

\* strnorm and HasAssigneeConflict: two assignees are in conflict over where the asset is
\* exactly if the words they wrote differ, whatever the width and the spacing and however
\* long the text; drafts that differ in their notes conflict as well.
THEOREM ConflictIsOfWordsHolds == DsSpec => []ConflictIsOfWords
<1>1. DsTypeOK => ConflictIsOfWords
  <2>. SUFFICES ASSUME DsTypeOK
                PROVE  (\E e, f \in Own : EntryKey(e) # EntryKey(f)) <=>
                         \E e, f \in Own :
                           \/ Words(e.cells.location) # Words(f.cells.location)
                           \/ Normalize(e.cells.notes) # Normalize(f.cells.notes)
    BY ConflictMeans DEF ConflictIsOfWords, Own
  <2>1. ASSUME NEW e \in Own, NEW f \in Own
        PROVE  EntryKey(e) # EntryKey(f) <=>
                 \/ Words(e.cells.location) # Words(f.cells.location)
                 \/ Normalize(e.cells.notes) # Normalize(f.cells.notes)
    <3>1. e.cells.location \in Text /\ f.cells.location \in Text
      BY EntriesHaveTexts DEF Own
    <3>2. Agree(e.cells.location, f.cells.location)
      BY <3>1, LocationIsOfWords
    <3>. QED
      BY <3>2 DEF Agree, EntryKey
  <2>. QED
    BY <2>1
<1>2. DsIInv => DsTypeOK
  BY DEF DsIInv
<1>. QED
  BY <1>1, <1>2, DsIInvHolds, PTL
===============================================================================
