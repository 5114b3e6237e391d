------------------------------- MODULE Approval -------------------------------
(***************************************************************************)
(* What the workflow service promises its users, with no handlers, no      *)
(* snapshots and no transactions: a request on an asset passes the college *)
(* stage, then the school stage; it can be turned down at either; the      *)
(* moment it is archived, and never otherwise, one lifecycle event is      *)
(* queued for it.  While a request is open no other can be opened on the   *)
(* same asset.                                                             *)
(***************************************************************************)
EXTENDS Integers, Sequences

CONSTANTS Request, Asset

VARIABLES
  phase,   \* phase of every request opened so far
  target,  \* the asset each of them is about
  queued   \* the requests whose event was queued, in order

vars == <<phase, target, queued>>

OpenPhase == {"college", "school"}
Phase == OpenPhase \cup {"archived", "rejected"}

Init ==
  /\ phase = [r \in {} |-> "college"]
  /\ target = [r \in {} |-> "college"]
  /\ queued = << >>

Put(f, x, v) == [y \in DOMAIN f \cup {x} |-> IF y = x THEN v ELSE f[y]]

Open(r, a) ==
  /\ r \in Request \ DOMAIN phase
  /\ \A q \in DOMAIN phase : target[q] = a => phase[q] \notin OpenPhase
  /\ phase' = Put(phase, r, "college")
  /\ target' = Put(target, r, a)
  /\ UNCHANGED queued

Forward(r) ==
  /\ r \in DOMAIN phase
  /\ phase[r] = "college"
  /\ phase' = [phase EXCEPT ![r] = "school"]
  /\ UNCHANGED <<target, queued>>

Archive(r) ==
  /\ r \in DOMAIN phase
  /\ phase[r] = "school"
  /\ phase' = [phase EXCEPT ![r] = "archived"]
  /\ queued' = Append(queued, r)
  /\ UNCHANGED target

TurnDown(r) ==
  /\ r \in DOMAIN phase
  /\ phase[r] \in OpenPhase
  /\ phase' = [phase EXCEPT ![r] = "rejected"]
  /\ UNCHANGED <<target, queued>>

Next ==
  \E r \in Request :
    \/ \E a \in Asset : Open(r, a)
    \/ Forward(r)
    \/ Archive(r)
    \/ TurnDown(r)

Spec == Init /\ [][Next]_vars
===============================================================================
