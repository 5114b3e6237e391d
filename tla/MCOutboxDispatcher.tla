-------------------------- MODULE MCOutboxDispatcher --------------------------
(***************************************************************************)
(* Values for the constants of OutboxDispatcher.                           *)
(***************************************************************************)
EXTENDS OutboxDispatcher, TLC

CONSTANTS e1, e2, e3, p1, p2

\* e1 and e2 belong to one asset, e3 to another.
TwoPartitions == e1 :> p1 @@ e2 :> p1 @@ e3 :> p2

\* Nothing tells e1 from e2, nor one instance from the other.
Symmetry == Permutations(Dispatcher) \cup Permutations({e1, e2})
===============================================================================
