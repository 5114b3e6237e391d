------------------------------ MODULE MCLifecycle ------------------------------
(***************************************************************************)
(* Values for the constants of Lifecycle: one asset that two people may    *)
(* ask for, one reviewer for each stage.                                   *)
(***************************************************************************)
EXTENDS Lifecycle, FiniteSets, TLC

CONSTANTS a1, p1, staff, college, school, d1

MCUser == {staff, college, school}
MCRole == staff :> 3 @@ college :> 2 @@ school :> 1
MCSubtree == staff :> {} @@ college :> {d1} @@ school :> {d1}

Submit(u, t) == [asset |-> a1, requester |-> u, dept |-> d1, type |-> t]

UseAndReturn == {Submit(staff, Use), Submit(staff, Return)}
UseOrScrap == {Submit(staff, Use), Submit(college, Scrap)}

OnePartition == [a \in Asset |-> p1]

NobodySees == [u \in User |-> {}]

SeedRow(s, u) == [status |-> s, user |-> u, dept |-> d1, deleted |-> FALSE]
NoAssetYet == [a \in {} |-> SeedRow(InStock, Nobody)]
InStockSeed == a1 :> SeedRow(InStock, Nobody)

Symmetry == Permutations(Request) \cup Permutations(Consumer)

\* The state without what is only recorded: no guard looks at it, nor does
\* AppliedWasGranted or HeldByGrantee.  Of the lost messages the number counts.
WithoutRecords ==
  <<request, handler, outbox, tx, rollbacks, Cardinality(lost), topic,
    ledger, dedup, owner, position, committed, worker, session, applied,
    faults.crash, faults.rebalance, faults.dedup + faults.change + faults.ack>>
===============================================================================
