------------------------------ MODULE MCWorkflow ------------------------------
(***************************************************************************)
(* Values for the constants of Workflow: a member of staff, two college    *)
(* admins with a department each, and a school admin.                      *)
(***************************************************************************)
EXTENDS Workflow, TLC

CONSTANTS a1, staff, college1, college2, school, d1, d2

MCUser == {staff, college1, college2, school}
MCDept == {d1, d2}

MCRole ==
  staff :> 3 @@ college1 :> 2 @@ college2 :> 2 @@ school :> 1

MCSubtree ==
  staff :> {} @@ college1 :> {d1} @@ college2 :> {d2} @@ school :> {d1, d2}

Submit(u, a, t, d) == [asset |-> a, requester |-> u, dept |-> d, type |-> t]

\* Two submissions on one asset, in the subtrees of different college admins.
RaceSubmission == {Submit(staff, a1, Use, d1), Submit(college1, a1, Scrap, d2)}

\* Request ids and handlers are interchangeable: no action orders them.
Symmetry == Permutations(Request) \cup Permutations(Handler)
===============================================================================
