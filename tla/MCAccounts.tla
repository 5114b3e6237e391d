----------------------------- MODULE MCAccounts -----------------------------
(***************************************************************************)
(* Accounts for TLC: a school with two colleges whose second was founded   *)
(* as 149, so that the next department is 150 and its digits begin with    *)
(* those of college 15; a school and a college administrator, signed in.   *)
(***************************************************************************)
EXTENDS Accounts, TLC

MCFounded == (1 :> <<1>>) @@ (15 :> <<1, 15>>) @@ (149 :> <<1, 149>>)

MCStaff == (10001 :> [role |-> 1, dept |-> 1]) @@ (10002 :> [role |-> 2, dept |-> 15])

(* Requests and free usernames are interchangeable. *)
Symmetry == Permutations(Handler) \cup Permutations(NewName)
=============================================================================
