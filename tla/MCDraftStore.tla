---------------------------- MODULE MCDraftStore ----------------------------
(***************************************************************************)
(* A small instance of DraftStore for TLC: two operators, one of them with   *)
(* two windows; either may be an assignee or an administrator.             *)
(***************************************************************************)
EXTENDS DraftStore, TLC

CONSTANTS u1, u2, w1, w2, w3

MCOperator == {u1, u2}
MCAssigned == {{u1, u2}, {u2}, {}}
MCSession == {w1, w2, w3}
MCOperatorOf == (w1 :> u1) @@ (w2 :> u1) @@ (w3 :> u2)

At(location, notes) == [location |-> location, notes |-> notes]

MCCells ==
  { At(<<Letter, Letter>>, << >>),
    At(<<WideSpace, WideLetter, Letter, Space>>, <<Space>>),
    At(<<Letter, WideSpace, Space, Letter>>, << >>) }

Windows == Permutations({w1, w2})
=============================================================================
