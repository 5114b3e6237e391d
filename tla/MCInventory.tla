----------------------------- MODULE MCInventory -----------------------------
(***************************************************************************)
(* A small instance of Inventory for TLC: two assets at the same place in  *)
(* the book, two users to assign, one administrator.                       *)
(***************************************************************************)
EXTENDS Inventory, TLC

CONSTANTS a1, a2, u1, u2, h1, h2

MCAsset == {a1, a2}
MCUser == {u1, u2}
MCHandler == {h1, h2}

Here == <<Letter>>
Cell(location) == [location |-> location, notes |-> << >>]

\* The place in the book, in full width, and a blank one.
MCCells == {Cell(<<WideLetter, Space>>), Cell(<<Space>>)}
MCBookLocation == [a \in MCAsset |-> Here]

Alike == Permutations(MCHandler) \cup Permutations(MCUser) \cup Permutations(MCAsset)
==============================================================================
