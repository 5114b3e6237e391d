---------------------------- MODULE MCAssetService ----------------------------
(***************************************************************************)
(* Values for the constants of AssetService.  The events are those of a    *)
(* use, a return and a scrap request on one asset; two administrators use  *)
(* asset-api, one of whom also asks for the asset.                         *)
(***************************************************************************)
EXTENDS AssetService, TLC

CONSTANTS a1, p1, q1, q2, q3, staff, admin, d1

Ev(q, a, t, u) == [request |-> q, asset |-> a, target |-> TargetStatus[t], user |-> AssignedUser(t, u)]

UseReturnScrap == {Ev(q1, a1, Use, staff), Ev(q2, a1, Return, staff), Ev(q3, a1, Scrap, staff)}
UseAndScrap == {Ev(q1, a1, Use, staff), Ev(q2, a1, Scrap, staff)}

OnePartition == [ev \in Event |-> p1]

BothSee == admin :> {d1} @@ staff :> {d1}
NobodySees == admin :> {} @@ staff :> {}

InStockAt(d) == [status |-> InStock, user |-> Nobody, dept |-> d, deleted |-> FALSE]

NoAssetYet == [a \in {} |-> InStockAt(d1)]
OneAsset == a1 :> InStockAt(d1)

Symmetry == Permutations(Consumer)
===============================================================================
