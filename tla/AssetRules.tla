------------------------------ MODULE AssetRules ------------------------------
(***************************************************************************)
(* The vocabulary shared by the workflow service (PostgreSQL) and the      *)
(* asset service (MySQL): the four kinds of workflow request, the ledger   *)
(* row of an asset, the rules asset-rpc checks before a request may be     *)
(* opened, the lifecycle event a granted request becomes, and the status   *)
(* machine that the consumer of that event enforces.                       *)
(***************************************************************************)
EXTENDS Integers

CONSTANTS
  User,      \* user ids
  Dept,      \* department ids
  NoDept,    \* department_id 0: a PUT without departmentId writes it
  Nobody     \* asset_ledger.user_id IS NULL; 0 in an event

ASSUME NobodyAssumption == Nobody \notin User
ASSUME NoDeptAssumption == NoDept \notin Dept

DeptId == Dept \cup {NoDept}

(***************************************************************************)
(* workflow_request.type                                                   *)
(***************************************************************************)
Use    == 1
Return == 2
Repair == 3
Scrap  == 4

RequestType == {Use, Return, Repair, Scrap}

(***************************************************************************)
(* asset_ledger.status, and the columns of a ledger row that some rule     *)
(* looks at.  A row is never removed: DELETE only sets deleted_at.         *)
(***************************************************************************)
InStock  == 1
InUse    == 2
InRepair == 3
Scrapped == 4

AssetStatus == {InStock, InUse, InRepair, Scrapped}

LedgerRow ==
  [status : AssetStatus, user : User \cup {Nobody}, dept : DeptId, deleted : BOOLEAN]

(***************************************************************************)
(* CheckAssetForWorkflow: may user u open a request of type t on this row? *)
(***************************************************************************)
CheckAssetForWorkflow(row, t, u) ==
  /\ ~row.deleted
  /\ \/ t = Use    /\ row.status = InStock /\ row.user = Nobody
     \/ t = Return /\ row.status = InUse   /\ row.user = u
     \/ t = Repair /\ row.status \in {InStock, InUse}
     \/ t = Scrap  /\ row.status \in {InStock, InRepair}

(***************************************************************************)
(* eventMap: the status and the user a granted request asks for.           *)
(***************************************************************************)
TargetStatus ==
  [t \in RequestType |->
     CASE t = Use    -> InUse
       [] t = Return -> InStock
       [] t = Repair -> InRepair
       [] t = Scrap  -> Scrapped]

AssignedUser(t, u) == IF t = Use THEN u ELSE Nobody

(***************************************************************************)
(* ChangeAssetStatus: the targets allowed from each status.                *)
(***************************************************************************)
Allowed ==
  [s \in AssetStatus |->
     CASE s = InStock  -> {InUse, InRepair, Scrapped}
       [] s = InUse    -> {InStock, InRepair}
       [] s = InRepair -> {InStock, InUse, Scrapped}
       [] s = Scrapped -> {}]
===============================================================================
