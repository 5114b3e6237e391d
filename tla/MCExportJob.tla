----------------------------- MODULE MCExportJob ----------------------------
(***************************************************************************)
(* ExportJob for TLC: two requests, two workers, two jobs; a workflow      *)
(* request and an asset to export, and an order that cannot be met.        *)
(***************************************************************************)
EXTENDS ExportJob, TLC

MCTableOf == ("w1" :> "workflow_log") @@ ("a1" :> "asset_list")
=============================================================================
