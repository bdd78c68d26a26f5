---------------------------- MODULE MC_Distillation ----------------------------
(***************************************************************************)
(* A turn and two maintenance workers over the raw nodes of one loop.      *)
(***************************************************************************)
EXTENDS Distillation

MCTurnWorker == {"turn"}
MCMaintenanceWorker == {"pass1", "pass2"}
OneMaintenanceWorker == {"pass1"}
MCRaw == 1..2
================================================================================
