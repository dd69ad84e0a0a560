----------------------------- MODULE MCIrBuild -----------------------------
(***************************************************************************)
(* Model checking IrBuild: four compilations and three links through pools *)
(* of two, so that each pool fills, empties partly and fills again.        *)
(***************************************************************************)
EXTENDS IrBuild

=============================================================================
