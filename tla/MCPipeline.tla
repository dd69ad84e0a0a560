----------------------------- MODULE MCPipeline -----------------------------
(***************************************************************************)
(* Model checking Pipeline.  Two runs are enough for one to find what the  *)
(* other left; a third finds what a disturbed second one made of it.       *)
(***************************************************************************)
EXTENDS Pipeline

=============================================================================
