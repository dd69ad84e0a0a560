----------------------------- MODULE LeastPatch -----------------------------
(***************************************************************************)
(* What check_fdep promises: one step that either fails, when the tables   *)
(* put an object it has to look at into two loadable modules, or returns   *)
(* the least set of pairs that holds the given functions and is closed     *)
(* under the rules of PatchRules.  CheckFdep implements it.                *)
(***************************************************************************)
EXTENDS PatchRules

CONSTANT Inputs

VARIABLES
  odeps, fdep_checklist, patch_sym,   \* the arguments
  status,                             \* "running", "done" or "error"
  result                              \* the patched pairs, when done

absVars == <<odeps, fdep_checklist, patch_sym, status, result>>

Call ==
  \E in \in Inputs :
    /\ odeps = in.odeps
    /\ patch_sym = in.patch_sym
    /\ fdep_checklist = in.fdep_checklist
    /\ status = "running"
    /\ result = {}

Visits == Populated(odeps, fdep_checklist)

Asserts == \E i \in Visits : RelatedAsserts(odeps, i)

Return ==
  /\ status = "running"
  /\ ~Asserts
  /\ status' = "done"
  /\ IsLeastPatch(odeps, Visits, patch_sym, result')
  /\ UNCHANGED <<odeps, fdep_checklist, patch_sym>>

Fail ==
  /\ status = "running"
  /\ Asserts
  /\ status' = "error"
  /\ UNCHANGED <<odeps, fdep_checklist, patch_sym, result>>

LeastSpec == Call /\ [][Return \/ Fail]_absVars

=============================================================================
