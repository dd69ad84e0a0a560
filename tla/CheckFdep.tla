----------------------------- MODULE CheckFdep -----------------------------
(***************************************************************************)
(* check_fdep (kernel_patch/hwfilter.py): from the functions that are      *)
(* certainly dead (patch_sym, the init functions of removed built-in       *)
(* drivers) find the functions that only dead code can reach.              *)
(*                                                                         *)
(* The code scans a Python set of (module, symbol) pairs again and again,  *)
(* adding to patch_sym_ex while it scans, until a pass adds nothing.  The  *)
(* order of a set is arbitrary, so every visit is a step of its own, taken *)
(* in any order.                                                           *)
(***************************************************************************)
EXTENDS PatchRules

CONSTANT Inputs   \* the calls considered: the tables and the two arguments

ASSUME InputsAssumption == \A in \in Inputs : IsInput(in)

VARIABLES
  pc,                \* "populate", "scan", "done" or "error" (AssertionError)
  odeps,             \* the ObjDeps object; check_fdep only reads it
  fdep_checklist,    \* argument: the pairs to start from
  patch_sym,         \* argument: the functions to patch in any case
  fdep_checklist_ex, \* the pairs every pass visits
  patch_sym_ex,      \* the pairs found patchable so far
  num_patch_syms,    \* its size when the current pass began
  todo,              \* the pairs the current pass has not visited
  fdeps              \* what is left of related(o, f) for the pair in hand

args == <<odeps, fdep_checklist, patch_sym>>
vars == <<pc, args, fdep_checklist_ex, patch_sym_ex, num_patch_syms, todo, fdeps>>

TypeOK ==
  /\ pc \in {"populate", "scan", "done", "error"}
  /\ odeps \in Tables
  /\ fdep_checklist \in SUBSET Item
  /\ patch_sym \in SUBSET Item
  /\ fdep_checklist_ex \in SUBSET Item
  /\ patch_sym_ex \in SUBSET Item
  /\ num_patch_syms \in Nat
  /\ todo \in SUBSET Item
  /\ fdeps \in SUBSET Item

-----------------------------------------------------------------------------

Init ==
  \E in \in Inputs :
    /\ odeps = in.odeps
    /\ fdep_checklist = in.fdep_checklist
    /\ patch_sym = in.patch_sym
    /\ fdep_checklist_ex = in.fdep_checklist
    /\ patch_sym_ex = in.patch_sym
    /\ pc = "populate"
    /\ num_patch_syms = 0
    /\ todo = {}
    /\ fdeps = {}

\* related() is called for the pairs given, not for those it leads to.
Populate ==
  /\ pc = "populate"
  /\ ~\E i \in fdep_checklist : RelatedAsserts(odeps, i)
  /\ fdep_checklist_ex' = Populated(odeps, fdep_checklist)
  /\ num_patch_syms' = Cardinality(patch_sym_ex)
  /\ todo' = fdep_checklist_ex'
  /\ pc' = "scan"
  /\ UNCHANGED <<args, patch_sym_ex, fdeps>>

\* The assertion in related() fails, while populating or while scanning.
AssertionError ==
  /\ \/ /\ pc = "populate"
        /\ \E i \in fdep_checklist : RelatedAsserts(odeps, i)
     \/ /\ pc = "scan" /\ fdeps = {}
        /\ \E i \in todo : RelatedAsserts(odeps, i)
  /\ pc' = "error"
  /\ UNCHANGED <<args, fdep_checklist_ex, patch_sym_ex, num_patch_syms, todo, fdeps>>

VisitLeaf(i) ==
  /\ pc = "scan" /\ fdeps = {} /\ i \in todo
  /\ ~RelatedAsserts(odeps, i)
  /\ related(odeps, i) = {}
  /\ patch_sym_ex' = IF LeafPatchable(odeps, i, patch_sym_ex)
                     THEN patch_sym_ex \cup {i} ELSE patch_sym_ex
  /\ todo' = todo \ {i}
  /\ UNCHANGED <<pc, args, fdep_checklist_ex, num_patch_syms, fdeps>>

VisitRelated(i) ==
  /\ pc = "scan" /\ fdeps = {} /\ i \in todo
  /\ ~RelatedAsserts(odeps, i)
  /\ related(odeps, i) # {}
  /\ fdeps' = related(odeps, i)
  /\ todo' = todo \ {i}
  /\ UNCHANGED <<pc, args, fdep_checklist_ex, patch_sym_ex, num_patch_syms>>

\* Mutant of CheckRel: the pair is added without a look at its callers.
CheckRelAlways(r) ==
  /\ pc = "scan" /\ r \in fdeps
  /\ patch_sym_ex' = patch_sym_ex \cup {r}
  /\ fdeps' = fdeps \ {r}
  /\ UNCHANGED <<pc, args, fdep_checklist_ex, num_patch_syms, todo>>

CheckRel(r) ==
  /\ pc = "scan" /\ r \in fdeps
  /\ patch_sym_ex' = IF RelPatchable(odeps, r, patch_sym_ex)
                     THEN patch_sym_ex \cup {r} ELSE patch_sym_ex
  /\ fdeps' = fdeps \ {r}
  /\ UNCHANGED <<pc, args, fdep_checklist_ex, num_patch_syms, todo>>

\* Mutant of EndPass: there is only one pass.
EndOnlyPass ==
  /\ pc = "scan" /\ todo = {} /\ fdeps = {}
  /\ pc' = "done"
  /\ UNCHANGED <<args, fdep_checklist_ex, patch_sym_ex, num_patch_syms, todo, fdeps>>

\* Mutant of EndPass: the size is not remembered for the next pass.
EndPassStaleSize ==
  /\ pc = "scan" /\ todo = {} /\ fdeps = {}
  /\ IF num_patch_syms = Cardinality(patch_sym_ex)
     THEN pc' = "done" /\ UNCHANGED todo
     ELSE todo' = fdep_checklist_ex /\ UNCHANGED pc
  /\ UNCHANGED <<args, fdep_checklist_ex, patch_sym_ex, num_patch_syms, fdeps>>

\* The end of a pass: stop when the set did not grow, scan again otherwise.
EndPass ==
  /\ pc = "scan" /\ todo = {} /\ fdeps = {}
  /\ IF num_patch_syms = Cardinality(patch_sym_ex)
     THEN /\ pc' = "done"
          /\ UNCHANGED <<num_patch_syms, todo>>
     ELSE /\ num_patch_syms' = Cardinality(patch_sym_ex)
          /\ todo' = fdep_checklist_ex
          /\ UNCHANGED pc
  /\ UNCHANGED <<args, fdep_checklist_ex, patch_sym_ex, fdeps>>

Next ==
  \/ Populate
  \/ AssertionError
  \/ \E i \in todo : VisitLeaf(i) \/ VisitRelated(i)
  \/ \E r \in fdeps : CheckRel(r)
  \/ EndPass

Spec == Init /\ [][Next]_vars

\* The scan is a loop of one sequential program: it does not stop by itself.
FairSpec == Spec /\ WF_vars(Next)

-----------------------------------------------------------------------------
\* Properties.

\* The order in which Python happens to walk its sets does not matter: when
\* check_fdep returns, patch_sym_ex is the one least closed set
\* (hwfilter.py:219-254).
OrderIndependent ==
  pc = "done" =>
    IsLeastPatch(odeps, fdep_checklist_ex, patch_sym, patch_sym_ex)

\* A function that was not given as dead is patched only when every function
\* of its object that stores its address is patched too and, if a built-in
\* object exports it, so are all its known callers: no live code reaches it.
\* This holds in every state, also in the middle of a pass (hwfilter.py:225-248).
\* Pairs that name a .ko, or a function the object does not export, are added
\* without a look at callers when related() has nothing for them (222-227).
OnlyDeadCodeReaches ==
  \A x \in patch_sym_ex \ patch_sym :
    /\ ~has_referencer(odeps, x[1], x[2], patch_sym_ex)
    /\ x \in odeps.exports /\ odeps.drv[x[1]] = {}
         => Callers(odeps, x[2]) \subseteq patch_sym_ex

\* check_fdep implements its promise: it fails exactly when some pair it has
\* to visit trips the assertion of related(), whichever pair it meets first,
\* and otherwise hands back the least patch set, once.
Promise == INSTANCE LeastPatch
  WITH status <- IF pc \in {"populate", "scan"} THEN "running" ELSE pc,
       result <- IF pc = "done" THEN patch_sym_ex ELSE {}

ImplementsLeastPatch == Promise!LeastSpec

\* check_fdep returns, or dies on the assertion of related(): the loop that
\* runs "while True" ends (hwfilter.py:219).
Terminates == <>(pc \in {"done", "error"})

=============================================================================
