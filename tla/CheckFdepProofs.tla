--------------------------- MODULE CheckFdepProofs ---------------------------
(***************************************************************************)
(* Proofs about check_fdep for every kernel: whatever the tables, the pair *)
(* sets and the order of the visits.  The inductive invariant IInv says    *)
(* what a pass has established half way through; CheckFdep's properties    *)
(* follow from it.                                                         *)
(***************************************************************************)
EXTENDS CheckFdep, FiniteSetTheorems, TLAPS

-----------------------------------------------------------------------------
\* The inductive invariant.

\* The arguments are those of a call check_drivers can make.
ArgsInv ==
  /\ patch_sym \subseteq fdep_checklist
  /\ fdep_checklist \subseteq odeps.exports

\* What the work sets hold in each phase.
WorkInv ==
  /\ pc = "populate" => patch_sym_ex = patch_sym /\ fdeps = {}
  /\ pc \in {"scan", "done"} =>
       fdep_checklist_ex = Populated(odeps, fdep_checklist)
  /\ todo \subseteq fdep_checklist_ex
  /\ pc = "done" => todo = {} /\ fdeps = {}
  /\ \A r \in fdeps : \E i \in fdep_checklist_ex : r \in related(odeps, i)

\* Nothing is patched that some closed set of patches could do without.
BelowInv ==
  /\ patch_sym \subseteq patch_sym_ex
  /\ \A q \in SUBSET Item :
       patch_sym \subseteq q /\ ClosedUnder(odeps, fdep_checklist_ex, q)
         => patch_sym_ex \subseteq q

\* As long as a pass has added nothing, the pairs it has visited need
\* nothing more.
VisitedInv ==
  pc = "scan" /\ num_patch_syms = Cardinality(patch_sym_ex) =>
    \A i \in fdep_checklist_ex \ todo :
      /\ related(odeps, i) = {} /\ LeafPatchable(odeps, i, patch_sym_ex)
           => i \in patch_sym_ex
      /\ \A r \in related(odeps, i) \ fdeps :
           RelPatchable(odeps, r, patch_sym_ex) => r \in patch_sym_ex

CountInv ==
  pc = "scan" => num_patch_syms <= Cardinality(patch_sym_ex)

\* No pair visited so far trips the assertion of related().
NoAssertInv ==
  pc \in {"scan", "done"} =>
    \A i \in fdep_checklist_ex \ todo : ~RelatedAsserts(odeps, i)

DoneInv ==
  pc = "done" => ClosedUnder(odeps, fdep_checklist_ex, patch_sym_ex)

IInv ==
  /\ TypeOK
  /\ ArgsInv
  /\ WorkInv
  /\ BelowInv
  /\ VisitedInv
  /\ CountInv
  /\ NoAssertInv
  /\ DoneInv
  /\ OnlyDeadCodeReaches

-----------------------------------------------------------------------------
\* Lemmas on the tables and the rules.

\* There are finitely many pairs, so a patch set has a size.
LEMMA ItemFinite == IsFiniteSet(Item)
  BY NamesAssumption, FS_Product DEF Item, Mod

\* The size of a patch set is a number, and grows by one with a new pair.
LEMMA PatchSize ==
  ASSUME NEW p \in SUBSET Item, NEW x \in Item
  PROVE  /\ Cardinality(p) \in Nat
         /\ x \notin p => Cardinality(p \cup {x}) = Cardinality(p) + 1
<1>1. IsFiniteSet(p)
  BY ItemFinite, FS_Subset
<1>2. QED
  BY <1>1, FS_CardinalityType, FS_AddElement

\* The name an object goes by is that of a module.
LEMMA ModOfType ==
  ASSUME NEW d \in Tables, NEW o \in Obj
  PROVE  ModOf(d, o) \in Mod
<1>1. d.drv[o] \in SUBSET Ko
  BY DEF Tables
<1>2. QED
  BY <1>1 DEF ModOf, Mod

\* The callers of a symbol are pairs.
LEMMA CallersType ==
  ASSUME NEW d \in Tables, NEW s
  PROVE  Callers(d, s) \subseteq Item
<1>1. ASSUME NEW t \in d.callers
      PROVE  <<ModOf(d, t[3]), t[2]>> \in Item
  <2>1. t \in Sym \X Sym \X Obj
    BY DEF Tables
  <2>2. t[3] \in Obj /\ t[2] \in Sym
    BY <2>1
  <2>3. QED
    BY <2>2, ModOfType DEF Item
<1>2. QED
  BY <1>1 DEF Callers

\* So are the exports and what related() returns.
LEMMA RelatedType ==
  ASSUME NEW d \in Tables, NEW i
  PROVE  related(d, i) \subseteq Item
<1>1. ASSUME NEW e \in d.exports
      PROVE  <<ModOf(d, e[1]), e[2]>> \in Item
  <2>1. e \in Obj \X Sym
    BY DEF Tables
  <2>2. e[1] \in Obj /\ e[2] \in Sym
    BY <2>1
  <2>3. QED
    BY <2>2, ModOfType DEF Item
<1>2. QED
  BY <1>1 DEF related

\* The export table holds pairs.
LEMMA ExportsType ==
  ASSUME NEW d \in Tables
  PROVE  d.exports \subseteq Item
<1>1. d.exports \subseteq Obj \X Sym
  BY DEF Tables
<1>2. QED
  BY <1>1 DEF Item, Mod

\* Populating leads to pairs only.
LEMMA PopulatedType ==
  ASSUME NEW d \in Tables, NEW list \in SUBSET Item
  PROVE  /\ Populated(d, list) \subseteq Item
         /\ list \subseteq Populated(d, list)
<1>1. \A o : ImportItems(d, o) \subseteq Item
  BY ExportsType DEF ImportItems
<1>2. ASSUME NEW i \in list
      PROVE  NewItems(d, i) \subseteq Item
  <2>1. related(d, i) \subseteq Item
    BY RelatedType
  <2>2. \A r : Callers(d, r[2]) \subseteq Item
    BY CallersType
  <2>3. QED
    BY <1>1, <2>1, <2>2 DEF NewItems
<1>3. QED
  BY <1>2 DEF Populated

\* The rules are monotone: what may be patched stays patchable as the patch
\* set grows.
LEMMA RulesMonotone ==
  ASSUME NEW d, NEW p, NEW q, p \subseteq q, NEW i
  PROVE  /\ LeafPatchable(d, i, p) => LeafPatchable(d, i, q)
         /\ RelPatchable(d, i, p) => RelPatchable(d, i, q)
         /\ \A m, s : ~has_referencer(d, m, s, p) => ~has_referencer(d, m, s, q)
  BY DEF LeafPatchable, RelPatchable, has_referencer

\* A pair of the export table that related() knows nothing about has no
\* callers.
LEMMA LeafHasNoCallers ==
  ASSUME NEW d, NEW i \in d.exports, related(d, i) = {}
  PROVE  Callers(d, i[2]) = {}
<1>1. SUFFICES ASSUME Callers(d, i[2]) # {} PROVE FALSE
  OBVIOUS
<1>2. i[1] \in TestMods(d, i[1])
  BY DEF TestMods
<1>3. <<ModOf(d, i[1]), i[2]>> \in related(d, i)
  BY <1>1, <1>2 DEF related
<1>4. QED
  BY <1>3

-----------------------------------------------------------------------------
\* The invariance of IInv.

\* IInv holds when check_fdep is called.
LEMMA InitIInv == Init => IInv
<1>1. SUFFICES ASSUME NEW in \in Inputs,
                      odeps = in.odeps,
                      fdep_checklist = in.fdep_checklist,
                      patch_sym = in.patch_sym,
                      fdep_checklist_ex = in.fdep_checklist,
                      patch_sym_ex = in.patch_sym,
                      pc = "populate", num_patch_syms = 0,
                      todo = {}, fdeps = {}
               PROVE  IInv
  BY DEF Init
<1>2. IsInput(in)
  BY InputsAssumption
<1>3. ArgsInv /\ odeps \in Tables
  BY <1>1, <1>2 DEF IsInput, ArgsInv
<1>4. odeps.exports \subseteq Item
  BY <1>3, ExportsType
<1>5. TypeOK
  BY <1>1, <1>3, <1>4 DEF TypeOK, ArgsInv
<1>6. QED
  BY <1>1, <1>3, <1>5
  DEF IInv, WorkInv, BelowInv, VisitedInv, CountInv, NoAssertInv, DoneInv,
      OnlyDeadCodeReaches

\* Adding a pair the rules allow keeps the patch set below every closed set
\* and free of functions live code reaches.
LEMMA AddPair ==
  ASSUME IInv, NEW x \in Item,
         \A q \in SUBSET Item :
           /\ ClosedUnder(odeps, fdep_checklist_ex, q)
           /\ patch_sym_ex \subseteq q
           => x \in q,
         ~has_referencer(odeps, x[1], x[2], patch_sym_ex),
         x \in odeps.exports => Callers(odeps, x[2]) \subseteq patch_sym_ex,
         UNCHANGED <<args, fdep_checklist_ex>>,
         patch_sym_ex' = patch_sym_ex \cup {x}
  PROVE  BelowInv' /\ OnlyDeadCodeReaches'
<1>1. BelowInv'
  BY DEF IInv, BelowInv, args
<1>2. OnlyDeadCodeReaches'
  <2>1. SUFFICES ASSUME NEW y \in patch_sym_ex' \ patch_sym
                 PROVE  /\ ~has_referencer(odeps, y[1], y[2], patch_sym_ex')
                        /\ y \in odeps.exports /\ odeps.drv[y[1]] = {}
                             => Callers(odeps, y[2]) \subseteq patch_sym_ex'
    BY DEF OnlyDeadCodeReaches, args
  <2>2. /\ ~has_referencer(odeps, y[1], y[2], patch_sym_ex)
        /\ y \in odeps.exports /\ odeps.drv[y[1]] = {}
             => Callers(odeps, y[2]) \subseteq patch_sym_ex
    BY <2>1 DEF IInv, OnlyDeadCodeReaches
  <2>3. QED
    BY <2>2, RulesMonotone
<1>3. QED
  BY <1>1, <1>2

\* Populating the check list keeps IInv.
LEMMA PopulateIInv == IInv /\ Populate => IInv'
<1>1. SUFFICES ASSUME IInv, Populate PROVE IInv'
  OBVIOUS
<1>2. /\ fdep_checklist_ex' = Populated(odeps, fdep_checklist)
      /\ todo' = fdep_checklist_ex'
      /\ num_patch_syms' = Cardinality(patch_sym_ex)
      /\ patch_sym_ex = patch_sym
      /\ pc' = "scan"
      /\ UNCHANGED <<odeps, fdep_checklist, patch_sym, patch_sym_ex, fdeps>>
      /\ TypeOK
  BY <1>1 DEF Populate, IInv, WorkInv, args
<1>3. fdep_checklist_ex' \subseteq Item
  BY <1>2, PopulatedType DEF TypeOK
<1>4. Cardinality(patch_sym_ex) \in Nat
  BY <1>2, PatchSize, ItemFinite, FS_Subset, FS_CardinalityType DEF TypeOK
<1>5. TypeOK'
  BY <1>2, <1>3, <1>4 DEF TypeOK
<1>6. WorkInv'
  <2>1. fdeps = {}
    BY <1>1 DEF IInv, Populate, WorkInv
  <2>2. QED
    BY <1>2, <2>1 DEF WorkInv
<1>7. ArgsInv' /\ BelowInv' /\ VisitedInv' /\ CountInv' /\ NoAssertInv' /\ DoneInv'
  BY <1>1, <1>2, <1>4
  DEF IInv, ArgsInv, BelowInv, VisitedInv, CountInv, NoAssertInv, DoneInv
<1>8. OnlyDeadCodeReaches'
  BY <1>1, <1>2 DEF IInv, OnlyDeadCodeReaches
<1>9. QED
  BY <1>5, <1>6, <1>7, <1>8 DEF IInv

\* The failing assertion changes nothing IInv speaks of.
LEMMA AssertionErrorIInv == IInv /\ AssertionError => IInv'
  BY DEF IInv, AssertionError, args, TypeOK, ArgsInv, WorkInv, BelowInv,
         VisitedInv, CountInv, NoAssertInv, DoneInv, OnlyDeadCodeReaches

\* Visiting a pair without related functions keeps IInv.
LEMMA VisitLeafIInv ==
  ASSUME IInv, NEW i \in todo, VisitLeaf(i)
  PROVE  IInv'
<1>1. /\ pc = "scan" /\ pc' = "scan" /\ fdeps = {} /\ fdeps' = {}
      /\ ~RelatedAsserts(odeps, i)
      /\ related(odeps, i) = {}
      /\ todo' = todo \ {i}
      /\ UNCHANGED <<odeps, fdep_checklist, patch_sym, fdep_checklist_ex,
                     num_patch_syms>>
      /\ UNCHANGED args
      /\ TypeOK
  BY DEF VisitLeaf, args, IInv
<1>2. i \in fdep_checklist_ex /\ i \in Item
  BY <1>1 DEF IInv, WorkInv, TypeOK
<1>3. TypeOK' /\ ArgsInv' /\ WorkInv' /\ NoAssertInv' /\ DoneInv'
  <2>1. patch_sym_ex' \in SUBSET Item
    BY <1>1, <1>2 DEF VisitLeaf, TypeOK
  <2>2. TypeOK'
    BY <1>1, <2>1 DEF TypeOK
  <2>3. ArgsInv' /\ WorkInv' /\ NoAssertInv' /\ DoneInv'
    BY <1>1 DEF IInv, ArgsInv, WorkInv, NoAssertInv, DoneInv
  <2>4. QED
    BY <2>2, <2>3
<1>4. CASE patch_sym_ex' = patch_sym_ex
  <2>1. LeafPatchable(odeps, i, patch_sym_ex) => i \in patch_sym_ex
    BY <1>4 DEF VisitLeaf
  <2>2. VisitedInv'
    BY <1>1, <1>4, <2>1 DEF IInv, VisitedInv
  <2>3. BelowInv' /\ CountInv' /\ OnlyDeadCodeReaches'
    BY <1>1, <1>4 DEF IInv, BelowInv, CountInv, OnlyDeadCodeReaches
  <2>4. QED
    BY <1>3, <2>2, <2>3 DEF IInv
<1>5. CASE patch_sym_ex' # patch_sym_ex
  <2>1. /\ LeafPatchable(odeps, i, patch_sym_ex)
        /\ patch_sym_ex' = patch_sym_ex \cup {i}
        /\ i \notin patch_sym_ex
    BY <1>5 DEF VisitLeaf
  <2>2. BelowInv' /\ OnlyDeadCodeReaches'
    <3>1. ASSUME NEW q \in SUBSET Item,
                 ClosedUnder(odeps, fdep_checklist_ex, q),
                 patch_sym_ex \subseteq q
          PROVE  i \in q
      BY <1>1, <1>2, <2>1, <3>1, RulesMonotone DEF ClosedUnder
    <3>2. /\ ~has_referencer(odeps, i[1], i[2], patch_sym_ex)
          /\ i \in odeps.exports => Callers(odeps, i[2]) \subseteq patch_sym_ex
      BY <1>1, <2>1, LeafHasNoCallers DEF LeafPatchable
    <3>3. QED
      BY <1>1, <1>2, <2>1, <3>1, <3>2, AddPair
  <2>3. VisitedInv' /\ CountInv'
    <3>1. /\ Cardinality(patch_sym_ex) \in Nat
          /\ Cardinality(patch_sym_ex') = Cardinality(patch_sym_ex) + 1
      BY <1>1, <1>2, <2>1, PatchSize DEF TypeOK
    <3>2. num_patch_syms' < Cardinality(patch_sym_ex')
      BY <1>1, <3>1 DEF IInv, CountInv, TypeOK
    <3>3. QED
      BY <1>1, <3>1, <3>2 DEF VisitedInv, CountInv, TypeOK
  <2>4. QED
    BY <1>3, <2>2, <2>3 DEF IInv
<1>6. QED
  BY <1>4, <1>5

\* Taking up the related functions of a pair keeps IInv.
LEMMA VisitRelatedIInv ==
  ASSUME IInv, NEW i \in todo, VisitRelated(i)
  PROVE  IInv'
<1>1. /\ pc = "scan" /\ pc' = "scan" /\ fdeps = {}
      /\ fdeps' = related(odeps, i)
      /\ related(odeps, i) # {}
      /\ ~RelatedAsserts(odeps, i)
      /\ todo' = todo \ {i}
      /\ UNCHANGED <<odeps, fdep_checklist, patch_sym, fdep_checklist_ex,
                     patch_sym_ex, num_patch_syms>>
      /\ TypeOK
  BY DEF VisitRelated, args, IInv
<1>2. i \in fdep_checklist_ex
  BY DEF IInv, WorkInv
<1>3. TypeOK'
  BY <1>1, RelatedType DEF TypeOK
<1>4. ArgsInv' /\ WorkInv' /\ NoAssertInv' /\ DoneInv'
  BY <1>1, <1>2 DEF IInv, ArgsInv, WorkInv, NoAssertInv, DoneInv
<1>5. BelowInv' /\ CountInv' /\ OnlyDeadCodeReaches'
  BY <1>1 DEF IInv, BelowInv, CountInv, OnlyDeadCodeReaches
<1>6. VisitedInv'
  BY <1>1 DEF IInv, VisitedInv
<1>7. QED
  BY <1>3, <1>4, <1>5, <1>6 DEF IInv

\* Checking one related function keeps IInv.
LEMMA CheckRelIInv ==
  ASSUME IInv, NEW r \in fdeps, CheckRel(r)
  PROVE  IInv'
<1>1. /\ pc = "scan" /\ pc' = "scan"
      /\ fdeps' = fdeps \ {r}
      /\ UNCHANGED <<odeps, fdep_checklist, patch_sym, fdep_checklist_ex,
                     num_patch_syms, todo>>
      /\ UNCHANGED args
      /\ TypeOK
  BY DEF CheckRel, args, IInv
<1>2. PICK i \in fdep_checklist_ex : r \in related(odeps, i)
  BY DEF IInv, WorkInv
<1>3. r \in Item
  BY <1>1 DEF TypeOK
<1>4. TypeOK' /\ ArgsInv' /\ WorkInv' /\ NoAssertInv' /\ DoneInv'
  <2>1. patch_sym_ex' \in SUBSET Item
    BY <1>1, <1>3 DEF CheckRel, TypeOK
  <2>2. TypeOK'
    BY <1>1, <2>1 DEF TypeOK
  <2>3. ArgsInv' /\ WorkInv' /\ NoAssertInv' /\ DoneInv'
    BY <1>1 DEF IInv, ArgsInv, WorkInv, NoAssertInv, DoneInv
  <2>4. QED
    BY <2>2, <2>3
<1>5. CASE patch_sym_ex' = patch_sym_ex
  <2>1. RelPatchable(odeps, r, patch_sym_ex) => r \in patch_sym_ex
    BY <1>5 DEF CheckRel
  <2>2. VisitedInv'
    BY <1>1, <1>5, <2>1 DEF IInv, VisitedInv
  <2>3. BelowInv' /\ CountInv' /\ OnlyDeadCodeReaches'
    BY <1>1, <1>5 DEF IInv, BelowInv, CountInv, OnlyDeadCodeReaches
  <2>4. QED
    BY <1>4, <2>2, <2>3 DEF IInv
<1>6. CASE patch_sym_ex' # patch_sym_ex
  <2>1. /\ RelPatchable(odeps, r, patch_sym_ex)
        /\ patch_sym_ex' = patch_sym_ex \cup {r}
        /\ r \notin patch_sym_ex
    BY <1>6 DEF CheckRel
  <2>2. BelowInv' /\ OnlyDeadCodeReaches'
    <3>1. ASSUME NEW q \in SUBSET Item,
                 ClosedUnder(odeps, fdep_checklist_ex, q),
                 patch_sym_ex \subseteq q
          PROVE  r \in q
      BY <1>2, <2>1, <3>1, RulesMonotone DEF ClosedUnder
    <3>2. /\ Callers(odeps, r[2]) \subseteq patch_sym_ex
          /\ ~has_referencer(odeps, r[1], r[2], patch_sym_ex)
      BY <2>1 DEF RelPatchable
    <3>3. QED
      BY <1>1, <1>3, <2>1, <3>1, <3>2, AddPair
  <2>3. VisitedInv' /\ CountInv'
    <3>1. /\ Cardinality(patch_sym_ex) \in Nat
          /\ Cardinality(patch_sym_ex') = Cardinality(patch_sym_ex) + 1
      BY <1>1, <1>3, <2>1, PatchSize DEF TypeOK
    <3>2. num_patch_syms' < Cardinality(patch_sym_ex')
      BY <1>1, <3>1 DEF IInv, CountInv, TypeOK
    <3>3. QED
      BY <1>1, <3>1, <3>2 DEF VisitedInv, CountInv, TypeOK
  <2>4. QED
    BY <1>4, <2>2, <2>3 DEF IInv
<1>7. QED
  BY <1>5, <1>6

\* Ending a pass, or the scan, keeps IInv: a pass that added nothing has
\* found the patch set closed.
LEMMA EndPassIInv == IInv /\ EndPass => IInv'
<1>1. SUFFICES ASSUME IInv, EndPass PROVE IInv'
  OBVIOUS
<1>2. /\ pc = "scan" /\ todo = {} /\ fdeps = {} /\ fdeps' = {}
      /\ UNCHANGED <<odeps, fdep_checklist, patch_sym, fdep_checklist_ex,
                     patch_sym_ex>>
      /\ TypeOK
  BY <1>1 DEF EndPass, args, IInv
<1>3. Cardinality(patch_sym_ex) \in Nat
  BY <1>2, ItemFinite, FS_Subset, FS_CardinalityType DEF TypeOK
<1>4. BelowInv' /\ OnlyDeadCodeReaches' /\ ArgsInv'
  BY <1>1, <1>2 DEF IInv, BelowInv, OnlyDeadCodeReaches, ArgsInv
<1>5. CASE num_patch_syms = Cardinality(patch_sym_ex)
  <2>1. pc' = "done" /\ UNCHANGED <<num_patch_syms, todo>>
    BY <1>1, <1>5 DEF EndPass
  <2>2. ClosedUnder(odeps, fdep_checklist_ex, patch_sym_ex)
    BY <1>1, <1>2, <1>5 DEF IInv, VisitedInv, ClosedUnder
  <2>3. DoneInv'
    BY <1>2, <2>2 DEF DoneInv
  <2>4. TypeOK' /\ WorkInv' /\ VisitedInv' /\ CountInv' /\ NoAssertInv'
    BY <1>1, <1>2, <2>1
    DEF IInv, TypeOK, WorkInv, VisitedInv, CountInv, NoAssertInv
  <2>5. QED
    BY <1>4, <2>3, <2>4 DEF IInv
<1>6. CASE num_patch_syms # Cardinality(patch_sym_ex)
  <2>1. /\ pc' = "scan"
        /\ num_patch_syms' = Cardinality(patch_sym_ex)
        /\ todo' = fdep_checklist_ex
    BY <1>1, <1>2, <1>6 DEF EndPass
  <2>2. TypeOK' /\ WorkInv' /\ VisitedInv' /\ CountInv' /\ NoAssertInv' /\ DoneInv'
    BY <1>1, <1>2, <1>3, <2>1
    DEF IInv, TypeOK, WorkInv, VisitedInv, CountInv, NoAssertInv, DoneInv
  <2>3. QED
    BY <1>4, <2>2 DEF IInv
<1>7. QED
  BY <1>5, <1>6

\* Every step of check_fdep keeps IInv.
LEMMA NextIInv == IInv /\ [Next]_vars => IInv'
<1>1. SUFFICES ASSUME IInv, [Next]_vars PROVE IInv'
  OBVIOUS
<1>2. CASE Populate
  BY <1>1, <1>2, PopulateIInv
<1>3. CASE AssertionError
  BY <1>1, <1>3, AssertionErrorIInv
<1>4. ASSUME NEW i \in todo, VisitLeaf(i) \/ VisitRelated(i) PROVE IInv'
  BY <1>1, <1>4, VisitLeafIInv, VisitRelatedIInv
<1>5. ASSUME NEW r \in fdeps, CheckRel(r) PROVE IInv'
  BY <1>1, <1>5, CheckRelIInv
<1>6. CASE EndPass
  BY <1>1, <1>6, EndPassIInv
<1>7. CASE UNCHANGED vars
  BY <1>1, <1>7
  DEF vars, args, IInv, TypeOK, ArgsInv, WorkInv, BelowInv, VisitedInv,
      CountInv, NoAssertInv, DoneInv, OnlyDeadCodeReaches
<1>8. QED
  BY <1>1, <1>2, <1>3, <1>4, <1>5, <1>6, <1>7 DEF Next

-----------------------------------------------------------------------------
\* The theorems.

\* IInv holds in every reachable state.
THEOREM Invariance == Spec => []IInv
  BY InitIInv, NextIInv, PTL DEF Spec

\* check_fdep keeps its variables in their types: the pairs it collects are
\* always pairs of a module and a symbol of the tables.
THEOREM TypeCorrect == Spec => []TypeOK
<1>1. IInv => TypeOK
  BY DEF IInv
<1>2. QED
  BY <1>1, Invariance, PTL

\* For every kernel: the functions check_fdep adds are reached by patched
\* code only, in every state of the scan.
THEOREM AddedCodeIsDead == Spec => []OnlyDeadCodeReaches
<1>1. IInv => OnlyDeadCodeReaches
  BY DEF IInv
<1>2. QED
  BY <1>1, Invariance, PTL

\* For every kernel: whatever the order of the visits, check_fdep returns the
\* least closed patch set.
THEOREM ResultIsLeast == Spec => []OrderIndependent
<1>1. IInv => OrderIndependent
  BY DEF IInv, OrderIndependent, IsLeastPatch, BelowInv, DoneInv
<1>2. QED
  BY <1>1, Invariance, PTL

-----------------------------------------------------------------------------
\* Refinement: CheckFdep implements LeastPatch.

\* The instance of LeastPatch has its own copies of the rules; they are the
\* same rules.
LEMMA SameRules ==
  ASSUME NEW d, NEW list, NEW base, NEW p, NEW i
  PROVE  /\ Promise!Populated(d, list) = Populated(d, list)
         /\ Promise!RelatedAsserts(d, i) <=> RelatedAsserts(d, i)
         /\ Promise!IsLeastPatch(d, list, base, p) <=> IsLeastPatch(d, list, base, p)
<1>1. Promise!RelatedAsserts(d, i) <=> RelatedAsserts(d, i)
  BY DEF Promise!RelatedAsserts, RelatedAsserts, Promise!TestMods, TestMods
<1>2. \A s : Promise!Callers(d, s) = Callers(d, s)
  BY Zenon DEF Promise!Callers, Callers, Promise!ModOf, ModOf
<1>3. \A j : Promise!related(d, j) = related(d, j)
  BY Zenon DEF Promise!related, related, Promise!TestMods, TestMods,
               Promise!Callers, Callers, Promise!ModOf, ModOf
<1>4. Promise!Populated(d, list) = Populated(d, list)
  <2>1. \A j : Promise!NewItems(d, j) = NewItems(d, j)
    BY Zenon
    DEF Promise!NewItems, NewItems, Promise!ImportItems, ImportItems,
        Promise!imports, imports, Promise!related, related, Promise!TestMods,
        TestMods, Promise!Callers, Callers, Promise!ModOf, ModOf
  <2>2. QED
    BY <2>1 DEF Promise!Populated, Populated
<1>5. \A l, q : Promise!ClosedUnder(d, l, q) <=> ClosedUnder(d, l, q)
  BY <1>2, <1>3
  DEF Promise!ClosedUnder, ClosedUnder, Promise!LeafPatchable, LeafPatchable,
      Promise!RelPatchable, RelPatchable, Promise!is_ir_mod, is_ir_mod,
      Promise!has_referencer, has_referencer
<1>6. Promise!IsLeastPatch(d, list, base, p) <=> IsLeastPatch(d, list, base, p)
  BY <1>5 DEF Promise!IsLeastPatch, IsLeastPatch, Promise!Item, Item,
              Promise!Mod, Mod
<1>7. QED
  BY <1>1, <1>4, <1>6

\* The call of check_fdep is a call of the promise.
LEMMA InitRefines == Init => Promise!Call
  BY DEF Init, Promise!Call

\* Every step is a step of the promise or leaves it unchanged.
LEMMA StepRefines ==
  IInv /\ IInv' /\ [Next]_vars
    => [Promise!Return \/ Promise!Fail]_(Promise!absVars)
<1>1. SUFFICES ASSUME IInv, IInv', [Next]_vars
               PROVE  [Promise!Return \/ Promise!Fail]_(Promise!absVars)
  OBVIOUS
<1>2. CASE pc' \in {"populate", "scan"} /\ UNCHANGED args
           /\ pc \in {"populate", "scan"}
  BY <1>2 DEF Promise!absVars, args
<1>3. CASE AssertionError
  <2>1. pc \in {"populate", "scan"} /\ pc' = "error" /\ UNCHANGED args
    BY <1>3 DEF AssertionError
  <2>2. Promise!Asserts
    <3>1. fdep_checklist \subseteq Populated(odeps, fdep_checklist)
      BY DEF Populated
    <3>2. pc = "scan" => todo \subseteq Populated(odeps, fdep_checklist)
      BY <1>1 DEF IInv, WorkInv
    <3>3. QED
      BY <1>3, <3>1, <3>2, SameRules DEF AssertionError, Promise!Asserts, Promise!Visits
  <2>3. Promise!Fail
    BY <2>1, <2>2 DEF Promise!Fail, args
  <2>4. QED
    BY <2>3
<1>4. CASE EndPass /\ pc' = "done"
  <2>1. /\ pc = "scan" /\ todo = {} /\ UNCHANGED <<args, patch_sym_ex>>
        /\ fdep_checklist_ex = Populated(odeps, fdep_checklist)
    BY <1>1, <1>4 DEF EndPass, IInv, WorkInv
  <2>2. ~Promise!Asserts
    BY <1>1, <2>1, SameRules DEF IInv, NoAssertInv, Promise!Asserts, Promise!Visits
  <2>3. IsLeastPatch(odeps, Promise!Visits, patch_sym, patch_sym_ex')
    <3>1. fdep_checklist_ex' = fdep_checklist_ex
      BY <1>4 DEF EndPass
    <3>2. QED
      BY <1>1, <1>4, <2>1, <3>1, SameRules
      DEF IInv, BelowInv, DoneInv, IsLeastPatch, Promise!Visits, args
  <2>4. Promise!Return
    BY <1>4, <2>1, <2>2, <2>3, SameRules DEF Promise!Return, args
  <2>5. QED
    BY <2>4
<1>5. CASE Populate
  BY <1>2, <1>5 DEF Populate
<1>6. ASSUME NEW i \in todo, VisitLeaf(i) \/ VisitRelated(i)
      PROVE  [Promise!Return \/ Promise!Fail]_(Promise!absVars)
  BY <1>2, <1>6 DEF VisitLeaf, VisitRelated
<1>7. ASSUME NEW r \in fdeps, CheckRel(r)
      PROVE  [Promise!Return \/ Promise!Fail]_(Promise!absVars)
  BY <1>2, <1>7 DEF CheckRel
<1>8. CASE EndPass
  BY <1>2, <1>4, <1>8 DEF EndPass
<1>9. CASE UNCHANGED vars
  BY <1>9 DEF vars, args, Promise!absVars
<1>10. QED
  BY <1>1, <1>3, <1>5, <1>6, <1>7, <1>8, <1>9 DEF Next

\* For every kernel: check_fdep fails exactly when a pair it has to visit
\* trips the assertion of related(), and returns the least patch set
\* otherwise; the scan in between is invisible to its caller.
THEOREM Refinement == Spec => ImplementsLeastPatch
<1>1. Spec => Promise!LeastSpec
  BY InitRefines, StepRefines, Invariance, PTL DEF Spec, Promise!LeastSpec
<1>2. QED
  BY <1>1 DEF ImplementsLeastPatch

=============================================================================
