----------------------------- MODULE PatchRules -----------------------------
(***************************************************************************)
(* The rules check_fdep (kernel_patch/hwfilter.py) applies: which pairs    *)
(* (module, symbol) it looks at, and when a pair may be patched.  All are  *)
(* functions of the dependency tables d.                                   *)
(***************************************************************************)
EXTENDS ObjDeps

\* What check_fdep may be called with.
IsInput(in) ==
  /\ in.odeps \in Tables
  /\ in.patch_sym \subseteq in.fdep_checklist
  /\ in.fdep_checklist \subseteq in.odeps.exports

-----------------------------------------------------------------------------
\* When a pair may enter patch_sym_ex, given the set p of pairs in it so far.

\* A pair about which related() knows nothing.
LeafPatchable(d, i, p) ==
  /\ is_ir_mod(d, i[1])
  /\ ~has_referencer(d, i[1], i[2], p)

\* Mutant of RelPatchable: stored addresses are not looked at.
RelPatchableNoRef(d, r, p) ==
  /\ is_ir_mod(d, r[1])
  /\ \A c \in Callers(d, r[2]) : is_ir_mod(d, c[1]) /\ c \in p

\* A pair with callers: every caller has bitcode and is patched already.
RelPatchable(d, r, p) ==
  /\ is_ir_mod(d, r[1])
  /\ \A c \in Callers(d, r[2]) : is_ir_mod(d, c[1]) /\ c \in p
  /\ ~has_referencer(d, r[1], r[2], p)

\* The pairs the import table of object o leads to.
ImportItems(d, o) == {e \in d.exports : <<o, e[2]>> \in d.imports}

\* Populating the graph.  The callers of a related pair are added only when
\* its module has an entry in the import table: the code's "continue" for a
\* module without imports (every .ko is one) skips them.  The test "(o,f) in
\* fdeps" is never true: the keys of fdeps are (symbol, module).
NewItems(d, i) ==
  ImportItems(d, i[1])
    \cup related(d, i)
    \cup UNION {ImportItems(d, r[1]) \cup Callers(d, r[2]) :
                  r \in {x \in related(d, i) : imports(d, x[1]) # {}}}

Populated(d, list) == list \cup UNION {NewItems(d, i) : i \in list}

-----------------------------------------------------------------------------
\* What the rules define, whatever the order they are applied in.

\* p has everything the rules derive from it for the pairs of list.
ClosedUnder(d, list, p) ==
  /\ \A i \in list :
       related(d, i) = {} /\ LeafPatchable(d, i, p) => i \in p
  /\ \A i \in list : \A r \in related(d, i) :
       RelPatchable(d, r, p) => r \in p

\* p is the smallest set that holds the given functions and is closed.
IsLeastPatch(d, list, base, p) ==
  /\ base \subseteq p
  /\ ClosedUnder(d, list, p)
  /\ \A q \in SUBSET Item :
       base \subseteq q /\ ClosedUnder(d, list, q) => p \subseteq q

=============================================================================
