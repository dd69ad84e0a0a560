------------------------------ MODULE ObjDeps ------------------------------
(***************************************************************************)
(* The object-dependency tables of dependency/gen_objdep.py and the        *)
(* queries class ObjDeps answers from them.                                *)
(*                                                                         *)
(* The tables are one record d, so that a caller can hold them in a        *)
(* variable and model checking can range over many kernels:                *)
(*   exports  export_table / mod_map: <<object, symbol it defines>>        *)
(*   globals  global_export_table: the exports whose nm type is T          *)
(*   imports  import_table: <<object, symbol it leaves undefined>>         *)
(*   callers  frevdep_map: <<callee, caller, object of the caller>>        *)
(*   fpref    fpref_revmap: <<object, function, who stores its address>>   *)
(*   drv      drv_map: the .ko files an object is linked into              *)
(*   nonbc    non_bc_mods: the objects that have no bitcode                *)
(*   linked   obj_build_revdeps: the objects built with an object          *)
(***************************************************************************)
EXTENDS Naturals, FiniteSets

CONSTANTS
  Obj,   \* object files (names ending in .o)
  Ko,    \* loadable modules (names ending in .ko)
  Sym    \* function symbols

ASSUME NamesAssumption ==
  /\ Obj \cap Ko = {}
  /\ IsFiniteSet(Obj \cup Ko)
  /\ IsFiniteSet(Sym)

Mod  == Obj \cup Ko
Item == Mod \X Sym     \* the (module, symbol) pairs of the patch sets

Tables ==
  [exports : SUBSET (Obj \X Sym),
   globals : SUBSET (Obj \X Sym),
   imports : SUBSET (Obj \X Sym),
   callers : SUBSET (Sym \X Sym \X Obj),
   fpref   : SUBSET (Obj \X Sym \X Sym),
   drv     : [Obj -> SUBSET Ko],
   nonbc   : SUBSET Obj,
   linked  : [Obj -> SUBSET Obj]]

-----------------------------------------------------------------------------

\* The name an object is known by in the results of related(): the first .ko
\* it is linked into, or its own.  list(s)[0] is some fixed element of s.
ModOf(d, o) == IF d.drv[o] = {} THEN o ELSE CHOOSE k \in d.drv[o] : TRUE

is_driver(d, o) == d.drv[o] # {}

is_ir_mod(d, m) == m \notin d.nonbc

\* The symbols object o imports; the code's None is the empty set here.
imports(d, o) == {s \in Sym : <<o, s>> \in d.imports}

\* Mutant of get_mods: an undefined symbol counts as defined.
get_mods_any(d, s) == {o \in Obj : <<o, s>> \in d.exports \cup d.imports}

get_mods(d, s) == {o \in Obj : <<o, s>> \in d.exports}

get_global_mods(d, s) == {o \in get_mods(d, s) : <<o, s>> \in d.globals}

\* The objects whose exports related() looks at.
TestMods(d, o) == d.linked[o] \cup {o}

\* Mutant of Callers: the two halves of a caller are swapped.
CallersSwapped(d, s) ==
  {<<t[2], ModOf(d, t[3])>> : t \in {u \in d.callers : u[1] = s}}

\* The known callers of symbol s, each under the name ModOf gives its object.
\* Callers are found by the symbol's name alone.
Callers(d, s) ==
  {<<ModOf(d, t[3]), t[2]>> : t \in {u \in d.callers : u[1] = s}}

\* The keys of the dictionary related() returns, as (module, symbol) pairs.
\* A symbol without callers never becomes a key.  None (the object does not
\* define the symbol) and the empty dictionary are both the empty set: every
\* use in check_fdep treats them alike.
related(d, i) ==
  IF i \in d.exports
  THEN {<<ModOf(d, e[1]), e[2]>> :
          e \in {x \in d.exports : x[1] \in TestMods(d, i[1])
                                   /\ Callers(d, x[2]) # {}}}
  ELSE {}

\* related() asserts that an object it reports on is linked into one .ko.
RelatedAsserts(d, i) ==
  /\ i \in d.exports
  /\ \E e \in d.exports : /\ e[1] \in TestMods(d, i[1])
                          /\ \E k, l \in d.drv[e[1]] : k # l

\* Some function of the same object that is not patched stores s's address.
has_referencer(d, m, s, patched) ==
  \E t \in d.fpref : t[1] = m /\ t[2] = s /\ <<m, t[3]>> \notin patched

=============================================================================
