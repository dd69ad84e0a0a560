---------------------------- MODULE ObjDepsLoad ----------------------------
(***************************************************************************)
(* ObjDeps.__init__ (dependency/gen_objdep.py): the dependency tables are  *)
(* built from the analysis files the compiler passes left in the build     *)
(* tree, one file after the other in the order os.walk happens to deliver  *)
(* them, then completed by three passes over what was loaded.              *)
(*                                                                         *)
(* A dictionary of sets is a set of tuples: fdep_map[mod][sym] = {call}    *)
(* is <<mod, sym, call>>, frevdep_map[call] = {(sym, mod)} is              *)
(* <<call, sym, mod>>.  A key without values does not occur in them.       *)
(***************************************************************************)
EXTENDS Naturals, FiniteSets

CONSTANTS
  Obj, Ko, Sym,   \* objects, loadable modules, symbols (functions and data)
  ModuleSyms,     \* is_module_symbol: module plumbing and LLVM intrinsics
  ThirdParty,     \* objects without a Makefile below the source root
  Builds          \* the build trees considered: sets of analysis files

ASSUME LoadAssumption ==
  /\ ModuleSyms \subseteq Sym
  /\ ThirdParty \subseteq Obj

\* An analysis file of object obj.  A row of a .symtab file is
\* <<nm type, symbol>>, of the other tables <<left, right>> of "left : right";
\* of a .mod file, <<object, object>> for an object it links into obj's .ko.
File == [kind : {"symtab"}, obj : Obj, rows : SUBSET ({"U", "T", "t"} \X Sym)]
   \cup [kind : {"imptab", "impnoin", "symlnk", "symcbs", "fptref"}, obj : Obj,
         rows : SUBSET (Sym \X Sym)]
   \cup [kind : {"mod"}, obj : Ko, rows : SUBSET (Obj \X Obj)]
   \cup [kind : {"nonbc"}, obj : Obj, rows : {{}}]

\* Two files may be of one kind and one object: normalize_object_name gives
\* a-b.o and a_b.o the same name.
ASSUME BuildsAssumption == \A bd \in Builds : bd \subseteq File

VARIABLES
  pc,                      \* "walk", "link", "inlined", "merge", "done"
  build,                   \* the files of the build tree
  todo,                    \* those os.walk has not delivered yet
  import_table, export_table, global_export_table, mod_map,
  fdep_map, frevdep_map,   \* who calls what, what is called by whom
  frevdep_map_noinline,    \* the same within an object, before inlining
  gdat_lnks, gdat_cbs,     \* functions using global data, callbacks in it
  fpref_map, fpref_revmap, \* who stores whose address
  drv_map, non_bc_mods, inlined

symVars  == <<import_table, export_table, global_export_table, mod_map>>
callVars == <<fdep_map, frevdep_map>>
gdatVars == <<gdat_lnks, gdat_cbs>>
refVars  == <<fpref_map, fpref_revmap>>
vars == <<pc, build, todo, symVars, callVars, frevdep_map_noinline, gdatVars,
          refVars, drv_map, non_bc_mods, inlined>>

TypeOK ==
  /\ pc \in {"walk", "link", "inlined", "merge", "done"}
  /\ build \subseteq File /\ todo \subseteq build
  /\ import_table \subseteq Obj \X Sym
  /\ export_table \subseteq Obj \X Sym
  /\ global_export_table \subseteq export_table
  /\ mod_map \subseteq Sym \X Obj
  /\ fdep_map \subseteq Obj \X Sym \X Sym
  /\ frevdep_map \subseteq Sym \X Sym \X Obj
  /\ frevdep_map_noinline \subseteq Obj \X Sym \X Sym
  /\ gdat_lnks \subseteq Obj \X Sym \X Sym
  /\ gdat_cbs \subseteq Sym \X Sym
  /\ fpref_map \subseteq Obj \X Sym \X Sym
  /\ fpref_revmap \subseteq Obj \X Sym \X Sym
  /\ drv_map \subseteq Obj \X Ko
  /\ non_bc_mods \subseteq Obj
  /\ inlined \subseteq Obj \X Sym

-----------------------------------------------------------------------------

Init ==
  /\ pc = "walk"
  /\ build \in Builds /\ todo = build
  /\ import_table = {} /\ export_table = {} /\ global_export_table = {}
  /\ mod_map = {} /\ fdep_map = {} /\ frevdep_map = {}
  /\ frevdep_map_noinline = {} /\ gdat_lnks = {} /\ gdat_cbs = {}
  /\ fpref_map = {} /\ fpref_revmap = {} /\ drv_map = {}
  /\ non_bc_mods = {} /\ inlined = {}

\* The rows that are not about module plumbing.
OwnRows(x) == {r \in x.rows : r[1] \notin ModuleSyms /\ r[2] \notin ModuleSyms}

Take(x, kind) ==
  /\ pc = "walk" /\ x \in todo /\ x.kind = kind
  /\ todo' = todo \ {x}
  /\ UNCHANGED <<pc, build, inlined>>

LoadSymtab(x) ==
  /\ Take(x, "symtab")
  /\ LET def == {r \in x.rows : r[1] # "U"}
     IN  /\ import_table' = import_table \cup {<<x.obj, r[2]>> : r \in x.rows \ def}
         /\ export_table' = export_table \cup {<<x.obj, r[2]>> : r \in def}
         /\ global_export_table' = global_export_table \cup
              {<<x.obj, r[2]>> : r \in {d \in def : d[1] = "T"}}
         /\ mod_map' = mod_map \cup {<<r[2], x.obj>> : r \in def}
  /\ UNCHANGED <<callVars, frevdep_map_noinline, gdatVars, refVars, drv_map,
                 non_bc_mods>>

LoadImptab(x) ==
  /\ Take(x, "imptab")
  /\ fdep_map' = fdep_map \cup {<<x.obj, r[1], r[2]>> : r \in OwnRows(x)}
  /\ frevdep_map' = frevdep_map \cup {<<r[2], r[1], x.obj>> : r \in OwnRows(x)}
  /\ UNCHANGED <<symVars, frevdep_map_noinline, gdatVars, refVars, drv_map,
                 non_bc_mods>>

\* Only calls between two functions that call something are kept.
LoadImpnoin(x) ==
  /\ Take(x, "impnoin")
  /\ LET localsyms == {r[1] : r \in OwnRows(x)}
     IN  frevdep_map_noinline' = frevdep_map_noinline \cup
           {<<x.obj, r[2], r[1]>> :
              r \in {q \in OwnRows(x) : q[1] # q[2] /\ q[2] \in localsyms}}
  /\ UNCHANGED <<symVars, callVars, gdatVars, refVars, drv_map, non_bc_mods>>

LoadSymlnk(x) ==
  /\ Take(x, "symlnk")
  /\ gdat_lnks' = gdat_lnks \cup {<<x.obj, r[1], r[2]>> : r \in OwnRows(x)}
  /\ UNCHANGED <<symVars, callVars, frevdep_map_noinline, gdat_cbs, refVars,
                 drv_map, non_bc_mods>>

\* The data is found by its name, whichever object defines it.
LoadSymcbs(x) ==
  /\ Take(x, "symcbs")
  /\ gdat_cbs' = gdat_cbs \cup OwnRows(x)
  /\ UNCHANGED <<symVars, callVars, frevdep_map_noinline, gdat_lnks, refVars,
                 drv_map, non_bc_mods>>

LoadFptref(x) ==
  /\ Take(x, "fptref")
  /\ fpref_map' = fpref_map \cup {<<x.obj, r[1], r[2]>> : r \in OwnRows(x)}
  /\ fpref_revmap' = fpref_revmap \cup {<<x.obj, r[2], r[1]>> : r \in OwnRows(x)}
  /\ UNCHANGED <<symVars, callVars, frevdep_map_noinline, gdatVars, drv_map,
                 non_bc_mods>>

\* Mutant of LoadMod: the object and the .ko change places.
LoadModSwapped(x) ==
  /\ Take(x, "mod")
  /\ drv_map' = drv_map \cup {<<x.obj, r[1]>> : r \in x.rows}
  /\ UNCHANGED <<symVars, callVars, frevdep_map_noinline, gdatVars, refVars,
                 non_bc_mods>>

LoadMod(x) ==
  /\ Take(x, "mod")
  /\ drv_map' = drv_map \cup {<<r[1], x.obj>> : r \in {q \in x.rows : q[1] \notin ThirdParty}}
  /\ UNCHANGED <<symVars, callVars, frevdep_map_noinline, gdatVars, refVars,
                 non_bc_mods>>

LoadNonbc(x) ==
  /\ Take(x, "nonbc")
  /\ non_bc_mods' = non_bc_mods \cup {x.obj}
  /\ UNCHANGED <<symVars, callVars, frevdep_map_noinline, gdatVars, refVars, drv_map>>

\* Mutant of EndWalk: the walk is left before all files are read.
EndWalkEarly ==
  /\ pc = "walk" /\ Cardinality(todo) <= 1
  /\ pc' = "link"
  /\ UNCHANGED <<build, todo, symVars, callVars, frevdep_map_noinline, gdatVars,
                 refVars, drv_map, non_bc_mods, inlined>>

EndWalk ==
  /\ pc = "walk" /\ todo = {}
  /\ pc' = "link"
  /\ UNCHANGED <<build, todo, symVars, callVars, frevdep_map_noinline, gdatVars,
                 refVars, drv_map, non_bc_mods, inlined>>

\* A function that uses global data calls the callbacks stored in it.
LinkThroughData ==
  /\ pc = "link" /\ pc' = "inlined"
  /\ LET used == {u \in gdat_lnks \X gdat_cbs : u[1][3] = u[2][1]}
     IN  /\ fdep_map' = fdep_map \cup {<<u[1][1], u[1][2], u[2][2]>> : u \in used}
         /\ frevdep_map' = frevdep_map \cup {<<u[2][2], u[1][2], u[1][1]>> : u \in used}
  /\ UNCHANGED <<build, todo, symVars, frevdep_map_noinline, gdatVars, refVars,
                 drv_map, non_bc_mods, inlined>>

\* Mutant of FindInlined: the branch for callees with other callers is missing.
FindInlinedEverywhere ==
  /\ pc = "inlined" /\ pc' = "merge"
  /\ inlined' = {<<t[1], t[2]>> :
                   t \in {n \in frevdep_map_noinline :
                            ~\E c \in frevdep_map : c[1] = n[2]}}
  /\ UNCHANGED <<build, todo, symVars, callVars, frevdep_map_noinline, gdatVars,
                 refVars, drv_map, non_bc_mods>>

\* The functions of an object some call of which the inliner removed.
FindInlined ==
  /\ pc = "inlined" /\ pc' = "merge"
  /\ inlined' = {<<t[1], t[2]>> :
                   t \in {n \in frevdep_map_noinline :
                            <<n[2], n[3], n[1]>> \notin frevdep_map}}
  /\ UNCHANGED <<build, todo, symVars, callVars, frevdep_map_noinline, gdatVars,
                 refVars, drv_map, non_bc_mods>>

\* Calls the inliner removed are put back, provided that the caller still
\* calls something and that somebody still calls the callee.
Restored ==
  {n \in frevdep_map_noinline :
     /\ \E t \in fdep_map : t[1] = n[1] /\ t[2] = n[3]
     /\ \E t \in frevdep_map : t[1] = n[2]}

\* Mutant of MergeNoinline: fdep_map is not brought up to date.
MergeOneWay ==
  /\ pc = "merge" /\ pc' = "done"
  /\ frevdep_map' = frevdep_map \cup {<<n[2], n[3], n[1]>> : n \in Restored}
  /\ UNCHANGED <<build, todo, symVars, fdep_map, frevdep_map_noinline, gdatVars,
                 refVars, drv_map, non_bc_mods, inlined>>

MergeNoinline ==
  /\ pc = "merge" /\ pc' = "done"
  /\ fdep_map' = fdep_map \cup {<<n[1], n[3], n[2]>> : n \in Restored}
  /\ frevdep_map' = frevdep_map \cup {<<n[2], n[3], n[1]>> : n \in Restored}
  /\ UNCHANGED <<build, todo, symVars, frevdep_map_noinline, gdatVars, refVars,
                 drv_map, non_bc_mods, inlined>>

LoadFile(x) ==
  \/ LoadSymtab(x) \/ LoadImptab(x) \/ LoadImpnoin(x) \/ LoadSymlnk(x)
  \/ LoadSymcbs(x) \/ LoadFptref(x) \/ LoadMod(x) \/ LoadNonbc(x)

Next ==
  \/ \E x \in todo : LoadFile(x)
  \/ EndWalk
  \/ LinkThroughData
  \/ FindInlined
  \/ MergeNoinline

Spec == Init /\ [][Next]_vars

-----------------------------------------------------------------------------
\* Properties.

\* The tables that are kept in two directions agree, in every state of the
\* load: a caller is found from its callee exactly when the callee is found
\* from its caller, and so for stored addresses and for definitions.  related,
\* has_referencer and get_mods read one direction, the passes that complete
\* the tables the other (gen_objdep.py:106-110, 121-124, 181-186, 218-221, 241-242).
Mirrored ==
  /\ \A o \in Obj, s, t \in Sym :
       /\ <<o, s, t>> \in fdep_map <=> <<t, s, o>> \in frevdep_map
       /\ <<o, s, t>> \in fpref_map <=> <<o, t, s>> \in fpref_revmap
  /\ \A o \in Obj, s \in Sym : <<o, s>> \in export_table <=> <<s, o>> \in mod_map

\* The rows of the files of one kind, with their object.
Rows(kind) == UNION {{<<x.obj, r[1], r[2]>> : r \in OwnRows(x)} :
                       x \in {y \in build : y.kind = kind}}

\* The calls .impnoin files show between two functions of their object: the
\* callee calls something in the same file.
LocalCalls ==
  UNION {{<<x.obj, r[1], r[2]>> :
            r \in {q \in OwnRows(x) : /\ q[1] # q[2]
                                     /\ \E c \in OwnRows(x) : c[1] = q[2]}} :
           x \in {y \in build : y.kind = "impnoin"}}

\* Whatever order os.walk delivers the files in, a call is recorded when it is
\* in an .imptab file or goes through data both a .symlnk and a .symcbs file
\* name, and else only when an .impnoin file shows it between two functions
\* that both still take part in recorded calls (gen_objdep.py:92-242).
WalkOrderIrrelevant ==
  pc = "done" =>
    LET data == {<<u[1][1], u[1][2], u[2][3]>> : u \in
                   {w \in Rows("symlnk") \X Rows("symcbs") : w[1][3] = w[2][2]}}
        seen == Rows("imptab") \cup data
        back == {n \in LocalCalls : /\ \E q \in seen : q[1] = n[1] /\ q[2] = n[2]
                                    /\ \E q \in seen : q[3] = n[3]}
    IN  fdep_map = seen \cup back

\* Putting calls back only adds callers to functions the inliner touched: a
\* call of a function that is not in inlined was there before the pass.
OnlyInlinedRestored ==
  [][pc = "merge" =>
       \A t \in frevdep_map' \ frevdep_map : <<t[3], t[1]>> \in inlined]_vars

=============================================================================
