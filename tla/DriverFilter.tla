---------------------------- MODULE DriverFilter ----------------------------
(***************************************************************************)
(* check_drivers and remove_module (kernel_patch/hwfilter.py): from the    *)
(* hardware database, the profile of the target machine and the disk image *)
(* decide which loadable modules to delete and which built-in drivers to   *)
(* disable, and prepare the call of check_fdep.                            *)
(*                                                                         *)
(* A name is a pair <<base, ext>>: <<b, "ko">> stands for "b.ko",          *)
(* <<b, "zst">> for "b.ko.zst", <<b, "">> for the bare "b".  An initcall   *)
(* symbol of System.map is a record: style "kmod" for                      *)
(* __initcall__kmod_<mod>__<n>_<n>_<fn><level>, style "old" for            *)
(* __initcall_<fn><level>.                                                 *)
(***************************************************************************)
EXTENDS PatchRules, Sequences

CONSTANTS
  Base,        \* base names of drivers
  Dev, Sig,    \* modalias strings of devices, signatures of the database
  SigMatch,    \* the pairs <<device, signature>> where the pattern matches
  Prefixes,    \* the pairs <<p, s>> of symbols where p is a proper prefix of s
  LevelLike,   \* symbols whose own name ends like an initcall level ("con")
  EndsWith,    \* the pairs <<object, base>> where the path ends in base.o
  Tails,       \* the pairs <<t, b>> of base names where t is a proper end of b
  Images       \* the inputs considered

ASSUME RelationsAssumption ==
  /\ SigMatch \subseteq Dev \X Sig
  /\ Prefixes \subseteq Sym \X Sym
  /\ LevelLike \subseteq Sym
  /\ EndsWith \subseteq Obj \X Base
  /\ Tails \subseteq Base \X Base

Ext   == {"", "ko", "zst", "xz", "gz"}
Name  == Base \X Ext
Bare(b) == <<b, "">>
BareName == {Bare(b) : b \in Base}

\* The entries of System.map the scan tells apart: the two markers, the
\* initcalls and all the others (mod and fn mean nothing but for initcalls).
Entry == [style : {"start", "end", "kmod", "old", "other"}, mod : Base, fn : Sym]

Image ==
  [hwdb   : Seq([entry : Sym, mod : Base, sig : Sig]),  \* hw.db
   garbled : BOOLEAN,          \* some line of it has not four fields
   hwconf : SUBSET Dev,                                 \* the profile
   files  : SUBSET Name,                                \* lib/modules
   deps   : SUBSET (Name \X Name),                      \* modules.dep
   noinit : SUBSET Name,                                \* no init_module
   undef  : [Name -> SUBSET Sym],                       \* nm, type U
   symtab : Seq(Entry),                                 \* System.map
   odeps  : Tables]

ASSUME ImagesAssumption == Images \subseteq Image

VARIABLES
  stage,                 \* what check_drivers does next
  img,                   \* the input
  files,                 \* the module files now on the image
  driver_map, modlist,   \* load_db
  mod_keeps, mod_remove, \* disk modules to keep, to delete
  pos, start_flag,       \* the loop over symtab
  last_mod, last_m,      \* the loop variables mod and m, which are read after
                         \* their loops: {} (unbound) or {the last value}
  builtin_mod_exists, builtin_mod_remove, patch_list, skip_list,
  new_patch_list, new_new_mod_remove, dep_remove,
  patch_sym, fdep_checklist,
  todo                   \* the pairs of new_patch_list still to look up

dbVars   == <<driver_map, modlist>>
modVars  == <<mod_keeps, mod_remove>>
scanVars == <<pos, start_flag, last_mod, builtin_mod_exists, builtin_mod_remove,
              patch_list, skip_list>>
depVars  == <<new_patch_list, new_new_mod_remove, dep_remove, last_m>>
fdepVars == <<patch_sym, fdep_checklist, todo>>
vars == <<stage, img, files, dbVars, modVars, scanVars, depVars, fdepVars>>

-----------------------------------------------------------------------------
\* Names.

\* Only the compression suffixes .zst and .xz are taken off, never .ko.
norm_mod(n) == IF n[2] \in {"zst", "xz"} THEN <<n[1], "ko">> ELSE n

\* os.path.basename(n).split('.')[0]
Stem(n) == Bare(n[1])

\* builddep.get_deps also takes .ko off.
DepName(n) == IF norm_mod(n)[2] = "ko" THEN Stem(n) ELSE n

\* Mutant of rev_dep: the two columns of modules.dep are swapped.
rev_dep_swapped(m) == {DepName(p[2]) : p \in {q \in img.deps : DepName(q[1]) = m}}

\* The modules that need m, and those m needs, by modules.dep.
rev_dep(m) == {DepName(p[1]) : p \in {q \in img.deps : DepName(q[2]) = m}}
mod_dep(m) == {DepName(p[2]) : p \in {q \in img.deps : DepName(q[1]) = m}}

\* get_target_info: the names of the modules on the image.
alldiskmods == {norm_mod(n) : n \in {x \in files : norm_mod(x)[2] = "ko"}}

\* checkmodsym.get_noentry: the module files without init_module.
noentry == {n \in img.noinit \cap files : norm_mod(n)[2] = "ko"}

\* Does initcall s belong to module m with init function F?  F is a set of at
\* most one symbol: check_drivers passes "" for a module it has no entry of.
match_initcall_sig(m, F, s) ==
  \/ /\ s.style = "kmod"
     /\ Bare(s.mod) = m
     /\ F = {} \/ \E f \in F : f = s.fn \/ <<f, s.fn>> \in Prefixes
  \/ /\ s.style = "old"
     /\ s.fn \in F \ LevelLike

\* The function behind an initcall symbol.  A name that itself ends in a
\* level word is cut short and then belongs to no object.
initcall_sym2init(s) == {s.fn} \ LevelLike

-----------------------------------------------------------------------------

TypeOK ==
  /\ stage \in {"load", "failed", "modules", "scan", "deps", "collect", "call", "done"}
  /\ img \in Images /\ files \in SUBSET Name
  /\ DOMAIN driver_map \subseteq BareName
  /\ \A m \in DOMAIN driver_map : driver_map[m] \in Sym
  /\ modlist \in SUBSET BareName
  /\ mod_keeps \in SUBSET Name /\ mod_remove \in SUBSET Name
  /\ pos \in 1..(Len(img.symtab) + 1) /\ start_flag \in BOOLEAN
  /\ last_mod \in SUBSET Name /\ last_m \in SUBSET Name
  /\ builtin_mod_exists \in SUBSET BareName
  /\ builtin_mod_remove \in SUBSET BareName
  /\ patch_list \in SUBSET (BareName \X Entry)
  /\ skip_list \in SUBSET Entry
  /\ new_patch_list \in SUBSET (Name \X Entry) /\ todo \subseteq new_patch_list
  /\ new_new_mod_remove \in SUBSET Name /\ dep_remove \in SUBSET Name
  /\ patch_sym \in SUBSET Item /\ fdep_checklist \in SUBSET Item

Init ==
  /\ stage = "load"
  /\ img \in Images
  /\ files = img.files
  /\ driver_map = <<>> /\ modlist = {}
  /\ mod_keeps = {} /\ mod_remove = {}
  /\ pos = 1 /\ start_flag = FALSE /\ last_mod = {} /\ last_m = {}
  /\ builtin_mod_exists = {} /\ builtin_mod_remove = {}
  /\ patch_list = {} /\ skip_list = {}
  /\ new_patch_list = {} /\ new_new_mod_remove = {} /\ dep_remove = {}
  /\ patch_sym = {} /\ fdep_checklist = {} /\ todo = {}

\* The lines of hw.db for a signature and for a module; the last one counts,
\* because both dictionaries are overwritten line by line.
SigLines(sig) == {i \in DOMAIN img.hwdb : img.hwdb[i].sig = sig}
ModLines(m)   == {i \in DOMAIN img.hwdb : Bare(img.hwdb[i].mod) = m}
LastLine(I)   == img.hwdb[CHOOSE i \in I : \A j \in I : j <= i]

\* Mutant of devdb: the module is named as on disk.
devdb_ko(sig) == <<LastLine(SigLines(sig)).mod, "ko">>

\* devdb[sig]
devdb(sig) == Bare(LastLine(SigLines(sig)).mod)

\* A line that has not four fields raises, and an empty file has one such line.
Unreadable ==
  /\ stage = "load" /\ (img.garbled \/ img.hwdb = <<>>)
  /\ stage' = "failed"
  /\ UNCHANGED <<img, files, dbVars, modVars, scanVars, depVars, fdepVars>>

load_db ==
  /\ stage = "load" /\ ~img.garbled /\ img.hwdb # <<>>
  /\ driver_map' =
       [m \in {Bare(img.hwdb[i].mod) : i \in DOMAIN img.hwdb} |->
          LastLine(ModLines(m)).entry]
  /\ modlist' =
       {devdb(img.hwdb[i].sig) :
          i \in {j \in DOMAIN img.hwdb :
                   \E key \in img.hwconf : <<key, img.hwdb[j].sig>> \in SigMatch}}
  /\ stage' = "modules"
  /\ UNCHANGED <<img, files, modVars, scanVars, depVars, fdepVars>>

\* The modules on the image.  The loop variable mod is left at one of them.
FilterModules ==
  /\ stage = "modules"
  /\ mod_remove' = (alldiskmods \cap DOMAIN driver_map) \ modlist
  /\ LET keep == alldiskmods \cap modlist
     IN  mod_keeps' = keep \cup ((UNION {mod_dep(m) : m \in keep}) \cap alldiskmods)
  /\ IF alldiskmods = {} THEN UNCHANGED last_mod ELSE \E m \in alldiskmods : last_mod' = {m}
  /\ stage' = "scan"
  /\ UNCHANGED <<img, files, dbVars, pos, start_flag, builtin_mod_exists,
                 builtin_mod_remove, patch_list, skip_list, depVars, fdepVars>>

\* The position of a module in driver_map: that of its first line in hw.db.
Rank(m) == CHOOSE i \in DOMAIN img.hwdb :
             /\ Bare(img.hwdb[i].mod) = m
             /\ \A j \in 1..(i - 1) : Bare(img.hwdb[j].mod) # m

\* The modules the inner loop visits for initcall s: up to the first that
\* matches and is not wanted, which ends the loop.
Unwanted(s) == {m \in (DOMAIN driver_map) \ modlist :
                  match_initcall_sig(m, {driver_map[m]}, s)}

\* Mutant of Visited: the loop ends before the match, not after it.
VisitedBefore(s) == {m \in DOMAIN driver_map :
                       \A u \in Unwanted(s) : Rank(m) < Rank(u)}

Visited(s) == {m \in DOMAIN driver_map :
                 \A u \in Unwanted(s) : Rank(m) <= Rank(u)}

\* One entry of System.map.
ScanSymbol ==
  /\ stage = "scan" /\ pos <= Len(img.symtab)
  /\ img.symtab[pos].style # "end"
  /\ pos' = pos + 1
  /\ LET s == img.symtab[pos]
     IN  \/ /\ s.style = "start"
            /\ start_flag' = TRUE
            /\ UNCHANGED <<last_mod, builtin_mod_exists, builtin_mod_remove,
                           patch_list, skip_list>>
         \/ /\ s.style # "start" /\ ~start_flag
            /\ UNCHANGED <<start_flag, last_mod, builtin_mod_exists,
                           builtin_mod_remove, patch_list, skip_list>>
         \/ /\ s.style # "start" /\ start_flag
            /\ UNCHANGED start_flag
            /\ builtin_mod_exists' = builtin_mod_exists \cup
                 {m \in Visited(s) : match_initcall_sig(m, {driver_map[m]}, s)}
            /\ last_mod' = IF driver_map = <<>> THEN last_mod
                      ELSE {m \in Visited(s) : \A n \in Visited(s) : Rank(n) <= Rank(m)}
            /\ IF Unwanted(s) = {}
               THEN /\ skip_list' = IF s.style = "other" THEN skip_list
                                    ELSE skip_list \cup {s}
                    /\ UNCHANGED <<builtin_mod_remove, patch_list>>
               ELSE /\ patch_list' = patch_list \cup {<<m, s>> : m \in last_mod'}
                    /\ builtin_mod_remove' = builtin_mod_remove \cup last_mod'
                    /\ UNCHANGED skip_list
  /\ UNCHANGED <<stage, img, files, dbVars, modVars, depVars, fdepVars>>

EndScan ==
  /\ stage = "scan"
  /\ pos <= Len(img.symtab) => img.symtab[pos].style = "end"
  /\ stage' = "deps"
  /\ UNCHANGED <<img, files, dbVars, modVars, scanVars, depVars, fdepVars>>

-----------------------------------------------------------------------------
\* What depends on the removed drivers.

InitOf(m) == IF m \in DOMAIN driver_map THEN {driver_map[m]} ELSE {}

\* Mutant of BuiltinDeps: modules that hw.db does not name are left out.
BuiltinDepsKnown ==
  {d \in UNION {rev_dep(m) : m \in builtin_mod_remove} :
     d \in DOMAIN driver_map /\ \E s \in skip_list : match_initcall_sig(d, InitOf(d), s)}

\* The modules that need a removed built-in driver and have an initcall of
\* their own among those skipped so far.
BuiltinDeps ==
  {d \in UNION {rev_dep(m) : m \in builtin_mod_remove} :
     \E s \in skip_list : match_initcall_sig(d, InitOf(d), s)}

\* Of the initcalls of a dependent module only the first one met is patched;
\* it is filed under the stale loop variable mod, not under the dependent.
CheckDeps ==
  /\ stage = "deps"
  /\ \E pick \in [BuiltinDeps -> skip_list] :
       /\ \A d \in BuiltinDeps : match_initcall_sig(d, InitOf(d), pick[d])
       /\ new_patch_list' =
            patch_list \cup {<<m, pick[d]>> : m \in last_mod, d \in BuiltinDeps}
  /\ LET on_disk(S) == (UNION {rev_dep(m) : m \in S}) \cap alldiskmods
         removed == mod_remove \cup on_disk(mod_remove)
                      \cup on_disk(builtin_mod_remove \cup BuiltinDeps)
     IN  /\ new_new_mod_remove' = removed
         /\ dep_remove' =
              {n \in noentry :
                 /\ Stem(n) \in alldiskmods
                 /\ LET users == {p[1] : p \in {q \in img.deps : q[2] = n}}
                    IN  /\ users # {}
                        /\ {Stem(u) : u \in users} \cap alldiskmods \subseteq removed}
  /\ IF noentry = {} THEN UNCHANGED last_m
     ELSE \E n \in noentry : last_m' = {n}
  /\ todo' = new_patch_list'
  /\ stage' = "collect"
  /\ UNCHANGED <<img, files, dbVars, modVars, scanVars, patch_sym, fdep_checklist>>

\* The objects that define the init function of a patched initcall: among
\* several, those whose path ends in the module's name.  The code also reads
\* the stale m, the last module file without an entry point: when its path ends
\* in the module's name and .ko, any of them passes.
Owners(modname, o_set) ==
  IF Cardinality(o_set) = 1 THEN o_set
  ELSE {o \in o_set : \/ modname[2] = "" /\ <<o, modname[1]>> \in EndsWith
                      \/ \E n \in last_m :
                           /\ n[2] = "ko" /\ modname[2] = ""
                           /\ n[1] = modname[1] \/ <<modname[1], n[1]>> \in Tails}

CollectInit(p) ==
  /\ stage = "collect" /\ p \in todo
  /\ LET owners(f) == Owners(p[1], get_mods(img.odeps, f))
         found == {f \in initcall_sym2init(p[2]) : owners(f) # {}}
     IN  IF found = {} THEN UNCHANGED patch_sym
         ELSE \E f \in found : \E o \in owners(f) :
                patch_sym' = patch_sym \cup {<<o, f>>}
  /\ todo' = todo \ {p}
  /\ UNCHANGED <<stage, img, files, dbVars, modVars, scanVars, depVars,
                 fdep_checklist>>

\* The sets check_drivers returns, as patch_image hands them on.
rmmods == new_new_mod_remove \cup {Stem(n) : n \in dep_remove}

\* The symbols the removed modules import from other drivers.  No bus
\* registration API is added: load_busreg_apis returns the empty set.
CollectImports ==
  /\ stage = "collect" /\ todo = {}
  /\ LET gone == dep_remove \cup {n \in files : norm_mod(n) \in rmmods}
         syms == UNION {img.undef[n] : n \in gone}
     IN  fdep_checklist' =
           patch_sym \cup {e \in img.odeps.exports :
                             /\ e[2] \in syms
                             /\ e[1] \in get_global_mods(img.odeps, e[2])
                             /\ is_driver(img.odeps, e[1])}
  /\ stage' = "call"
  /\ UNCHANGED <<img, files, dbVars, modVars, scanVars, depVars, patch_sym, todo>>

remove_module ==
  /\ stage = "call"
  /\ files' = {n \in files : Stem(n) \notin rmmods}
  /\ stage' = "done"
  /\ UNCHANGED <<img, dbVars, modVars, scanVars, depVars, fdepVars>>

Next ==
  \/ load_db \/ Unreadable
  \/ FilterModules
  \/ ScanSymbol
  \/ EndScan
  \/ CheckDeps
  \/ \E p \in todo : CollectInit(p)
  \/ CollectImports
  \/ remove_module

Spec == Init /\ [][Next]_vars

-----------------------------------------------------------------------------
\* Properties.

\* The initcalls the scan sees: those between the two markers.
Initcalls ==
  {img.symtab[i] : i \in {j \in DOMAIN img.symtab :
     /\ img.symtab[j].style \in {"kmod", "old"}
     /\ \E b \in 1..(j - 1) : img.symtab[b].style = "start"
     /\ ~\E e \in 1..(j - 1) : img.symtab[e].style = "end"}}

\* The scan misses no driver: an initcall that the database attributes to a
\* driver without a device is disabled, wherever it stands in System.map and
\* whatever other drivers it matches as well (hwfilter.py:337-360).
UnwantedInitcallsPatched ==
  stage \notin {"load", "failed", "modules", "scan"} =>
    \A s \in Initcalls : Unwanted(s) # {} => s \in {p[2] : p \in patch_list}

\* Initcall s belongs to a driver without a device, or to a module that needs a
\* removed driver.
MayGo(s) ==
  \/ Unwanted(s) # {}
  \/ /\ s.style = "kmod"
     /\ mod_dep(Bare(s.mod)) \cap builtin_mod_remove # {}
  \/ \E d \in DOMAIN driver_map : /\ driver_map[d] = s.fn
                                 /\ mod_dep(d) \cap builtin_mod_remove # {}

\* An initcall all of whose drivers have a device, and that belongs to no
\* module that needs a removed driver, is not disabled, and a function is
\* collected only if it is the init function of an initcall of System.map
\* that may go (hwfilter.py:337-392, 423-436).
WantedInitcallsSurvive ==
  /\ \A p \in new_patch_list : MayGo(p[2])
  /\ \A i \in patch_sym : \E s \in Initcalls : s.fn = i[2] /\ MayGo(s)

\* Nothing starts on top of a removed driver: a built-in module that needs one,
\* and has initcalls, loses at least one of them, and its function is disabled
\* although it is filed under another module's name, as long as one object
\* defines it (hwfilter.py:376-391, 423-430).
DependentsDisabled ==
  stage \in {"call", "done"} =>
    \A m \in builtin_mod_remove : \A d \in rev_dep(m) :
      LET own == {s \in Initcalls : match_initcall_sig(d, InitOf(d), s)}
      IN  own # {} =>
            \E s \in own :
              /\ \E p \in new_patch_list : p[2] = s
              /\ \A f \in initcall_sym2init(s) :
                   Cardinality(get_mods(img.odeps, f)) = 1
                     => \E o \in get_mods(img.odeps, f) : <<o, f>> \in patch_sym

\* check_drivers calls check_fdep with what CheckFdep assumes of its
\* arguments, whatever the stale loop variables held (hwfilter.py:421-484).
CheckFdepContract ==
  stage \in {"call", "done"} =>
    IsInput([odeps |-> img.odeps, patch_sym |-> patch_sym,
             fdep_checklist |-> fdep_checklist])

\* What "Run Driver Removal Pass" (patch-disk-image.py:20) and "Remove Drivers
\* in RootFS" (hwfilter.py:755) promise: no module file of a driver the
\* database knows and no device of the profile needs is left on the image.
\* The code does not keep it: the names in alldiskmods end in ".ko".
UnwantedModulesDeleted ==
  stage = "done" =>
    \A n \in files : Stem(n) \in DOMAIN driver_map => Stem(n) \in modlist

=============================================================================
