# A TLA+ verification of Hacksaw

Hacksaw removes from a Linux system image the drivers that a given machine
cannot need: it deletes loadable modules, and in the kernel it overwrites the
init functions of built-in drivers and everything that only they reach.  This
directory holds TLA+ modules of the parts of Hacksaw that decide and that can
go wrong, TLC configurations that check them on small instances, and proofs
checked by TLAPS for all instances.  `PROJECT.json` lists the components, the
runs, the source lines each definition stands for, the hazards and the theorems.

    tlc -workers 2 -config MCCheckFdep.cfg MCCheckFdep     a run
    tlapm CheckFdepProofs.tla                              a proof

## 1. Inventory

| Component | State it keeps | Operations | Hard behaviour |
|---|---|---|---|
| Function dependency closure (`kernel_patch/hwfilter.py`: `check_fdep`; queries of `ObjDeps`) | `patch_sym_ex`, which grows; the check list; the size at the start of a pass | populate, visit a pair, check a related pair, end of a pass | a set is scanned in arbitrary order while it decides about itself; `while True`; an assertion in a query |
| Driver selection (`hwfilter.py`: `check_drivers`, `remove_module`; `builddep.py`; `checkmodsym.py`) | tables from hw.db, the modules to keep and remove, the initcalls to patch, the arguments of `check_fdep` | load the database, sort the module files, scan System.map, follow dependents, collect the check list, delete files | loop variables read after their loops; four spellings of a module's name; `break` and `continue` in nested loops |
| Dependency table loading (`dependency/gen_objdep.py`: `ObjDeps.__init__`) | fourteen tables, some kept in two directions | one per kind of analysis file, three completing passes | file order of `os.walk`; a pass that changes what it reads |
| Bitcode build (`kernel/buildir.py`, `linkir.py`) | a pool of `nproc` child processes | start, poll, reap, end | children end at any moment; a full pool; the scripts end before their children |
| End-to-end pipeline (`test/run.sh`, `docker/*`, `hwdb/gendb.sh`, ...) | files on disk that outlive a run; three background jobs and their marker files | extract, prepare, analyze, patch, update | kills, failed commands nobody looks at, reuse of what an earlier run left |
| Function patching (`hwfilter.py`: `patch_kernel`, `patch_module`; `disasm.py`) | the bytes of a kernel or module in memory and on disk | walk over a function, overwrite its start, write the file back | functions of one name; short functions; code an earlier run patched; a run that gives up half-way |
| Repacking (`repack_bzimage.py`, `replace_kernel`, `remove_module`, `patch_initrd`) | vmlinuz and copies of it, module files, the initrd | find the compressed kernel, compress, splice, copy over; delete; unpack and re-pack | kills while a file is overwritten in place; sizes and offsets at their limits; bytes that look like a signature; failing tools nobody looks at |
| Platform database (`buildplatform.cpp`, `match-hw.py`) | sets of registration functions | fixpoints over the IR | termination; visit order |
| Driver model passes (`DrvDevReg.cpp`, `BusClass.cpp`, `batch-opt-pass.py`) | a worklist | walk over callers | termination |
| Compilation units (`comp_unit/*.py`, `load_btobj_deps`) | the condition of each object, the objects the configuration builds, the pairs found | analyse a directory, normalise, check one object, check one half for one object, group, reverse | process pools; halves that must meet; records that run on from file to file; one failure discards everything |
| Call graph extraction, module init discovery, utilities | none of their own | convert text, list commands | - |

How they interact.  `run.sh` starts a container per stage; stages communicate
through files only.  *prepare* runs the bitcode build and then three background
jobs which write the four database files.  *analyze* builds the target kernel
twice and leaves the analysis files that `ObjDeps.__init__` loads.  *patch* runs
`check_drivers`, which calls `check_fdep` on the loaded tables; its result is
patched into the kernel and the modules.  *update* copies the tree back.

What makes each part correct:

* `check_fdep`: the result does not depend on the visiting order, is the least
  set the rules ask for, nothing live reaches an added function, and it ends;
* `check_drivers`: every initcall of an unwanted driver goes, no other does, and
  `check_fdep` is called with arguments it can handle;
* `ObjDeps.__init__`: the tables do not depend on the file order, and the two
  directions of a table agree;
* the pools: no command is lost, never more than `nproc` children, all end;
* the pipeline: without faults patching starts from complete results; after
  faults outside extraction and patching the image can still be repaired; a run
  ends;
* patching: listed functions return at once, all others keep their bytes, in
  any order and after any earlier runs; repacking changes the kernel and nothing
  around it, and the first kill costs no kernel that boots;
* compilation units: every pair of objects is found exactly once, and the
  relation is transitive, because its user looks one step far.

## 2. Plan

Done, in this order: (1) `check_fdep` with its abstract specification and
proofs; (2) `check_drivers`, which calls it; (3) the tables both read; (4) the
process pools, with proofs; (5) the pipeline; (6) `patch_image`, from the bytes of
a function to the files it overwrites; (7) the compilation units.

Every invariant and action property of a passing run is also a theorem.  Next,
in this order:

1. Two `run.sh` at once in `Pipeline`; the files the link commands of `linkir.py`
   read.
2. That `ObjDepsLoad` ends with tables of the type `ObjDeps.Tables`, so that the
   theorems on `CheckFdep` apply to what was loaded and not to any tables.

## 3. Modules

| Module | Models | Extends |
|---|---|---|
| `ObjDeps` | the tables as a value, and the queries `get_mods`, `related`, `has_referencer`, `is_non_bc`, ... (`gen_objdep.py`) | |
| `PatchRules` | when a pair may be added to the patch set; closed and least patch sets; a legal call of `check_fdep` | `ObjDeps` |
| `LeastPatch` | the abstract specification: one step from running to an error or to the least patch set | `PatchRules` |
| `CheckFdep` | `check_fdep`, one action per visit | `PatchRules`, `INSTANCE LeastPatch` |
| `DriverFilter` | `check_drivers` and `remove_module` | `PatchRules` |
| `ObjDepsLoad` | `ObjDeps.__init__` | |
| `IrBuild` | `buildir.py` and then `linkir.py` | |
| `Pipeline` | `run.sh` and the scripts of the containers | |
| `FunctionPatch` | the walk of `disasm.py` and the bytes `patch_kernel` and `patch_module` write | |
| `PatchImage` | `patch_image`: kernel, modules and initrd, one action per file operation | `FunctionPatch` |
| `CompUnit` | `do-comp-unit.sh` and `load_btobj_deps` | |
| `*Proofs` | theorems about the module of that name; `PatchCodeProofs` those on the code `PatchImage` leaves | that module |
| `MC*` | the small instances | that module |

An operator whose comment begins with "Mutant of" is a plausible error in the
definition it names; it is used by nothing, and replacing the definition by it
makes the property `PROJECT.json` names fail.

### State and actions against the code

**CheckFdep.**  The variables are the local variables of `check_fdep`;
`todo` is what the `for` loop over `fdep_checklist_ex` has not visited, `fdeps`
what is left of the inner loop.  `Populate` is lines 178-218, `VisitLeaf` and
`VisitRelated` the two branches for a pair, `CheckRel` the body of the inner loop,
`EndPass` the comparison of sizes.  The result is then split by the file each
pair names (256-264); the two halves are `funcs` and `kos` of the profiles of
`PatchImage`.  `AssertionError` is the assertion in
`related()`: an object that belongs to two `.ko` files.  Python walks a set in
an order that depends on hash seeds, so a visit takes any pair.

**DriverFilter.**  One action per loop of `check_drivers`: `load_db`,
`FilterModules`, `ScanSymbol`/`EndScan` (one symbol of System.map per step),
`BuiltinDeps`, `CheckDeps`, `CollectInit`, `CollectImports`, then `remove_module`.
`last_mod` and `last_m` are the loop variables `mod` and `m` after their loops,
which later lines read.  `Unreadable` is a line of hw.db that has not four fields,
also the only line of an empty file, which raises.  A name is a pair of a base name and an extension, so
that `norm_mod`, `basename -s .ko` and the bare names of hw.db stay different
operations.  `Prefixes`, `LevelLike`, `EndsWith`, `Tails` and `SigMatch` are relations that
stand for `startswith`, the stripping of the initcall level, `endswith` of an
object's path and of a module's, and the regular expressions load_db makes of
signatures.  The switch between `-` and `_` in names is left out here;
`PatchImage` has it.

**ObjDepsLoad.**  One action per kind of analysis file (`LoadSymtab`, `LoadImptab`,
`LoadImpnoin`, `LoadSymlnk`, `LoadSymcbs`, `LoadFptref`, `LoadMod`, `LoadNonbc`), taken in
any order, then `LinkThroughData`, `FindInlined` and `MergeNoinline` in the order of
the code.  A dictionary of sets is a set of tuples.  Two files may speak of one
object, because `normalize_object_name` gives `a-b.o` and `a_b.o` the same name; which
calls of an `.impnoin` file are local is decided within that file.  `ThirdParty` stands for the
search of a Makefile above an object.

**IrBuild.**  `pool` holds children not yet seen to end, `running` and `finished` what
is true of them; the scripts learn of it by polling.  `Launch` is the body of the
loop with its `if` without `else`; `Reap` looks at one slot, so that children end
between two looks.  `EndScript` does not wait: the `map` at the end of both
scripts is lazy.

**Pipeline.**  A variable per thing on disk that decides what a later stage or
run does.  A database file is `absent`, `partial` (the shell has truncated it) or
`complete`.  A kill ends `run.sh` with its containers and their `/tmp`; the files
stay, but while patching a file that was being overwritten may be cut short, and
its part of `tree` is then no longer whole (`Overwrites`).  A compressor that
fails there goes unnoticed and loses the part too.  `disturbed` records faults for the properties and is read by no action.
The options `-s`, `-c` and `-b`, the link to an identical build and a second
`run.sh` at the same time are left out; a mount is synchronous.

**FunctionPatch.**  Code is a sequence of bytes; the first byte of an instruction
carries its kind, the others are ".".  The kinds are those `disasm` and the patch
loop tell apart: endbr, call, ret, jumps by the way capstone prints their
operand, bytes it cannot decode, anything else.  `WalkInsn` is one turn of the
`while` loop with its `expected_dis`, `PatchRange` the loop body that writes `ret`
and `nop`; the code has it twice (`hwfilter.py:546-571` and `720-741`).

**PatchImage.**  `disk` is the code each file holds, `mem` the bytes being patched,
`todo` and `work` the functions and modules left.  A file that is overwritten in
place is opened (`OpenTarget`: it is `torn`, and `blank`, no code can be read from
it), has its code (`FillTarget`: no longer `blank`) and is complete (`CloseTarget`).
A kill may come between any two steps, so a later run may find a `vmlinuz` that
was cut off behind the compressed kernel: `extract-vmlinux` is content with it, or
not, and `LoadKernel` has both outcomes.  `cut` says that the file in memory came
from such a file, and `Repack` copies it over `vmlinuz.patched` and then over
`vmlinuz`; what was missing stays missing.

`Start`, `LoadKernel`, `PatchSym` (one function, in any order; `Place` turns the
address in System.map into a place in the file as `patch_kernel` and `disasm` do,
which is wrong for functions outside .text), `Repack` (find the compressed kernel
and its end, compress, compare sizes), then the writing of the copy
`vmlinuz.patched`, of `vmlinuz`, or of `patched/vmlinuz` when the kernel does not
fit.  `Unlink` removes the copy.  `RemoveModule`, `LoadModule`, `WriteBack` and
`ReadInitrd`, `OpenInitrd`, `FillInitrd` follow in the order of `patch_image`.

The bzImage is a layout: where the compressed kernel starts, where the code
behind it starts, and every place that looks like a signature of either, with
what the unpacker does there.  `identify` and `find_piggy` choose as the code does.
When they choose wrongly, both `dd` of `replace_comp_kernel` write elsewhere
(`Misses`); the run goes on and `faults` records `damage`, as it does when a run goes
on from a `vmlinuz` that was cut off.  The initrd is a sequence of archives:
`Unpacked` is what `unpack-initramfs.sh` leaves of it (nothing behind the first
packed archive), `Listings` the orders in which `os.walk` may list the parts, `Parts`
their sorting by number, `NewInitrd` the archives written back.

A failing compressor leaves an empty file and no action looks at that.  What the
functions are called with is a constant per profile (`Profile`); that `rm` is in
practice empty, as the run `driver_removal` shows, is not assumed.
Simplifications: there is one kernel version; the layout of the bzImage stays
the same over the runs (the kernel is packed again with the same algorithm at
the same place); the copy `vmlinuz.patched` counts as unreadable until its second
`dd` has ended.

**CompUnit.**  `kmaxall_cmd` is a task of the first pool, `Normalize` the pipe through
`kreader-normalize.py`, `sort` and `uniq`; `find` lists the files in any order.
`LoadExprs`, `execute_check_sat` (a task per object), `EndSat`, `CheckHalf` (a task
per object and half), `EndHalf` are `get-build-deps.py`; `GenDep` is `gen-dep.py` and
`load_btobj_deps` the reader.  Units are numbered in the order of their names
because the code compares positions in a sorted list.  The solver is the set of
assignments that satisfy an expression; an expression may be one Python cannot
evaluate.  A report may have an empty line (`BlankLine`), on which `line[0]` raises
before anything is printed.  `Nth` and `Sorted` are `sorted()`: the member with that many smaller ones.

## 4. Runs

| Run | Checks | Instance |
|---|---|---|
| `fdep` | `TypeOK`, `OrderIndependent`, `OnlyDeadCodeReaches`, `ImplementsLeastPatch`, `Terminates` | three functions, two objects, two `.ko` files (so that the assertion can fail), all subsets of four calls, three sets of stored addresses |
| `drivers` | `TypeOK`, `UnwantedInitcallsPatched`, `WantedInitcallsSurvive`, `DependentsDisabled`, `CheckFdepContract` | 290 images: three drivers, one device, four databases, three System.maps, three module trees, and two databases that cannot be read |
| `driver_removal` | `UnwantedModulesDeleted`: violated | the same |
| `objdeps` | `TypeOK`, `Mirrored`, `WalkOrderIrrelevant`, `OnlyInlinedRestored` | 24 build trees of ten files, every file order |
| `irbuild` | `TypeOK`, `NoCommandSkipped`, `AtMostNproc`, `EverythingBuilt` | four compilations and three links, pools of two |
| `irbuild_wait` | `BitcodeComplete`: violated | the same |
| `pipeline` | `TypeOK`, `UndisturbedResultsComplete`, `Recoverable`, `RunEnds` | three runs, four kinds of faults, 704 271 states |
| `results_reuse` | `ReusedResultsComplete`: violated | two runs, kills |
| `version_check` | `UnknownVersionStops`: violated | two runs, kills |
| `patch_image` | `TypeOK`, `DoneDisables`, `OthersKept`, `SomeKernelWhole`, `OnlyKernelReplaced`, `WholeUnlessDisturbed`, `InitrdKept`, `PatchesAccumulate` | seven images, two runs with any of four profiles, kills and failing tools, three sizes around the limit, 308 335 states |
| `comp_unit` | `TypeOK`, `PairedOnce`, `LinkedTransitive`, `LostOnlyLast` | three directories, five objects, four inputs, every order of every pool |
| `comp_unit_last` | `EveryObjectHasExpr`: violated | the same |

Why the bounds are enough to be interesting.  *fdep*: chains f-g-h and cycles
make a second and third pass necessary, a static function of the same name in
both objects makes a bare name ambiguous, and an object without bitcode, one in
a module and one linked to another reach every branch of the rules.  *drivers*:
one initcall that two drivers match (one wanted, one not), names that are
prefixes of others, a function whose own name ends like a level, dependents of
dependents, compressed and plain modules.  *objdeps*: a call that was inlined
away, one that goes through data, recursion, module symbols, third-party
objects, two objects whose names become one.  *irbuild*: more commands than slots in both scripts, so that each pool
fills, is reaped in part and fills again.  *pipeline*: two runs for one to find
what the other left, a third for what a disturbed second made of it.
*patch_image*: functions of one name (static, global), with and without endbr
and call, short ones, ones that cannot be decoded, two in another section that
`patch_kernel` takes for each other; modules with and without `-` in their names;
sizes below, at and above the gap; chance signatures before and in the kernel,
from which nothing comes out, or something, before or after the kernel's own is
tried; a stub that is not aligned or not known; initrds of several archives, with
one behind the packed one, without a packed one, or none; two runs so that the
second walks over patched code and finds what a kill left.  *comp_unit*: two to five objects built,
so that both halves have odd and even sizes, equal, nested and disjoint sets of
variables, an object with two conditions, one without, one not built, an empty
line.  Deadlock
is not checked because every one of these programs ends (and the pipeline may
wait forever for a marker file, which `RunEnds` says).

Fairness.  `CheckFdep`: weak fairness of `Next`, one sequential loop that does
not block.  `IrBuild`: weak fairness of the script, which only sleeps and polls,
and of each child's exit: a compiler run ends.  `Pipeline`: weak fairness of
`run.sh` and of each background job, which the kernel schedules; starting a run
and killing it are not fair.

### What the violated properties show

* `UnwantedModulesDeleted` (`hwfilter.py:299`): module files are looked up as
  `x.ko` among the bare names of hw.db, so no module is ever deleted although
  the pass is called "Run Driver Removal Pass".
* `BitcodeComplete` (`buildir.py:47`, `linkir.py:56`): the lazy `map` waits for
  nobody, so linking starts on bitcode still being written, and
  `do-driver-model.sh` relies on bitcode that may not be there.
* `ReusedResultsComplete` (`run.sh:107`): results are reused when the files exist;
  a run killed while writing leaves truncated files that exist.
* `EveryObjectHasExpr` (`kreader-normalize.py:27`): a record is stored when the next
  one begins, so the last object kmax reports has no condition and is paired
  with nothing.  `LostOnlyLast` says that no other is lost, except that an empty
  line in any report loses all.
* `UnknownVersionStops` (`run.sh:89`): the check compares with "none", but
  `get-kernel-info.sh` prints an empty version when `lib/modules` is missing.

### What else the models show

* `disasm` takes up to three instructions whatever the size of the function.  One
  that is shorter and ends in neither `ret` nor a jump (`ud2`, a call that does not
  return) takes bytes from its neighbour.  And `patch_kernel` computes the place of
  every function from the start of .text, also of those in another section, so
  that it patches other bytes.  `OthersKept` and `DoneDisables` leave kernels and
  modules with such a listed function out (`Strays`).
* "Skip Ftrace Stub" (`hwfilter.py:558`) skips any call that comes first: `Disabled`
  allows for one call before the `ret`.
* `patch_module` compares file names with `-` to names with `_` (`hwfilter.py:690`), so
  functions of such modules are never disabled; `remove_module` handles both.
  `DoneDisables` promises nothing about their functions, and says so; they count
  as listed everywhere else.  Modules inside the initrd are deleted but never
  patched, and those in an archive that is not packed are not deleted either.
* `SomeKernelWhole` survives any kill, but not every run after it: if `vmlinuz` was
  cut off behind the compressed kernel, the next run unpacks it, patches it and
  starts by writing it over `vmlinuz.patched`, the only whole kernel
  (`repack_bzimage.py:86`), and deletes that in the end.
* The first signature from which an unpacker gets a single byte is taken for the
  kernel's (`repack_bzimage.py:40-43`), also when the unpacker fails later.  In an
  image with such a signature before the kernel's own the zeros and the kernel
  are written to the wrong place; `OnlyKernelReplaced` is about the others
  (`Recognised`).
* What follows a packed archive in the initrd is lost, because only the first
  archive of the packed file is unpacked and packed again; `InitrdKept` is about
  initrds whose packed archive is the last.
* A kill while patching damages the extracted tree, which the next run takes as
  it is and copies into the image: `Recoverable` excludes exactly this and a kill
  while extracting.
* A kill while the initrd is written, and another run, give an initrd that is
  well formed and lacks files; `WholeUnlessDisturbed` says it takes a fault.
* One expression that cannot be evaluated leaves `builtin-objs.dep` empty, and the
  job still reports success; `PairedOnce` says it is all or nothing.
* An object is only paired with objects whose names come later, so the relation
  depends on file names as well as on conditions (`get-build-deps.py:135`).

## 5. Proofs

### check_fdep (`CheckFdepProofs`)

Assumptions: `NamesAssumption` (finitely many objects, modules and symbols, no
object named like a module) and `InputsAssumption` (a call has its patch list inside its check list and
that inside the export table; `CheckFdepContract` checks that `check_drivers`
makes only such calls).

* `TypeCorrect`: `TypeOK`.
* `AddedCodeIsDead`: `OnlyDeadCodeReaches`.  By itself it is almost inductive; a
  pair without related pairs needs that such a pair has no callers (lemma), which
  in turn needs the arguments to be exported (`ArgsInv`).
* `ResultIsLeast`: `OrderIndependent`.  Two halves.  *Below* (`BelowInv`): in every
  state `patch_sym_ex` is inside every closed set that contains the arguments,
  because the rules are monotone.  *Closed at the end* (`DoneInv`): a pass that
  ends with the size it began with has added nothing (`CountInv`, sizes only
  grow), and as long as a pass has added nothing the pairs it visited need
  nothing more (`VisitedInv`); when `todo` and `fdeps` are empty that is all pairs.
* `Refinement`: `ImplementsLeastPatch`.  Initial states map to the initial state; every
  step but the last is a stutter; `AssertionError` maps to the failing step and
  the last `EndPass` to the returning one, which needs `NoAssertInv`: a pass that
  completed met no failing assertion, so the abstract specification could not
  have failed.

### Driver selection (`DriverFilterProofs`)

From `NamesAssumption`, `RelationsAssumption` (the relations are between names there
are) and `ImagesAssumption` (an image is a System.map, a database, a module tree and
a profile, of any size), for any image:

* `FilterTypeCorrect`: `TypeOK`, with `DbInv` (`driver_map` has the modules of hw.db).
* `NoUnwantedMissed`: `UnwantedInitcallsPatched`, from `ScanInv`.  It has three parts: how
  far the loop over System.map is and whether it has met the markers (`PosInv`);
  each initcall behind it is in `patch_list` or in `skip_list`, as its drivers say
  (`SortedInv`); nothing else is (`OriginInv`).  The inner loop leaves by `break`;
  that it visits an unwanted driver if there is one needs that the visited
  modules have a last one (`VisitedLast`).
* `WantedSurvive`: `WantedInitcallsSurvive`, from `OriginInv`, `DepsInv` (what `CheckDeps` adds
  is an initcall of a dependent) and `FiledInv` (a function is filed only for an
  initcall in `new_patch_list`, although under a stale name).
* `DependentsLoseAnInitcall`: `DependentsDisabled`, from `DepsInv` and `FiledInv`, which says
  for which pairs `CollectInit` has filed functions, and under which object although
  the loop variable `m` is stale (`SingleOwner`).
* `CallsCheckFdepProperly`: `CheckFdepContract`, from `FiledInv`.  It discharges for this
  caller what `InputsAssumption` of `CheckFdep` asks.

### Table loading (`ObjDepsLoadProofs`)

From `LoadAssumption` and `BuildsAssumption`: `LoadTypeCorrect` (`TypeOK`) and
`TablesMirrored` (`Mirrored`), which is inductive as it stands: one step per
kind of file and per completing pass.

* `LoadIgnoresWalkOrder`: `WalkOrderIrrelevant`.  The property is about the end only;
  `ContentInv` says at every moment what each table holds in terms of the files
  read so far (`LinksInv`, `CallbacksInv`, `LocalInv`, `CallsInv`), entry by entry, so that
  the order in which they were read does not occur in it.
* `MergeOnlyInlined`: the action property `OnlyInlinedRestored`, from `InlinedInv`: after
  `FindInlined` every function with a missing call is listed.

### Process pools (`IrBuildProofs`)

From `PoolAssumption` (a positive pool size, finite disjoint sets of commands),
for any number of commands and slots: `PoolTypeCorrect`, `NoneSkipped`
(`NoCommandSkipped`) and `PoolBounded` (`AtMostNproc`).  That a slot is free when
the loop goes on is not inductive: `ReapInv` adds that between the end of the
wait and the end of reaping some slot passed is free or some slot to come holds
an ended child.  The bound follows from `PoolInv`, by which the running children
of a script map one to one into its slots, so the set is no larger than the pool;
children left by `buildir.py` only become fewer while `linkir.py` runs.

### Pipeline (`PipelineProofs`)

From `PipelineAssumption` (any number of runs, any of the faults):

* `PipelineTypeCorrect`: `TypeOK`, within `ControlInv` (a step of a stage is in range, a
  job has its marker only after its last output, jobs start afresh).
* `ImageRecoverable`: `Recoverable`.  `RecoverInv` adds that outside *extract* the tree is
  empty or whole, that the stages which need it have it whole, and that the image
  lacks a part only while the tree is whole: `update.sh` removes before it copies.
  Nothing of this survives a kill while extracting, or a kill or a failing
  compressor while patching, and the property excludes them.
* `PatchingStartsComplete`: `UndisturbedResultsComplete`, from `QuietInv`: what a job has gone
  past is complete, and between the stages a result is absent or whole.

### Patching (`PatchImageProofs`)

From `ImageAssumption` (no module is named like a kernel file; the initrd is a
sequence of archives or there is none) and `LayoutAssumption`, which only says
that the kernel comes before the code behind it and that signatures have places,
for any images, profiles, sizes and number of runs:

* `KernelSurvives`: `SomeKernelWhole`.  It is not inductive: the copy must be whole
  when vmlinuz is opened, vmlinuz when the copy is opened or deleted, and the
  bytes in memory must be a whole kernel.  `KernelInv` says this per step of the run.
  A run that finds vmlinuz torn stops or, if the code can still be read, counts as
  damage from then on: that the copy survives it cannot be proved, because it
  does not.
* `GivesUpCleanly`: `WholeUnlessDisturbed`, from `QuietInv`: without faults the only
  unfinished file is the one being written.
* `OnlyKernelOverwritten`: `OnlyKernelReplaced`.  In a recognised image `identify` finds the
  kernel's signature and no other, and the first aligned hit behind it is no
  further than the code behind it (`RecognisedEnds`).
* `InitrdLosesNothingElse`: `InitrdKept`.  Whatever order the parts are listed in, `Parts`
  is `Unpacked` (`PartsInOrder`); if the packed archive is the last, `Unpacked` is what
  there was (`UnpackedFacts`), and `NewInitrd` keeps each archive in its place
  (`NewInitrdFacts`).  `InitrdInv` says of the initrd on the disk and of the one being
  built which archives they have and that the profiles asked for explain what is
  missing.
* `PatchedReturns` and `PatchStaysInRange`: what `PatchRange` does to any code.

### Patched code (`PatchCodeProofs`)

In addition from `CodeAssumption`: functions consist of whole instructions, an
endbr has four bytes and a call five, no two symbols share bytes, and a kernel
name is global once.  The third part leaves out aliases, for which `OthersKept` is
plainly false: to disable a function is to disable its other names.

* `PatchTypeCorrect`: `TypeOK`, with `ShapeInv` (what is in memory at each step is as long
  as the file it came from, or is what a failed compressor left).
* `NothingElsePatched`: `OthersKept`.  What is written depends on a walk over code that
  earlier runs, and earlier functions of this run, have patched, so the property
  is far from inductive.  `CodeInv` says of every file and of the memory that each
  function is as it was, or was listed by some run and returns at once (`Stubbed`:
  ret stands behind endbr and call, which are still there).  The walk over a
  function of the first kind stays inside it (`WalkUntouched`), over one of the
  second it ends behind the ret (`WalkStubbed`); so patching again changes no other
  function (`PatchFunction`, `PatchOthers`, `PatchSound`).  That the entry looked up for
  a name is the function meant by it is `EntryMeant`.
* `RunsOnlyAdd`: the action property `PatchesAccumulate`, from `CodeInv` (memory has
  everything the file on the disk has) and `RemovedInv` (no packed archive has a
  module this run removed, and the initrd being built has none the one on the disk
  lacks).  The raw kernel in `boot/patched` is not part of it: nothing reads it, and
  each run that cannot repack overwrites it.
* `DoneIsDone`: `DoneDisables`.  `MemInv`, `KernelDoneInv` and `ModulesDoneInv` follow a run:
  each function asked for is still to do or done, in memory, in the kernel
  written, in each module visited.  It needs nothing from `KernelInv`: a run that
  goes on from a vmlinuz cut off behind its code disables what it was asked for.

The attempt to prove `EntryMeant` showed that `Meant` was wrong: it counted a data
symbol of the same name that stands before a static function, which the lookup
of `patch_kernel` passes over.  `Meant` now counts functions only, and the instance
has such a symbol.

### Compilation units (`CompUnitProofs`)

From `UnitAssumption` (finitely many directories, objects and expressions; kmax
reports records), for any build:

* `HalvesMeet`: for any number of objects and any parent, the left and the right pass
  look at each later object once.
* `OneRecordLost`: `LostOnlyLast`.  Whatever order the files are joined in, the joined
  sequence has all their records and ends as one of the files does (`FlattenSpec`);
  with an empty line in a report nothing is printed at all.
* `PairedExactlyOnce`: `PairedOnce`.  `SatInv`: an object in `sat` satisfies its condition,
  and therefore the solver turns no candidate down (`SolverKeeps`).  `FoundInv`: the
  pool has all candidates of every parent it is done with, in whichever order.
  `GenDep` then lists the two halves one after the other, which is every later
  object once (`HalvesMeet`, `SortedSpec`, `CandidatesListed`, `LaterSpec`).
* `LookupOnceSuffices`: `LinkedTransitive`, from `PairedOnce` and what `revdeps` is made of.
* `UnitTypeCorrect`: `TypeOK`.

The inductive invariants named in this section also hold in TLC's runs on the
instances of section 4, except `BelowInv`, which quantifies over all patch sets and
is too slow to evaluate; they stand in the `*Proofs` modules and no run lists them.

### Only model-checked

Liveness (`Terminates`, `EverythingBuilt`, `RunEnds`) is beyond the prover.  The five
violated properties have no theorem: TLC's counterexample is the result.

## 6. Not modelled

* The platform database (`buildplatform.cpp`, `match-hw.py`) and the driver model
  passes are LLVM tools: what they decide depends on the IR of the kernel, and
  the results of the passes never reach a decision (`gen_objdep.py:61`).
* Call graph extraction and module init discovery (`modinitcb.py`) turn one text
  into another by pattern matching and keep no state; their output is input of
  `ObjDepsLoad` and `DriverFilter`.
* `batch-opt-pass.py` starts a tool per file in a pool and concatenates what it
  prints.
* Statistics (`calc_module_size`, `calc_module_count`), logging and the remaining
  utilities and container files, which are lists of commands.

Hazards without a property, with the reason, are in `PROJECT.json`.
