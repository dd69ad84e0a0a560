------------------------------ MODULE Pipeline ------------------------------
(***************************************************************************)
(* test/run.sh and the container commands it runs one after the other:     *)
(* extract, prepare, analyze, patch, update.  What one run leaves on disk  *)
(* the next run finds and reuses, so runs follow each other here, and a    *)
(* run may be killed at any point: its containers are started with --rm,   *)
(* so the background jobs and /tmp die with it and only the files stay.    *)
(*                                                                         *)
(* run.sh is called without -s and -c, always for the same image.  The     *)
(* commands succeed unless Faults names what may go wrong.                 *)
(***************************************************************************)
EXTENDS Naturals, Sequences, FiniteSets, SequencesExt

CONSTANTS
  MaxRuns,   \* bound: how often run.sh is started
  Faults     \* faults considered, among AllFaults

\* run.sh is killed; a database tool or a compressor fails; guestmount fails;
\* the kernel source cannot be downloaded.
AllFaults == {"crash", "tool", "mount", "source"}

ASSUME PipelineAssumption == MaxRuns \in Nat /\ Faults \subseteq AllFaults

\* The extracted files: two of boot/, then the version directory below
\* lib/modules, then the modules in it.  "kernel" is vmlinuz, System.map and
\* the initrd.
Boot  == {"config", "kernel"}
Parts == Boot \cup {"modver", "modules"}

\* The background jobs of prepare.sh and the database files each writes.
Job == {"gendb", "do-driver-model", "do-comp-unit"}
Outputs == [j \in Job |->
  IF j = "gendb" THEN <<"hw.db">>
  ELSE IF j = "do-driver-model" THEN <<"bus-regfuns.db", "class-regfuns.db">>
  ELSE <<"builtin-objs.dep">>]
DbFile == UNION {Range(Outputs[j]) : j \in Job}

\* What get-target-objdep.sh does, with build_target_kernel.sh; "marker" is
\* kernel/entry/common.o.impnoin, one of the files copied as *.impnoin.
Analysis == <<"mkdir target", "build target", "mkdir noinline", "build noinline",
              "callgraph target", "callgraph noinline", "marker", "impnoin",
              "symtab", "nonbc">>

\* What patch_image does to the extracted files, in place, and the parts it
\* opens for writing: vmlinuz, the module files, the initrd.
Patch == <<"replace_kernel", "remove_module", "patch_module", "patch_initrd">>
Overwrites == <<{"kernel"}, {}, {"modules"}, {"kernel"}>>

\* What update.sh does to the image.
Update == <<"rm kernel", "rm modules", "cp kernel", "cp modules">>

VARIABLES
  stage,      \* where run.sh is
  step,       \* the next step of a stage that has a list of them
  job,        \* how far each background job of prepare.sh is
  dead,       \* the jobs that gave up
  done,       \* the jobs whose /tmp/*.done exists
  \* files that outlive a run:
  extracted,  \* does out/<image>.extracted exist?
  tree,       \* the parts complete in it
  kbuild,     \* ".config" and "builtin-objs.raw", if prepare_kernel.sh left them
  db,         \* the database files: "absent", "partial" or "complete"
  target,     \* the steps of Analysis whose result is in the target build
  patched,    \* the steps of Patch applied to the extracted files
  image,      \* the parts of the system image that are in place
  \* history:
  runs,       \* how often run.sh was started
  disturbed   \* the faults so far, each with the stage it struck

jobVars  == <<job, dead, done>>
diskVars == <<extracted, tree, kbuild, db, target, patched, image>>
vars == <<stage, step, jobVars, diskVars, runs, disturbed>>

Idle == {"off", "stopped", "end"}
Busy == {"extract", "info", "ifprepare", "kernel", "jobs", "ifanalyze",
         "analyze", "patch", "update"}

TypeOK ==
  /\ stage \in Idle \cup Busy
  /\ step \in 1..(Len(Analysis) + 1)
  /\ job \in [Job -> Nat] /\ \A j \in Job : job[j] <= 2 * Len(Outputs[j]) + 1
  /\ dead \subseteq {"do-comp-unit"} /\ done \subseteq Job
  /\ extracted \in BOOLEAN /\ tree \subseteq Parts /\ (tree # {} => extracted)
  /\ kbuild \subseteq {".config", "builtin-objs.raw"}
  /\ db \in [DbFile -> {"absent", "partial", "complete"}]
  /\ target \subseteq Range(Analysis) /\ patched \subseteq Range(Patch)
  /\ image \subseteq {"kernel", "modules"}
  /\ runs \in 0..MaxRuns /\ disturbed \subseteq Faults \X Busy

Init ==
  /\ stage = "off" /\ step = 1
  /\ job = [j \in Job |-> 0] /\ dead = {} /\ done = {}
  /\ extracted = FALSE /\ tree = {} /\ kbuild = {}
  /\ db = [f \in DbFile |-> "absent"]
  /\ target = {} /\ patched = {} /\ image = {"kernel", "modules"}
  /\ runs = 0 /\ disturbed = {}

-----------------------------------------------------------------------------
\* run.sh starts; the image is extracted unless the directory exists.

Start ==
  /\ stage \in Idle /\ runs < MaxRuns
  /\ runs' = runs + 1
  /\ stage' = IF extracted THEN "info" ELSE "extract"
  /\ step' = 1 /\ job' = [j \in Job |-> 0] /\ dead' = {} /\ done' = {}
  /\ UNCHANGED <<diskVars, disturbed>>

\* extract.sh goes on when guestmount failed: cp then finds nothing.
ExtractMount ==
  /\ stage = "extract" /\ ~extracted
  /\ extracted' = TRUE
  /\ \/ UNCHANGED <<stage, disturbed>>
     \/ /\ "mount" \in Faults
        /\ stage' = "info" /\ disturbed' = disturbed \cup {<<"mount", "extract">>}
  /\ UNCHANGED <<step, jobVars, tree, kbuild, db, target, patched, image, runs>>

\* cp -a boot, in any order, then cp -a lib/modules.
ExtractCopy(p) ==
  /\ stage = "extract" /\ extracted /\ p \in Parts \ tree
  /\ p = "modver" => Boot \subseteq tree
  /\ p = "modules" => "modver" \in tree
  /\ tree' = tree \cup {p}
  /\ stage' = IF tree' = Parts THEN "info" ELSE "extract"
  /\ UNCHANGED <<step, jobVars, extracted, kbuild, db, target, patched, image,
                 runs, disturbed>>

\* get-kernel-info.sh: the version is the name of a directory in lib/modules.
\* It says "none" for a configuration file it does not find, but prints
\* nothing for the version, which run.sh compares with "none".
HasVersion == "modver" \in tree

\* Mutant of KernelInfo: a missing configuration file goes unnoticed too.
KernelInfoUnchecked ==
  /\ stage = "info" /\ stage' = "ifprepare"
  /\ UNCHANGED <<step, jobVars, diskVars, runs, disturbed>>

KernelInfo ==
  /\ stage = "info"
  /\ stage' = IF "config" \in tree THEN "ifprepare" ELSE "stopped"
  /\ UNCHANGED <<step, jobVars, diskVars, runs, disturbed>>

-----------------------------------------------------------------------------
\* prepare.  Without a version every container command prints its usage.

IfPrepare ==
  /\ stage = "ifprepare"
  /\ stage' = IF HasVersion /\ \E f \in DbFile : db[f] = "absent"
              THEN "kernel" ELSE "ifanalyze"
  /\ step' = 1
  /\ UNCHANGED <<jobVars, diskVars, runs, disturbed>>

\* prepare_kernel.sh does not stop when a command fails: the list of objects
\* is written even if there was nothing to build.
Configure ==
  /\ stage = "kernel" /\ step = 1 /\ step' = 2
  /\ \/ /\ kbuild' = kbuild \cup {".config"}
        /\ UNCHANGED disturbed
     \/ /\ "source" \in Faults
        /\ disturbed' = disturbed \cup {<<"source", "kernel">>}
        /\ UNCHANGED kbuild
  /\ UNCHANGED <<stage, jobVars, extracted, tree, db, target, patched, image, runs>>

\* The objects are listed; the bitcode built from the list before the jobs
\* start is the subject of IrBuild.
ListObjects ==
  /\ stage = "kernel" /\ step = 2
  /\ kbuild' = kbuild \cup {"builtin-objs.raw"}
  /\ stage' = "jobs" /\ step' = 1
  /\ UNCHANGED <<jobVars, extracted, tree, db, target, patched, image, runs, disturbed>>

\* Mutant of Ready: every job insists on the build.
ReadyAll(j) == job[j] > 0 \/ {".config", "builtin-objs.raw"} \subseteq kbuild

\* do-comp-unit.sh gives up, without its .done file, when the build left no
\* configuration or no list of objects.  (do-driver-model.sh asks for the build
\* directory, which prepare_kernel.sh has made in any case.)
Ready(j) ==
  \/ j # "do-comp-unit" \/ job[j] > 0
  \/ {".config", "builtin-objs.raw"} \subseteq kbuild

GiveUp(j) ==
  /\ stage = "jobs" /\ j \notin dead /\ ~Ready(j)
  /\ dead' = dead \cup {j}
  /\ UNCHANGED <<stage, step, job, done, diskVars, runs, disturbed>>

\* The file a job works on: redirection truncates it, the command fills it.
Output(j) == Outputs[j][(job[j] \div 2) + 1]

Truncate(j) ==
  /\ stage = "jobs" /\ Ready(j)
  /\ job[j] < 2 * Len(Outputs[j]) /\ job[j] % 2 = 0
  /\ db' = [db EXCEPT ![Output(j)] = "partial"]
  /\ job' = [job EXCEPT ![j] = @ + 1]
  /\ UNCHANGED <<stage, step, dead, done, extracted, tree, kbuild, target, patched,
                 image, runs, disturbed>>

Fill(j) ==
  /\ stage = "jobs" /\ job[j] < 2 * Len(Outputs[j]) /\ job[j] % 2 = 1
  /\ job' = [job EXCEPT ![j] = @ + 1]
  /\ \/ /\ db' = [db EXCEPT ![Output(j)] = "complete"]
        /\ UNCHANGED disturbed
     \/ /\ "tool" \in Faults
        /\ disturbed' = disturbed \cup {<<"tool", "jobs">>}
        /\ UNCHANGED db
  /\ UNCHANGED <<stage, step, dead, done, extracted, tree, kbuild, target, patched,
                 image, runs>>

\* Mutant of TouchDone: one script forgets its .done file.
TouchDoneForgotten(j) ==
  /\ stage = "jobs" /\ job[j] = 2 * Len(Outputs[j])
  /\ done' = done \cup ({j} \ {"gendb"})
  /\ job' = [job EXCEPT ![j] = @ + 1]
  /\ UNCHANGED <<stage, step, dead, diskVars, runs, disturbed>>

TouchDone(j) ==
  /\ stage = "jobs" /\ job[j] = 2 * Len(Outputs[j])
  /\ done' = done \cup {j}
  /\ job' = [job EXCEPT ![j] = @ + 1]
  /\ UNCHANGED <<stage, step, dead, diskVars, runs, disturbed>>

JobStep(j) == GiveUp(j) \/ Truncate(j) \/ Fill(j) \/ TouchDone(j)

\* Mutant of PollDone: the third file is not waited for.
PollDoneTwo ==
  /\ stage = "jobs" /\ Cardinality(done) >= 2
  /\ stage' = "ifanalyze"
  /\ UNCHANGED <<step, jobVars, diskVars, runs, disturbed>>

\* prepare.sh polls every five seconds for the three files.
PollDone ==
  /\ stage = "jobs" /\ done = Job
  /\ stage' = "ifanalyze"
  /\ UNCHANGED <<step, jobVars, diskVars, runs, disturbed>>

-----------------------------------------------------------------------------
\* analyze, patch, update.

\* The kernels are not built again when both build directories exist.
IfAnalyze ==
  /\ stage = "ifanalyze"
  /\ IF HasVersion /\ ~{"mkdir target", "marker"} \subseteq target
     THEN /\ stage' = "analyze"
          /\ step' = IF {"mkdir target", "mkdir noinline"} \subseteq target THEN 5 ELSE 1
     ELSE stage' = "patch" /\ step' = 1
  /\ UNCHANGED <<jobVars, diskVars, runs, disturbed>>

AnalyzeStep ==
  /\ stage = "analyze"
  /\ target' = target \cup {Analysis[step]}
  /\ IF step = Len(Analysis)
     THEN stage' = "patch" /\ step' = 1
     ELSE step' = step + 1 /\ UNCHANGED stage
  /\ UNCHANGED <<jobVars, extracted, tree, kbuild, db, patched, image, runs, disturbed>>

\* With a version and all database files something is patched.
Patching == stage = "patch" /\ HasVersion /\ \A f \in DbFile : db[f] # "absent"

\* A part that was damaged before stays so.  Nobody notices a compressor that
\* fails, and what it should have packed is lost.
PatchStep ==
  /\ Patching
  /\ patched' = patched \cup {Patch[step]}
  /\ \/ UNCHANGED <<tree, disturbed>>
     \/ /\ "tool" \in Faults /\ Overwrites[step] # {}
        /\ tree' = tree \ Overwrites[step]
        /\ disturbed' = disturbed \cup {<<"tool", "patch">>}
  /\ IF step = Len(Patch)
     THEN stage' = "update" /\ step' = 1
     ELSE step' = step + 1 /\ UNCHANGED stage
  /\ UNCHANGED <<jobVars, extracted, kbuild, db, target, image, runs>>

\* patch-disk-image.py ends early: no version, a database file missing, one
\* it cannot read, or a kernel or module file missing or damaged.  run.sh goes
\* on.
PatchFails ==
  /\ stage = "patch"
  /\ ~HasVersion \/ tree # Parts \/ \E f \in DbFile : db[f] # "complete"
  /\ stage' = "update" /\ step' = 1
  /\ UNCHANGED <<jobVars, diskVars, runs, disturbed>>

\* Without lib/modules in the tree "cp -a *" copies something else, and a
\* damaged part is copied like a whole one.
UpdateStep ==
  /\ stage = "update"
  /\ \/ Update[step] = "rm kernel"  /\ image' = image \ {"kernel"}
     \/ Update[step] = "rm modules" /\ image' = image \ {"modules"}
     \/ Update[step] = "cp kernel"  /\ image' = image \cup (tree \cap {"kernel"})
     \/ Update[step] = "cp modules" /\ image' = image \cup (tree \cap {"modules"})
  /\ IF step = Len(Update)
     THEN stage' = "end" /\ step' = 1
     ELSE step' = step + 1 /\ UNCHANGED stage
  /\ UNCHANGED <<jobVars, extracted, tree, kbuild, db, target, patched, runs, disturbed>>

\* guestmount fails: the commands of update.sh work on an empty directory.
UpdateMountFails ==
  /\ stage = "update" /\ step = 1 /\ "mount" \in Faults
  /\ stage' = "end" /\ disturbed' = disturbed \cup {<<"mount", "update">>}
  /\ UNCHANGED <<step, jobVars, diskVars, runs>>

\* The run is killed.  A file that was being overwritten in place is cut short,
\* or it was written or not yet opened.
Crash ==
  /\ stage \notin Idle /\ "crash" \in Faults
  /\ stage' = "off" /\ step' = 1
  /\ job' = [j \in Job |-> 0] /\ dead' = {} /\ done' = {}
  /\ disturbed' = disturbed \cup {<<"crash", stage>>}
  /\ \E damaged \in SUBSET (IF Patching THEN Overwrites[step] ELSE {}) :
       tree' = tree \ damaged
  /\ UNCHANGED <<extracted, kbuild, db, target, patched, image, runs>>

RunSh ==
  \/ ExtractMount \/ \E p \in Parts : ExtractCopy(p)
  \/ KernelInfo
  \/ IfPrepare \/ Configure \/ ListObjects \/ PollDone
  \/ IfAnalyze \/ AnalyzeStep
  \/ PatchStep \/ PatchFails
  \/ UpdateStep \/ UpdateMountFails

Next == Start \/ RunSh \/ (\E j \in Job : JobStep(j)) \/ Crash

Spec == Init /\ [][Next]_vars

\* A started run goes on and the scheduler serves every background job.
FairSpec == Spec /\ WF_vars(RunSh) /\ \A j \in Job : WF_vars(JobStep(j))

-----------------------------------------------------------------------------
\* Properties.

Results == (\A f \in DbFile : db[f] = "complete") /\ target = Range(Analysis)

\* prepare.sh synchronises with its three jobs: as long as nothing was killed
\* and nothing failed, in this run or an earlier one, patching starts from a
\* whole tree, four whole database files and a whole analysis, however the
\* jobs interleaved (prepare.sh:39-53, run.sh:107-124).
UndisturbedResultsComplete ==
  stage = "patch" /\ disturbed = {} => tree = Parts /\ Results

\* The system can be repaired: a part that update.sh removed from the image is
\* still whole in the extracted tree, and a run that reaches its end has put
\* it back.  Kills in every stage but two, an extraction whose guestmount
\* failed and later runs are included.  The two are extract, whose directory
\* is taken for a whole one, and patch, which overwrites the files in place:
\* after such a kill, or when a compressor failed there, update.sh removes what
\* the image has and copies what is left (extract.sh:37-41, run.sh:94-97,
\* 130-133, update.sh:43-57).
Recoverable ==
  {<<"crash", "extract">>, <<"crash", "patch">>, <<"tool", "patch">>} \cap disturbed = {} =>
    \A p \in {"kernel", "modules"} :
      /\ p \in image \/ p \in tree
      /\ stage = "end" /\ <<"mount", "update">> \notin disturbed => p \in image

\* Every run ends.  Only one thing can hold it: do-comp-unit.sh gave up and
\* prepare.sh waits for a file that nobody will write (prepare.sh:43-53).
RunEnds == (stage \notin Idle) ~> (stage \in Idle \/ "do-comp-unit" \in dead)

\* "the hardware database and dependency analysis results can be reused later"
\* (README.md:16): what a later run takes over from an earlier one is whole.
\* run.sh tests only that the files exist, so results cut short are reused.
ReusedResultsComplete == stage = "patch" /\ HasVersion => Results

\* "Failed to identify kernel version" (run.sh:90): no later stage is entered
\* without a version.  get-kernel-info.sh never says "none" for the version.
UnknownVersionStops ==
  stage \in Busy \ {"extract", "info"} => HasVersion

=============================================================================
