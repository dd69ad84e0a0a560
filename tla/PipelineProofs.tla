--------------------------- MODULE PipelineProofs ---------------------------
(***************************************************************************)
(* Proofs about Pipeline, for any number of runs and any choice of faults. *)
(***************************************************************************)
EXTENDS Pipeline, TLAPS

\* The last step of the stages that have a list of them.
StepInRange ==
  /\ stage = "kernel" => step \in 1..2
  /\ stage = "analyze" => step \in 1..Len(Analysis)
  /\ stage = "patch" => step \in 1..Len(Patch)
  /\ stage = "update" => step \in 1..Len(Update)

\* A job has its .done file only after its last output.
DoneAfterOutputs == \A j \in done : job[j] > 2 * Len(Outputs[j])

\* The jobs start afresh in every run.
JobsFresh ==
  stage \in {"extract", "info", "ifprepare", "kernel"} => \A j \in Job : job[j] = 0

ControlInv == TypeOK /\ StepInRange /\ DoneAfterOutputs /\ JobsFresh

\* Until a run is killed while it extracts or patches, or a compressor fails
\* while it patches: outside extract the tree is empty (guestmount failed) or
\* whole, a stage that needs files has all of them, and the image misses a part
\* only while a whole tree holds it.
RecoverInv ==
  {<<"crash", "extract">>, <<"crash", "patch">>, <<"tool", "patch">>} \cap disturbed = {} =>
    /\ stage # "extract" => tree \in {{}, Parts}
    /\ stage \in Busy \ {"extract", "info"} => tree = Parts
    /\ tree # Parts => image = {"kernel", "modules"}
    /\ stage = "update" /\ step = 4 => "kernel" \in image
    /\ stage = "end" /\ <<"mount", "update">> \notin disturbed
         => image = {"kernel", "modules"}

AllComplete == \A f \in DbFile : db[f] = "complete"
AllAbsent   == \A f \in DbFile : db[f] = "absent"

\* Until something goes wrong: what a job has gone past is complete, and
\* between the stages a result is not there at all or whole.
QuietTree ==
  /\ stage = "off" => ~extracted
  /\ stage \notin {"off", "extract"} => tree = Parts

QuietDb ==
  /\ stage = "jobs" =>
       \A j \in Job : \A i \in 1..Len(Outputs[j]) :
         job[j] >= 2 * i => db[Outputs[j][i]] = "complete"
  /\ stage # "jobs" => AllAbsent \/ AllComplete
  /\ stage \in {"ifanalyze", "analyze", "patch", "update", "end"} => AllComplete

QuietTarget ==
  /\ stage = "analyze" => \A i \in 1..(step - 1) : Analysis[i] \in target
  /\ stage # "analyze" => target \in {{}, Range(Analysis)}
  /\ stage \in {"patch", "update", "end"} => target = Range(Analysis)

QuietInv == disturbed = {} => QuietTree /\ QuietDb /\ QuietTarget

-----------------------------------------------------------------------------
\* The constants of the model.

\* How many steps the stages have.
LEMMA Lengths ==
  /\ Len(Analysis) = 10 /\ Len(Patch) = 4 /\ Len(Update) = 4
  /\ Range(Analysis) = {Analysis[i] : i \in 1..10}
  /\ Range(Patch) = {Patch[i] : i \in 1..4}
<1>1. Len(Analysis) = 10 /\ DOMAIN Analysis = 1..10
  BY DEF Analysis
<1>2. Len(Patch) = 4 /\ DOMAIN Patch = 1..4
  BY DEF Patch
<1>3. Len(Update) = 4
  BY DEF Update
<1>4. Range(Analysis) = {Analysis[i] : i \in 1..10}
  BY <1>1 DEF Range
<1>5. Range(Patch) = {Patch[i] : i \in 1..4}
  BY <1>2 DEF Range
<1> QED
  BY <1>1, <1>2, <1>3, <1>4, <1>5

\* The analysis makes the directory and the marker run.sh looks for.
LEMMA AnalysisSteps ==
  {"mkdir target", "marker"} \subseteq Range(Analysis)
<1>1. Analysis[1] = "mkdir target" /\ Analysis[7] = "marker"
  BY DEF Analysis
<1>2. Analysis[1] \in Range(Analysis)
  BY Lengths
<1>3. Analysis[7] \in Range(Analysis)
  BY Lengths
<1> QED
  BY <1>1, <1>2, <1>3

\* What update.sh does, in its order.
LEMMA UpdateSteps ==
  /\ Update[1] = "rm kernel" /\ Update[2] = "rm modules"
  /\ Update[3] = "cp kernel" /\ Update[4] = "cp modules"
BY DEF Update

\* The outputs of each job.
LEMMA OutputsOf ==
  /\ Outputs["gendb"] = <<"hw.db">>
  /\ Outputs["do-driver-model"] = <<"bus-regfuns.db", "class-regfuns.db">>
  /\ Outputs["do-comp-unit"] = <<"builtin-objs.dep">>
BY DEF Outputs, Job

\* A job has one or two outputs.
LEMMA OutputsLength == \A j \in Job : Len(Outputs[j]) \in 1..2
BY OutputsOf DEF Job

\* Every database file is one output of one job.
LEMMA OutputsDistinct ==
  \A j, k \in Job : \A i \in 1..Len(Outputs[j]), l \in 1..Len(Outputs[k]) :
    Outputs[j][i] = Outputs[k][l] => j = k /\ i = l
BY OutputsOf DEF Job

\* The outputs are the database files.
LEMMA OutputsAreFiles ==
  /\ \A j \in Job : \A i \in 1..Len(Outputs[j]) : Outputs[j][i] \in DbFile
  /\ \A f \in DbFile : \E j \in Job : \E i \in 1..Len(Outputs[j]) : f = Outputs[j][i]
<1>1. \A j \in Job : Range(Outputs[j]) = {Outputs[j][i] : i \in 1..Len(Outputs[j])}
  BY OutputsOf DEF Job, Range
<1>2. ASSUME NEW j \in Job, NEW i \in 1..Len(Outputs[j])
      PROVE  Outputs[j][i] \in DbFile
  BY <1>1 DEF DbFile
<1>3. ASSUME NEW f \in DbFile
      PROVE  \E j \in Job : \E i \in 1..Len(Outputs[j]) : f = Outputs[j][i]
  <2>1. PICK j \in Job : f \in Range(Outputs[j])
    BY DEF DbFile
  <2> QED
    BY <2>1, <1>1
<1> QED
  BY <1>2, <1>3

\* The output a job works on, while it has one left.
LEMMA OutputInRange ==
  ASSUME NEW j \in Job, TypeOK, job[j] < 2 * Len(Outputs[j])
  PROVE  /\ job[j] \div 2 + 1 \in 1..Len(Outputs[j])
         /\ Output(j) = Outputs[j][job[j] \div 2 + 1]
         /\ Output(j) \in DbFile
<1>1. job[j] \div 2 + 1 \in 1..Len(Outputs[j])
  BY OutputsLength DEF TypeOK
<1> QED
  BY <1>1, OutputsAreFiles DEF Output

-----------------------------------------------------------------------------
\* ControlInv.

\* ControlInv holds before the first run.
LEMMA ControlInit ==
  ASSUME Init
  PROVE  ControlInv
<1> USE DEF Init
<1>1. job \in [Job -> Nat] /\ \A j \in Job : job[j] <= 2 * Len(Outputs[j]) + 1
  BY OutputsLength
<1>2. stage \in Idle \cup Busy /\ step \in 1..(Len(Analysis) + 1)
  BY Lengths DEF Idle
<1>3. extracted \in BOOLEAN /\ tree \subseteq Parts /\ (tree # {} => extracted)
  OBVIOUS
<1>4. /\ db \in [DbFile -> {"absent", "partial", "complete"}]
      /\ dead \subseteq {"do-comp-unit"} /\ done \subseteq Job
      /\ image \subseteq {"kernel", "modules"} /\ runs \in 0..MaxRuns
  BY PipelineAssumption
<1>5. TypeOK
  BY <1>1, <1>2, <1>3, <1>4 DEF TypeOK
<1>6. StepInRange /\ DoneAfterOutputs /\ JobsFresh
  BY DEF StepInRange, DoneAfterOutputs, JobsFresh
<1> QED
  BY <1>5, <1>6 DEF ControlInv

\* Every step of run.sh and of a job, and every fault, keeps ControlInv.
LEMMA ControlNext ==
  ASSUME ControlInv, [Next]_vars
  PROVE  ControlInv'
<1> USE PipelineAssumption, OutputsLength, Lengths
    DEF ControlInv, TypeOK, StepInRange, DoneAfterOutputs, JobsFresh, Idle, Busy, jobVars, diskVars
<1>1. CASE Start
  BY <1>1 DEF Start
<1>2. CASE ExtractMount
  BY <1>2 DEF ExtractMount
<1>3. ASSUME NEW p \in Parts, ExtractCopy(p)
     PROVE  ControlInv'
  BY <1>3 DEF ExtractCopy
<1>4. CASE KernelInfo
  BY <1>4 DEF KernelInfo
<1>5. CASE IfPrepare
  BY <1>5 DEF IfPrepare
<1>6. CASE Configure
  <2>1. kbuild' \subseteq {".config", "builtin-objs.raw"}
    BY <1>6 DEF Configure
  <2>2. disturbed' \subseteq Faults \X Busy
    BY <1>6 DEF Configure
  <2> QED
    BY <1>6, <2>1, <2>2 DEF Configure
<1>7. CASE ListObjects
  BY <1>7 DEF ListObjects
<1>8. ASSUME NEW j \in Job, GiveUp(j)
     PROVE  ControlInv'
  BY <1>8 DEF GiveUp, Ready
<1>9. ASSUME NEW j \in Job, Truncate(j)
     PROVE  ControlInv'
  <2>1. db' \in [DbFile -> {"absent", "partial", "complete"}]
    BY <1>9, OutputInRange DEF Truncate
  <2>2. job' \in [Job -> Nat] /\ \A k \in Job : job'[k] <= 2 * Len(Outputs[k]) + 1
    BY <1>9 DEF Truncate
  <2>3. DoneAfterOutputs'
    BY <1>9 DEF Truncate
  <2> QED
    BY <1>9, <2>1, <2>2, <2>3 DEF Truncate
<1>10. ASSUME NEW j \in Job, Fill(j)
     PROVE  ControlInv'
  <2>1. db' \in [DbFile -> {"absent", "partial", "complete"}]
    BY <1>10, OutputInRange DEF Fill
  <2>2. disturbed' \subseteq Faults \X Busy
    BY <1>10 DEF Fill
  <2>3. job' \in [Job -> Nat] /\ \A k \in Job : job'[k] <= 2 * Len(Outputs[k]) + 1
    BY <1>10 DEF Fill
  <2>4. DoneAfterOutputs'
    BY <1>10 DEF Fill
  <2> QED
    BY <1>10, <2>1, <2>2, <2>3, <2>4 DEF Fill
<1>11. ASSUME NEW j \in Job, TouchDone(j)
     PROVE  ControlInv'
  BY <1>11 DEF TouchDone
<1>12. CASE PollDone
  BY <1>12 DEF PollDone
<1>13. CASE IfAnalyze
  <2> HIDE DEF TypeOK, StepInRange, DoneAfterOutputs, JobsFresh
  <2>1. \/ stage' = "analyze" /\ step' \in {1, 5}
        \/ stage' = "patch" /\ step' = 1
    BY ONLY <1>13 DEF IfAnalyze
  <2>2. StepInRange' /\ step' \in 1..(Len(Analysis) + 1)
    BY <2>1 DEF StepInRange
  <2>3. TypeOK'
    BY <1>13, <2>1, <2>2 DEF IfAnalyze, TypeOK
  <2> QED
    BY <1>13, <2>1, <2>2, <2>3 DEF IfAnalyze, DoneAfterOutputs, JobsFresh
<1>14. CASE AnalyzeStep
  BY <1>14 DEF AnalyzeStep
<1>15. CASE PatchStep
  BY <1>15 DEF PatchStep, Patching
<1>16. CASE PatchFails
  BY <1>16 DEF PatchFails
<1>17. CASE UpdateStep
  <2> HIDE DEF TypeOK, StepInRange, DoneAfterOutputs, JobsFresh
  <2>1. \/ step = 4 /\ stage' = "end" /\ step' = 1
        \/ step # 4 /\ step' = step + 1 /\ stage' = stage
    BY ONLY <1>17, Lengths DEF UpdateStep
  <2>2. step \in 1..4 /\ stage = "update"
    BY <1>17 DEF UpdateStep, StepInRange
  <2>3. StepInRange' /\ step' \in 1..(Len(Analysis) + 1) /\ stage' \in Idle \cup Busy
    BY <2>1, <2>2 DEF StepInRange
  <2>4. TypeOK'
    BY <1>17, <2>3 DEF UpdateStep, TypeOK
  <2> QED
    BY <1>17, <2>1, <2>2, <2>3, <2>4 DEF UpdateStep, DoneAfterOutputs, JobsFresh
<1>18. CASE UpdateMountFails
  BY <1>18 DEF UpdateMountFails
<1>19. CASE Crash
  BY <1>19 DEF Crash
<1>20. CASE UNCHANGED vars
  BY <1>20 DEF vars
<1> QED
  BY <1>1, <1>2, <1>3, <1>4, <1>5, <1>6, <1>7, <1>8, <1>9, <1>10,
     <1>11, <1>12, <1>13, <1>14, <1>15, <1>16, <1>17, <1>18, <1>19, <1>20 DEF Next, RunSh, JobStep

\* Every variable keeps its type whatever is killed or fails, for any number
\* of runs of run.sh.
THEOREM PipelineTypeCorrect == Spec => []TypeOK
<1>1. Init => ControlInv
  BY ControlInit
<1>2. ControlInv /\ [Next]_vars => ControlInv'
  BY ControlNext
<1>3. ControlInv => TypeOK
  BY DEF ControlInv
<1> QED
  BY <1>1, <1>2, <1>3, PTL DEF Spec

-----------------------------------------------------------------------------
\* RecoverInv.

\* RecoverInv holds before the first run.
LEMMA RecoverInit ==
  ASSUME Init
  PROVE  RecoverInv
BY DEF Init, RecoverInv, Busy

\* RecoverInv: extract.sh fills the tree, update.sh changes the image.
LEMMA RecoverNext ==
  ASSUME ControlInv, RecoverInv, [Next]_vars
  PROVE  RecoverInv'
<1> USE Lengths, UpdateSteps
    DEF ControlInv, TypeOK, StepInRange, RecoverInv, Idle, Busy, Parts, Boot, jobVars, diskVars
<1>1. CASE Start
  BY <1>1 DEF Start
<1>2. CASE ExtractMount
  BY <1>2 DEF ExtractMount
<1>3. ASSUME NEW p \in Parts, ExtractCopy(p)
     PROVE  RecoverInv'
  BY <1>3 DEF ExtractCopy
<1>4. CASE KernelInfo
  BY <1>4 DEF KernelInfo
<1>5. CASE IfPrepare
  BY <1>5 DEF IfPrepare
<1>6. CASE Configure
  BY <1>6 DEF Configure
<1>7. CASE ListObjects
  BY <1>7 DEF ListObjects
<1>8. ASSUME NEW j \in Job, GiveUp(j)
     PROVE  RecoverInv'
  BY <1>8 DEF GiveUp
<1>9. ASSUME NEW j \in Job, Truncate(j)
     PROVE  RecoverInv'
  BY <1>9 DEF Truncate
<1>10. ASSUME NEW j \in Job, Fill(j)
     PROVE  RecoverInv'
  BY <1>10 DEF Fill
<1>11. ASSUME NEW j \in Job, TouchDone(j)
     PROVE  RecoverInv'
  BY <1>11 DEF TouchDone
<1>12. CASE PollDone
  BY <1>12 DEF PollDone
<1>13. CASE IfAnalyze
  BY <1>13 DEF IfAnalyze
<1>14. CASE AnalyzeStep
  BY <1>14 DEF AnalyzeStep
<1>15. CASE PatchStep
  BY <1>15 DEF PatchStep, Patching
<1>16. CASE PatchFails
  BY <1>16 DEF PatchFails
<1>17. CASE UpdateStep
  <2>0. step \in 1..4 /\ stage = "update"
    BY <1>17 DEF UpdateStep
  <2>1. \/ step = 4 /\ stage' = "end"
        \/ step # 4 /\ step' = step + 1 /\ stage' = stage
    BY ONLY <1>17, Lengths DEF UpdateStep
  <2>2. CASE step \in 1..2
    <3>1. stage' = "update" /\ step' # 4
      BY ONLY <2>2, <2>0, <2>1
    <3> QED
      BY <1>17, <2>2, <3>1 DEF UpdateStep
  <2>3. CASE step = 3
    <3>1. stage' = "update" /\ "kernel" \in tree => "kernel" \in image'
      BY <1>17, <2>1, <2>3 DEF UpdateStep
    <3> QED
      BY <1>17, <3>1, <2>3 DEF UpdateStep
  <2>4. CASE step = 4
    <3>1. image' = image \cup (tree \cap {"modules"}) /\ stage' = "end"
      BY ONLY <1>17, <2>1, <2>4, UpdateSteps DEF UpdateStep
    <3>2. tree' = tree /\ disturbed' = disturbed
      BY ONLY <1>17 DEF UpdateStep
    <3>3. {<<"crash", "extract">>, <<"crash", "patch">>, <<"tool", "patch">>} \cap disturbed = {} => tree = Parts /\ "kernel" \in image
      BY <2>0, <2>4
    <3>4. tree = Parts /\ "kernel" \in image => image' = {"kernel", "modules"}
      BY ONLY <3>1, TypeOK DEF TypeOK, Parts
    <3> QED
      BY ONLY <3>1, <3>2, <3>3, <3>4 DEF RecoverInv
  <2> QED
    BY ONLY <2>0, <2>2, <2>3, <2>4
<1>18. CASE UpdateMountFails
  BY <1>18 DEF UpdateMountFails
<1>19. CASE Crash
  <2>1. CASE stage = "patch" \/ stage = "extract"
    <3>1. {<<"crash", "extract">>, <<"crash", "patch">>, <<"tool", "patch">>} \cap disturbed' # {}
      BY <1>19, <2>1 DEF Crash
    <3> QED
      BY ONLY <3>1 DEF RecoverInv
  <2>2. CASE stage # "patch" /\ stage # "extract"
    <3>1. tree' = tree
      BY <1>19, <2>2 DEF Crash, Patching
    <3> QED
      BY <1>19, <2>2, <3>1 DEF Crash
  <2> QED
    BY ONLY <2>1, <2>2
<1>20. CASE UNCHANGED vars
  BY <1>20 DEF vars
<1> QED
  BY <1>1, <1>2, <1>3, <1>4, <1>5, <1>6, <1>7, <1>8, <1>9, <1>10,
     <1>11, <1>12, <1>13, <1>14, <1>15, <1>16, <1>17, <1>18, <1>19, <1>20 DEF Next, RunSh, JobStep

\* Unless a run was killed while it extracts or patches, or a compressor
\* failed while it patched, nothing update.sh removes from the image is lost,
\* and a run that ends has put it back: for any number of runs and any other
\* faults (extract.sh:37-41, run.sh:94-97, update.sh:43-57).
THEOREM ImageRecoverable == Spec => []Recoverable
<1>1. Init => ControlInv /\ RecoverInv
  BY ControlInit, RecoverInit
<1>2. ControlInv /\ RecoverInv /\ [Next]_vars => (ControlInv /\ RecoverInv)'
  BY ControlNext, RecoverNext
<1>3. ControlInv /\ RecoverInv => Recoverable
  BY DEF ControlInv, TypeOK, RecoverInv, Recoverable, Parts, Boot
<1> QED
  BY <1>1, <1>2, <1>3, PTL DEF Spec

-----------------------------------------------------------------------------
\* QuietInv.  A step that disturbs has nothing to show; of the others few
\* touch more than one of its parts.

\* QuietInv holds before the first run.
LEMMA QuietInit ==
  ASSUME Init
  PROVE  QuietInv
BY DEF Init, QuietInv, QuietTree, QuietDb, QuietTarget, AllAbsent

\* The tree: only extract.sh changes it.
LEMMA QuietTreeNext ==
  ASSUME ControlInv, QuietInv, [Next]_vars, disturbed' = {}
  PROVE  QuietTree'
<1>0. disturbed = {} => QuietTree
  BY DEF QuietInv
<1> USE <1>0 DEF ControlInv, TypeOK, QuietTree, Idle, Busy, Parts, Boot, jobVars, diskVars
<1>1. CASE Start
  BY <1>1 DEF Start
<1>2. CASE ExtractMount
  BY <1>2 DEF ExtractMount
<1>3. ASSUME NEW p \in Parts, ExtractCopy(p)
     PROVE  QuietTree'
  BY <1>3 DEF ExtractCopy
<1>4. CASE KernelInfo
  BY <1>4 DEF KernelInfo
<1>5. CASE IfPrepare
  BY <1>5 DEF IfPrepare
<1>6. CASE Configure
  BY <1>6 DEF Configure
<1>7. CASE ListObjects
  BY <1>7 DEF ListObjects
<1>8. ASSUME NEW j \in Job, GiveUp(j)
     PROVE  QuietTree'
  BY <1>8 DEF GiveUp
<1>9. ASSUME NEW j \in Job, Truncate(j)
     PROVE  QuietTree'
  BY <1>9 DEF Truncate
<1>10. ASSUME NEW j \in Job, Fill(j)
     PROVE  QuietTree'
  BY <1>10 DEF Fill
<1>11. ASSUME NEW j \in Job, TouchDone(j)
     PROVE  QuietTree'
  BY <1>11 DEF TouchDone
<1>12. CASE PollDone
  BY <1>12 DEF PollDone
<1>13. CASE IfAnalyze
  BY <1>13 DEF IfAnalyze
<1>14. CASE AnalyzeStep
  BY <1>14 DEF AnalyzeStep
<1>15. CASE PatchStep
  BY <1>15 DEF PatchStep, Patching
<1>16. CASE PatchFails
  BY <1>16 DEF PatchFails
<1>17. CASE UpdateStep
  BY <1>17 DEF UpdateStep
<1>18. CASE UpdateMountFails
  BY <1>18 DEF UpdateMountFails
<1>19. CASE Crash
  BY <1>19 DEF Crash
<1>20. CASE UNCHANGED vars
  BY <1>20 DEF vars
<1> QED
  BY <1>1, <1>2, <1>3, <1>4, <1>5, <1>6, <1>7, <1>8, <1>9, <1>10,
     <1>11, <1>12, <1>13, <1>14, <1>15, <1>16, <1>17, <1>18, <1>19, <1>20 DEF Next, RunSh, JobStep

\* The database: each file is written by its job alone.
LEMMA QuietDbNext ==
  ASSUME ControlInv, QuietInv, [Next]_vars, disturbed' = {}
  PROVE  QuietDb'
<1>0. disturbed = {} => QuietTree /\ QuietDb
  BY DEF QuietInv
<1> USE <1>0 DEF ControlInv, TypeOK, QuietDb, QuietTree, AllComplete, AllAbsent, Idle, Busy,
                 jobVars, diskVars
<1>1. CASE Start
  BY <1>1 DEF Start
<1>2. CASE ExtractMount
  BY <1>2 DEF ExtractMount
<1>3. ASSUME NEW p \in Parts, ExtractCopy(p)
     PROVE  QuietDb'
  BY <1>3 DEF ExtractCopy
<1>4. CASE KernelInfo
  BY <1>4 DEF KernelInfo
<1>5. CASE IfPrepare
  BY <1>5 DEF IfPrepare, HasVersion, Parts
<1>6. CASE Configure
  BY <1>6 DEF Configure
<1>7. CASE ListObjects
  BY <1>7, OutputsLength DEF ListObjects, JobsFresh
<1>8. ASSUME NEW j \in Job, GiveUp(j)
     PROVE  QuietDb'
  BY <1>8 DEF GiveUp
<1>9. ASSUME NEW j \in Job, Truncate(j)
     PROVE  QuietDb'
  <2>1. SUFFICES ASSUME NEW k \in Job, NEW i \in 1..Len(Outputs[k]), job'[k] >= 2 * i
                 PROVE  db'[Outputs[k][i]] = "complete"
    BY <1>9 DEF Truncate
  <2>2. job[k] >= 2 * i
    <3>1. /\ job[j] \in Nat /\ job[k] \in Nat /\ job[j] % 2 = 0
          /\ job'[k] = IF k = j THEN job[j] + 1 ELSE job[k]
      BY <1>9 DEF Truncate
    <3> QED
      BY ONLY <2>1, <3>1, OutputsLength, k \in Job, i \in 1..Len(Outputs[k])
  <2>3. db[Outputs[k][i]] = "complete"
    BY <1>9, <2>2 DEF Truncate
  <2>4. Outputs[k][i] # Output(j)
    <3>1. i # job[k] \div 2 + 1
      <4>1. job[k] \in Nat /\ i \in Nat
        BY OutputsLength
      <4> QED
        BY ONLY <2>2, <4>1
    <3>2. /\ job[j] \div 2 + 1 \in 1..Len(Outputs[j])
          /\ Output(j) = Outputs[j][job[j] \div 2 + 1]
      BY <1>9, OutputInRange DEF Truncate
    <3>3. Outputs[k][i] = Outputs[j][job[j] \div 2 + 1] => i = job[k] \div 2 + 1
      BY ONLY <3>2, OutputsDistinct, j \in Job, k \in Job, i \in 1..Len(Outputs[k])
    <3> QED
      BY ONLY <3>1, <3>2, <3>3
  <2> QED
    BY <1>9, <2>3, <2>4, OutputsAreFiles DEF Truncate
<1>10. ASSUME NEW j \in Job, Fill(j)
     PROVE  QuietDb'
  <2>1. SUFFICES ASSUME NEW k \in Job, NEW i \in 1..Len(Outputs[k]), job'[k] >= 2 * i
                 PROVE  db'[Outputs[k][i]] = "complete"
    BY <1>10 DEF Fill
  <2>2. db' = [db EXCEPT ![Output(j)] = "complete"] /\ disturbed = {}
    BY <1>10 DEF Fill
  <2>3. \/ job[k] >= 2 * i
        \/ k = j /\ i = job[j] \div 2 + 1
    BY <1>10, <2>1, OutputsLength DEF Fill
  <2>4. job[k] >= 2 * i => db[Outputs[k][i]] = "complete"
    BY <1>10, <2>2 DEF Fill
  <2>5. k = j /\ i = job[j] \div 2 + 1 => Outputs[k][i] = Output(j)
    BY DEF Output
  <2> QED
    BY <2>2, <2>3, <2>4, <2>5, OutputsAreFiles
<1>11. ASSUME NEW j \in Job, TouchDone(j)
     PROVE  QuietDb'
  BY <1>11 DEF TouchDone
<1>12. CASE PollDone
  BY <1>12, OutputsAreFiles DEF PollDone, DoneAfterOutputs
<1>13. CASE IfAnalyze
  BY <1>13 DEF IfAnalyze, HasVersion
<1>14. CASE AnalyzeStep
  BY <1>14 DEF AnalyzeStep
<1>15. CASE PatchStep
  BY <1>15 DEF PatchStep, Patching
<1>16. CASE PatchFails
  BY <1>16 DEF PatchFails
<1>17. CASE UpdateStep
  BY <1>17 DEF UpdateStep
<1>18. CASE UpdateMountFails
  BY <1>18 DEF UpdateMountFails
<1>19. CASE Crash
  BY <1>19 DEF Crash
<1>20. CASE UNCHANGED vars
  BY <1>20 DEF vars
<1> QED
  BY <1>1, <1>2, <1>3, <1>4, <1>5, <1>6, <1>7, <1>8, <1>9, <1>10,
     <1>11, <1>12, <1>13, <1>14, <1>15, <1>16, <1>17, <1>18, <1>19, <1>20 DEF Next, RunSh, JobStep

\* The analysis: its steps follow each other.
LEMMA QuietTargetNext ==
  ASSUME ControlInv, QuietInv, [Next]_vars, disturbed' = {}
  PROVE  QuietTarget'
<1>0. disturbed = {} => QuietTree /\ QuietTarget
  BY DEF QuietInv
<1> USE <1>0, Lengths DEF ControlInv, TypeOK, StepInRange, QuietTarget, QuietTree, Idle, Busy,
                 jobVars, diskVars
<1>1. CASE Start
  BY <1>1 DEF Start
<1>2. CASE ExtractMount
  BY <1>2 DEF ExtractMount
<1>3. ASSUME NEW p \in Parts, ExtractCopy(p)
     PROVE  QuietTarget'
  BY <1>3 DEF ExtractCopy
<1>4. CASE KernelInfo
  BY <1>4 DEF KernelInfo
<1>5. CASE IfPrepare
  BY <1>5 DEF IfPrepare
<1>6. CASE Configure
  BY <1>6 DEF Configure
<1>7. CASE ListObjects
  BY <1>7 DEF ListObjects
<1>8. ASSUME NEW j \in Job, GiveUp(j)
     PROVE  QuietTarget'
  BY <1>8 DEF GiveUp
<1>9. ASSUME NEW j \in Job, Truncate(j)
     PROVE  QuietTarget'
  BY <1>9 DEF Truncate
<1>10. ASSUME NEW j \in Job, Fill(j)
     PROVE  QuietTarget'
  BY <1>10 DEF Fill
<1>11. ASSUME NEW j \in Job, TouchDone(j)
     PROVE  QuietTarget'
  BY <1>11 DEF TouchDone
<1>12. CASE PollDone
  BY <1>12 DEF PollDone
<1>13. CASE IfAnalyze
  <2>1. HasVersion /\ disturbed = {} /\ target' = target
    BY <1>13 DEF IfAnalyze, HasVersion, Parts
  <2>2. CASE target = {}
    <3>1. stage' = "analyze" /\ step' = 1
      BY <1>13, <2>1, <2>2 DEF IfAnalyze
    <3> QED
      BY <2>1, <2>2, <3>1
  <2>3. CASE target = Range(Analysis)
    <3>1. stage' = "patch"
      BY <1>13, <2>1, <2>3, AnalysisSteps DEF IfAnalyze
    <3> QED
      BY <2>1, <2>3, <3>1
  <2> QED
    BY <1>13, <2>1, <2>2, <2>3 DEF IfAnalyze
<1>14. CASE AnalyzeStep
  BY <1>14 DEF AnalyzeStep
<1>15. CASE PatchStep
  BY <1>15 DEF PatchStep, Patching
<1>16. CASE PatchFails
  BY <1>16 DEF PatchFails
<1>17. CASE UpdateStep
  BY <1>17 DEF UpdateStep
<1>18. CASE UpdateMountFails
  BY <1>18 DEF UpdateMountFails
<1>19. CASE Crash
  BY <1>19 DEF Crash
<1>20. CASE UNCHANGED vars
  BY <1>20 DEF vars
<1> QED
  BY <1>1, <1>2, <1>3, <1>4, <1>5, <1>6, <1>7, <1>8, <1>9, <1>10,
     <1>11, <1>12, <1>13, <1>14, <1>15, <1>16, <1>17, <1>18, <1>19, <1>20 DEF Next, RunSh, JobStep

\* The three parts together.
LEMMA QuietNext ==
  ASSUME ControlInv, QuietInv, [Next]_vars
  PROVE  QuietInv'
BY QuietTreeNext, QuietDbNext, QuietTargetNext DEF QuietInv

\* Undisturbed, patching starts from complete results in every run, however
\* the three jobs of prepare.sh interleave (prepare.sh:39-53, run.sh:107-124).
THEOREM PatchingStartsComplete == Spec => []UndisturbedResultsComplete
<1>1. Init => ControlInv /\ QuietInv
  BY ControlInit, QuietInit
<1>2. ControlInv /\ QuietInv /\ [Next]_vars => (ControlInv /\ QuietInv)'
  BY ControlNext, QuietNext
<1>3. QuietInv => UndisturbedResultsComplete
  BY DEF QuietInv, QuietTree, QuietDb, QuietTarget, UndisturbedResultsComplete,
         Results, AllComplete
<1> QED
  BY <1>1, <1>2, <1>3, PTL DEF Spec

=============================================================================
