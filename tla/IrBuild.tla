------------------------------ MODULE IrBuild ------------------------------
(***************************************************************************)
(* kernel/buildir.py followed by kernel/linkir.py, as prepare_kernel.sh    *)
(* runs them: each starts its compiler or linker commands through a pool   *)
(* of nproc child processes it polls.  A slot of the pool holds a child    *)
(* that was started and not yet seen to end, or None.                      *)
(*                                                                         *)
(* Children outlive the script that started them; the script of the second *)
(* phase has a pool of its own.                                            *)
(***************************************************************************)
EXTENDS Naturals, FiniteSets

CONSTANTS
  BuildCmd,   \* the clang commands buildir.py found
  LinkCmd,    \* the llvm-link commands linkir.py composes
  nproc,      \* the size of a pool
  None

ASSUME PoolAssumption ==
  /\ nproc \in Nat \ {0}
  /\ IsFiniteSet(BuildCmd) /\ IsFiniteSet(LinkCmd)
  /\ BuildCmd \cap LinkCmd = {}
  /\ None \notin BuildCmd \cup LinkCmd

Cmd  == BuildCmd \cup LinkCmd
Slot == 1..nproc

VARIABLES
  script,    \* "buildir", "linkir" or "end": prepare_kernel.sh goes on
  pc,        \* in the script: "loop", "wait" or "reap"
  todo,      \* the commands the script has not come to
  pool,      \* the script's slots
  i,         \* the slot the reaping loop looks at
  running,   \* child processes at work (of both scripts)
  finished   \* child processes that ended

vars == <<script, pc, todo, pool, i, running, finished>>

TypeOK ==
  /\ script \in {"buildir", "linkir", "end"}
  /\ pc \in {"loop", "wait", "reap"}
  /\ todo \in SUBSET Cmd
  /\ pool \in [Slot -> Cmd \cup {None}]
  /\ i \in 1..(nproc + 1)
  /\ running \in SUBSET Cmd
  /\ finished \in SUBSET Cmd

Init ==
  /\ script = "buildir" /\ pc = "loop"
  /\ todo = BuildCmd
  /\ pool = [s \in Slot |-> None]
  /\ i = 1
  /\ running = {} /\ finished = {}

Free(p) == {s \in Slot : p[s] = None}
FirstFree == CHOOSE s \in Free(pool) : \A t \in Free(pool) : s <= t

\* One iteration of the loop over the commands.  Without a free slot the
\* command is passed over: the "if" has no "else".
Launch(c) ==
  /\ script # "end" /\ pc = "loop" /\ c \in todo
  /\ todo' = todo \ {c}
  /\ IF Free(pool) # {}
     THEN /\ pool' = [pool EXCEPT ![FirstFree] = c]
          /\ running' = running \cup {c}
     ELSE UNCHANGED <<pool, running>>
  /\ pc' = IF Free(pool') = {} THEN "wait" ELSE "loop"
  /\ UNCHANGED <<script, i, finished>>

\* Mutant of Poll: the slots are counted from one too low.
PollFromZero ==
  /\ pc = "wait"
  /\ \E s \in Slot : pool[s] \in finished
  /\ pc' = "reap" /\ i' = 0
  /\ UNCHANGED <<script, todo, pool, running, finished>>

\* Mutant of Poll: the loop does not sleep.
PollOnce ==
  /\ pc = "wait"
  /\ pc' = "reap" /\ i' = 1
  /\ UNCHANGED <<script, todo, pool, running, finished>>

\* Mutant of Poll: the condition of the while loop is inverted.
PollInverted ==
  /\ pc = "wait"
  /\ \A s \in Slot : pool[s] \notin finished
  /\ pc' = "reap" /\ i' = 1
  /\ UNCHANGED <<script, todo, pool, running, finished>>

\* The pool is full: sleep until some child has ended.
Poll ==
  /\ pc = "wait"
  /\ \E s \in Slot : pool[s] \in finished
  /\ pc' = "reap" /\ i' = 1
  /\ UNCHANGED <<script, todo, pool, running, finished>>

\* Mutant of Reap: a slot is freed whether its child has ended or not.
ReapAll ==
  /\ pc = "reap" /\ i <= nproc
  /\ pool' = [pool EXCEPT ![i] = None]
  /\ i' = i + 1
  /\ UNCHANGED <<script, pc, todo, running, finished>>

\* The slots are looked at one after the other while children go on ending.
Reap ==
  /\ pc = "reap" /\ i <= nproc
  /\ pool' = IF pool[i] \in finished THEN [pool EXCEPT ![i] = None] ELSE pool
  /\ i' = i + 1
  /\ UNCHANGED <<script, pc, todo, running, finished>>

EndReap ==
  /\ pc = "reap" /\ i > nproc
  /\ pc' = "loop" /\ i' = 1
  /\ UNCHANGED <<script, todo, pool, running, finished>>

\* The last line of the script, map(lambda x: x.wait(), pool), builds a lazy
\* iterator that nobody consumes: the script ends without waiting.
EndScript ==
  /\ script # "end" /\ pc = "loop" /\ todo = {}
  /\ \/ script = "buildir" /\ script' = "linkir" /\ todo' = LinkCmd
     \/ script = "linkir"  /\ script' = "end"    /\ todo' = {}
  /\ pool' = [s \in Slot |-> None]
  /\ UNCHANGED <<pc, i, running, finished>>

ChildExit(c) ==
  /\ c \in running
  /\ running' = running \ {c}
  /\ finished' = finished \cup {c}
  /\ UNCHANGED <<script, pc, todo, pool, i>>

Script == (\E c \in todo : Launch(c)) \/ Poll \/ Reap \/ EndReap \/ EndScript

Next == Script \/ \E c \in running : ChildExit(c)

Spec == Init /\ [][Next]_vars

\* The script is not stopped, and every compiler and linker run ends.
FairSpec == Spec /\ WF_vars(Script) /\ \A c \in Cmd : WF_vars(ChildExit(c))

-----------------------------------------------------------------------------
\* Properties.

\* The commands the current script has come to.
Passed == (IF script = "buildir" THEN BuildCmd ELSE Cmd) \ todo

\* No command is passed over, although a full pool would make the loop do so:
\* every command the script has come to was started, and exactly one pool
\* entry or none stands for it (buildir.py:38-45, linkir.py:46-54).
NoCommandSkipped ==
  script # "end" =>
    /\ Passed = running \cup finished
    /\ running \cap finished = {}
    /\ \A s, t \in Slot : pool[s] = pool[t] /\ pool[s] # None => s = t
    /\ pc = "loop" => Free(pool) # {}

\* A script never has more than nproc children at work.
AtMostNproc ==
  /\ Cardinality(running \cap BuildCmd) <= nproc
  /\ Cardinality(running \cap LinkCmd) <= nproc

\* Both scripts end, and all they started ends, as long as the children do.
EverythingBuilt == <>[](script = "end" /\ finished = Cmd)

\* "Linux kernel in LLVM bitcode is required. Run /kernel/prepare_kernel.sh"
\* (do-driver-model.sh:22): when prepare_kernel.sh is through, the bitcode is
\* there.  The scripts do not wait for their children, so it is not.
BitcodeComplete == script = "end" => finished = Cmd

=============================================================================
