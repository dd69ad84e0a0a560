---------------------------- MODULE IrBuildProofs ----------------------------
(***************************************************************************)
(* The process pools of buildir.py and linkir.py, for any number of        *)
(* commands and any pool size: no command is passed over, and a script     *)
(* never has more than nproc children at work.                             *)
(*                                                                         *)
(* NoCommandSkipped is not inductive by itself: that the pool has a free   *)
(* slot when the loop goes on depends on what the reaping loop has seen.   *)
(***************************************************************************)
EXTENDS IrBuild, FiniteSetTheorems, WellFoundedInduction, TLAPS

\* The commands of the script that is running.
Own == IF script = "buildir" THEN BuildCmd ELSE LinkCmd

\* A pool holds commands its own script has started, each once, and every
\* child of the script still at work has a slot.
PoolInv ==
  /\ \A s \in Slot : pool[s] # None =>
       pool[s] \in (Own \ todo) \cap (running \cup finished)
  /\ \A s, t \in Slot : pool[s] = pool[t] /\ pool[s] # None => s = t
  /\ script # "end" => \A c \in running \cap Own : \E s \in Slot : pool[s] = c

\* Between the end of the wait and the end of the reaping loop, some slot is
\* free already or holds an ended child the loop has not come to.
ReapInv ==
  /\ pc = "loop" => Free(pool) # {}
  /\ pc = "reap" => \/ \E s \in Slot : s < i /\ pool[s] = None
                    \/ \E s \in Slot : s >= i /\ pool[s] \in finished
  /\ pc = "reap" => \A s \in Slot : s >= i => pool[s] # None
  /\ pc = "wait" => Free(pool) = {}

StartedInv ==
  /\ script = "buildir" => todo \subseteq BuildCmd
  /\ script = "linkir" => todo \subseteq LinkCmd
  /\ script # "end" => Passed = running \cup finished
  /\ script = "end" => pc = "loop" /\ todo = {}
  /\ running \cap finished = {}
  /\ IsFiniteSet(running)

IInv == TypeOK /\ StartedInv /\ PoolInv /\ ReapInv /\ AtMostNproc

-----------------------------------------------------------------------------
\* Every non-empty set of natural numbers has a least element.
LEMMA LeastExists ==
  ASSUME NEW T \in SUBSET Nat, T # {}
  PROVE  \E s \in T : \A t \in T : s <= t
<1> DEFINE R == OpToRel(<, Nat)
<1>1. IsWellFoundedOn(R, Nat)
  BY NatLessThanWellFounded
<1> HIDE DEF R
<1>2. PICK x \in T : \A y \in T : ~(<<y, x>> \in R)
  BY <1>1, WFMin, Zenon
<1>3. \A y \in T : ~(y < x)
  BY <1>2 DEF R, OpToRel
<1> QED
  BY <1>3

\* pool.index(None) finds a free slot if there is one.
LEMMA FirstFreeIsFree ==
  ASSUME TypeOK, Free(pool) # {}
  PROVE  FirstFree \in Slot /\ pool[FirstFree] = None
<1>1. Free(pool) \in SUBSET Nat
  BY PoolAssumption DEF Free, Slot
<1>2. \E s \in Free(pool) : \A t \in Free(pool) : s <= t
  BY <1>1, LeastExists
<1>3. FirstFree \in Free(pool)
  BY <1>2 DEF FirstFree
<1> QED
  BY <1>3 DEF Free

\* A set of commands that all have a slot is no larger than the pool.
LEMMA PoolBound ==
  ASSUME NEW p, NEW R, \A c \in R : \E s \in Slot : p[s] = c
  PROVE  IsFiniteSet(R) /\ Cardinality(R) <= nproc
<1> DEFINE f == [c \in R |-> CHOOSE s \in Slot : p[s] = c]
<1>1. \A c \in R : f[c] \in Slot /\ p[f[c]] = c
  OBVIOUS
<1> HIDE DEF f
<1>2. f \in [R -> Slot]
  BY <1>1 DEF f
<1>3. f \in Injection(R, Slot)
  BY <1>1, <1>2 DEF Injection, IsInjective
<1>4. IsFiniteSet(Slot) /\ Cardinality(Slot) = nproc
  BY FS_Interval, PoolAssumption DEF Slot
<1> QED
  BY <1>3, <1>4, FS_Injection

\* Losing children at work keeps a pool within its bound.
LEMMA FewerRunning ==
  ASSUME NEW R, NEW Q, NEW C, IsFiniteSet(R), Q \subseteq R,
         Cardinality(R \cap C) <= nproc
  PROVE  IsFiniteSet(Q) /\ Cardinality(Q \cap C) <= nproc
<1>1. IsFiniteSet(Q) /\ IsFiniteSet(R \cap C)
  BY FS_Subset
<1>2. Cardinality(Q \cap C) <= Cardinality(R \cap C) /\ IsFiniteSet(Q \cap C)
  BY <1>1, FS_Subset, Q \cap C \in SUBSET (R \cap C)
<1>3. Cardinality(Q \cap C) \in Nat /\ Cardinality(R \cap C) \in Nat
  BY <1>1, <1>2, FS_CardinalityType
<1> QED
  BY <1>1, <1>2, <1>3, PoolAssumption

-----------------------------------------------------------------------------
\* The invariant holds before buildir.py has started a child.
LEMMA InitInv == Init => IInv
<1> SUFFICES ASSUME Init PROVE IInv
  OBVIOUS
<1>1. TypeOK
  BY PoolAssumption DEF Init, TypeOK, Cmd, Slot
<1>2. 1 \in Slot
  BY PoolAssumption DEF Slot
<1>3. ReapInv
  BY <1>2 DEF Init, ReapInv, Free
<1>4. StartedInv /\ PoolInv /\ AtMostNproc
  BY FS_EmptySet, PoolAssumption
  DEF Init, StartedInv, PoolInv, AtMostNproc, Passed, Own
<1> QED
  BY <1>1, <1>3, <1>4 DEF IInv

\* Starting a command: the loop only comes here with a free slot, so nothing
\* is passed over, and the new child takes the slot.
LEMMA LaunchInv ==
  ASSUME IInv, NEW c \in todo, Launch(c)
  PROVE  IInv'
<1> USE DEF IInv
<1> DEFINE s0 == FirstFree
<1>1. Free(pool) # {} /\ script \in {"buildir", "linkir"} /\ c \in Cmd /\ c # None
  BY PoolAssumption DEF Launch, ReapInv, TypeOK, Cmd
<1>2. s0 \in Slot /\ pool[s0] = None
  BY <1>1, FirstFreeIsFree
<1>3. /\ pool' = [pool EXCEPT ![s0] = c]
      /\ running' = running \cup {c}
      /\ todo' = todo \ {c}
      /\ UNCHANGED <<script, i, finished>>
      /\ pc' = IF Free(pool') = {} THEN "wait" ELSE "loop"
  BY <1>1 DEF Launch
<1> HIDE DEF s0
<1>4. /\ pool'[s0] = c
      /\ \A s \in Slot : s # s0 => pool'[s] = pool[s]
  BY <1>2, <1>3 DEF TypeOK
<1>5. TypeOK'
  BY <1>1, <1>2, <1>3 DEF TypeOK
<1>6. c \in Own /\ Own' = Own /\ c \notin running \cup finished
  BY <1>1, <1>3, PoolAssumption DEF StartedInv, Own, Passed, Cmd
<1>7. IsFiniteSet(running')
  BY <1>3, FS_AddElement DEF StartedInv
<1>8. StartedInv'
  <2>1. Passed' = Passed \cup {c}
    BY <1>1, <1>3, PoolAssumption DEF Passed, StartedInv, Cmd
  <2> QED
    BY <1>1, <1>3, <1>6, <1>7, <2>1 DEF StartedInv
<1>9. PoolInv'
  <2>1. \A s \in Slot : pool'[s] # None =>
          pool'[s] \in (Own' \ todo') \cap (running' \cup finished')
    BY <1>3, <1>4, <1>6 DEF PoolInv
  <2>2. \A s \in Slot : s # s0 => pool'[s] # c
    BY <1>1, <1>4, <1>6 DEF PoolInv
  <2>3. \A s, t \in Slot : pool'[s] = pool'[t] /\ pool'[s] # None => s = t
    BY <1>4, <2>2 DEF PoolInv
  <2>4. \A d \in running' \cap Own' : \E s \in Slot : pool'[s] = d
    <3> SUFFICES ASSUME NEW d \in running \cap Own PROVE \E s \in Slot : pool'[s] = d
      BY <1>2, <1>3, <1>4, <1>6
    <3>1. PICK s \in Slot : pool[s] = d
      BY <1>1 DEF PoolInv
    <3>2. d # None
      BY PoolAssumption DEF TypeOK, Cmd
    <3> QED
      BY <1>2, <1>4, <3>1, <3>2
  <2> QED
    BY <2>1, <2>3, <2>4 DEF PoolInv
<1>10. ReapInv'
  BY <1>3 DEF ReapInv
<1>11. AtMostNproc'
  <2>1. Cardinality(running' \cap Own') <= nproc
    <3>1. \A d \in running' \cap Own' : \E s \in Slot : pool'[s] = d
      BY <1>1, <1>3, <1>9 DEF PoolInv
    <3> QED
      BY <3>1, PoolBound, Zenon
  <2>2. CASE script = "buildir"
    <3>1. (running \cap LinkCmd)' = running \cap LinkCmd
      BY <1>3, <1>6, <2>2, PoolAssumption DEF Own
    <3> QED
      BY <1>3, <2>1, <2>2, <3>1 DEF AtMostNproc, Own
  <2>3. CASE script = "linkir"
    <3>1. (running \cap BuildCmd)' = running \cap BuildCmd
      BY <1>3, <1>6, <2>3, PoolAssumption DEF Own
    <3> QED
      BY <1>3, <2>1, <2>3, <3>1 DEF AtMostNproc, Own
  <2> QED
    BY <1>1, <2>2, <2>3
<1> QED
  BY <1>5, <1>8, <1>9, <1>10, <1>11

\* The wait ends with an ended child in some slot: the reaping loop starts
\* with one to find.
LEMMA PollInv == IInv /\ Poll => IInv'
<1> SUFFICES ASSUME IInv, Poll PROVE IInv'
  OBVIOUS
<1> USE DEF IInv, Poll
<1>1. TypeOK'
  BY PoolAssumption DEF TypeOK
<1>2. StartedInv' /\ PoolInv' /\ AtMostNproc'
  BY DEF StartedInv, PoolInv, AtMostNproc, Passed, Own
<1>3. ReapInv'
  BY PoolAssumption DEF ReapInv, Free, Slot
<1> QED
  BY <1>1, <1>2, <1>3

\* Reaping frees a slot whose child has ended, and steps past the others.
LEMMA ReapStepInv == IInv /\ Reap => IInv'
<1> SUFFICES ASSUME IInv, Reap PROVE IInv'
  OBVIOUS
<1> USE DEF IInv, Reap
<1>1. i \in Slot /\ i \in Nat /\ i' = i + 1
  BY PoolAssumption DEF TypeOK, Slot
<1>2. \A s \in Slot : pool'[s] = IF s = i /\ pool[i] \in finished THEN None ELSE pool[s]
  BY <1>1 DEF TypeOK
<1>3. TypeOK'
  BY <1>1, PoolAssumption DEF TypeOK, Slot
<1>4. StartedInv' /\ AtMostNproc'
  BY DEF StartedInv, AtMostNproc, Passed
<1>5. PoolInv'
  <2>1. \A s, t \in Slot : pool'[s] = pool'[t] /\ pool'[s] # None => s = t
    BY <1>2 DEF PoolInv
  <2>2. \A s \in Slot : pool'[s] # None =>
          pool'[s] \in (Own' \ todo') \cap (running' \cup finished')
    BY <1>2 DEF PoolInv, Own
  <2>3. script' # "end" => \A c \in running' \cap Own' : \E s \in Slot : pool'[s] = c
    <3> SUFFICES ASSUME script # "end", NEW c \in running \cap Own
                 PROVE  \E s \in Slot : pool'[s] = c
      BY DEF Own
    <3>1. PICK s \in Slot : pool[s] = c
      BY DEF PoolInv
    <3>2. pool[s] \notin finished
      BY <3>1 DEF StartedInv
    <3> QED
      BY <1>2, <3>1, <3>2
  <2> QED
    BY <2>1, <2>2, <2>3 DEF PoolInv
<1>6. ReapInv'
  <2>1. \A s \in Slot : s \in Nat
    BY PoolAssumption DEF Slot
  <2>2. \/ \E s \in Slot : s < i' /\ pool'[s] = None
        \/ \E s \in Slot : s >= i' /\ pool'[s] \in finished
    <3>1. CASE \E s \in Slot : s < i /\ pool[s] = None
      BY <1>1, <1>2, <2>1, <3>1
    <3>2. CASE pool[i] \in finished
      BY <1>1, <1>2, <3>2
    <3>3. CASE pool[i] \notin finished /\ \E s \in Slot : s >= i /\ pool[s] \in finished
      <4>1. PICK s \in Slot : s >= i /\ pool[s] \in finished
        BY <3>3
      <4>2. s # i /\ s >= i'
        BY <1>1, <2>1, <3>3, <4>1
      <4> QED
        BY <1>2, <4>1, <4>2
    <3> QED
      BY <3>1, <3>2, <3>3 DEF ReapInv
  <2>3. \A s \in Slot : s >= i' => pool'[s] # None
    BY <1>1, <1>2, <2>1 DEF ReapInv
  <2> QED
    BY <2>2, <2>3 DEF ReapInv
<1> QED
  BY <1>3, <1>4, <1>5, <1>6

\* When every slot was looked at, one of them is free: the loop over the
\* commands can go on.
LEMMA EndReapInv == IInv /\ EndReap => IInv'
<1> SUFFICES ASSUME IInv, EndReap PROVE IInv'
  OBVIOUS
<1> USE DEF IInv, EndReap
<1>1. TypeOK'
  BY PoolAssumption DEF TypeOK
<1>2. StartedInv' /\ PoolInv' /\ AtMostNproc'
  BY DEF StartedInv, PoolInv, AtMostNproc, Passed, Own
<1>3. \E s \in Slot : pool[s] = None
  BY PoolAssumption DEF ReapInv, Slot, TypeOK
<1>4. ReapInv'
  BY <1>3 DEF ReapInv, Free
<1> QED
  BY <1>1, <1>2, <1>4

\* The next script starts with an empty pool and with none of its commands
\* started.
LEMMA EndScriptInv == IInv /\ EndScript => IInv'
<1> SUFFICES ASSUME IInv, EndScript PROVE IInv'
  OBVIOUS
<1> USE DEF IInv, EndScript
<1>1. TypeOK'
  BY PoolAssumption DEF TypeOK, Cmd
<1>2. \A s \in Slot : pool'[s] = None
  OBVIOUS
<1>3. 1 \in Slot
  BY PoolAssumption DEF Slot
<1>4. ReapInv' /\ AtMostNproc'
  BY <1>2, <1>3 DEF ReapInv, Free, AtMostNproc
<1>5. StartedInv'
  BY PoolAssumption DEF StartedInv, Passed, Cmd
<1>6. PoolInv'
  <2>1. script' = "linkir" => running' \cap Own' = {}
    BY PoolAssumption DEF StartedInv, Passed, Own, Cmd
  <2> QED
    BY <1>2, <2>1 DEF PoolInv
<1> QED
  BY <1>1, <1>4, <1>5, <1>6

\* A child that ends stays in its slot until it is reaped.
LEMMA ChildExitInv ==
  ASSUME IInv, NEW c \in running, ChildExit(c)
  PROVE  IInv'
<1> USE DEF IInv, ChildExit
<1>1. TypeOK'
  BY DEF TypeOK
<1>2. AtMostNproc' /\ IsFiniteSet(running')
  BY FewerRunning DEF AtMostNproc, StartedInv
<1>3. StartedInv'
  BY <1>2 DEF StartedInv, Passed
<1>4. PoolInv'
  BY DEF PoolInv, Own
<1>5. ReapInv'
  BY DEF ReapInv, Free
<1> QED
  BY <1>1, <1>2, <1>3, <1>4, <1>5

-----------------------------------------------------------------------------
\* The strengthened invariant of the two process pools.
THEOREM Invariance == Spec => []IInv
<1>1. IInv /\ [Next]_vars => IInv'
  <2> SUFFICES ASSUME IInv, [Next]_vars PROVE IInv'
    OBVIOUS
  <2>1. ASSUME NEW c \in todo, Launch(c) PROVE IInv'
    BY <2>1, LaunchInv
  <2>2. ASSUME NEW c \in running, ChildExit(c) PROVE IInv'
    BY <2>2, ChildExitInv
  <2>3. CASE UNCHANGED vars
    BY <2>3 DEF vars, IInv, TypeOK, StartedInv, PoolInv, ReapInv, AtMostNproc,
                Passed, Own, Free
  <2> QED
    BY <2>1, <2>2, <2>3, PollInv, ReapStepInv, EndReapInv, EndScriptInv
    DEF Next, Script
<1> QED
  BY <1>1, InitInv, PTL DEF Spec

\* The pools keep their types.
THEOREM PoolTypeCorrect == Spec => []TypeOK
<1>1. IInv => TypeOK
  BY DEF IInv
<1> QED
  BY <1>1, Invariance, PTL

\* The loops of buildir.py:38-45 and linkir.py:46-54 start every command they
\* come to, once, for any number of commands and any pool size: a full pool
\* is always waited on until a slot is free.
THEOREM NoneSkipped == Spec => []NoCommandSkipped
<1>1. IInv => NoCommandSkipped
  BY DEF IInv, StartedInv, PoolInv, ReapInv, NoCommandSkipped
<1> QED
  BY <1>1, Invariance, PTL

\* Neither script has more than nproc children at work, although the children
\* of buildir.py may still be running when linkir.py starts its own.
THEOREM PoolBounded == Spec => []AtMostNproc
<1>1. IInv => AtMostNproc
  BY DEF IInv
<1> QED
  BY <1>1, Invariance, PTL

=============================================================================
