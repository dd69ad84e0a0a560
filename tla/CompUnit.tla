------------------------------ MODULE CompUnit ------------------------------
(***************************************************************************)
(* do-comp-unit.sh: which built-in objects are compiled together.  kmax    *)
(* says for each directory under which configuration an object is built    *)
(* (get-obj-kconf-expr.py, kreader-normalize.py); get-build-deps.py keeps  *)
(* the objects the .config builds and pairs each with the later ones whose *)
(* variables it has; gen-dep.py groups the pairs, and load_btobj_deps      *)
(* (gen_objdep.py) turns them round for ObjDeps.                           *)
(*                                                                         *)
(* Units are numbered in the order of their names, expressions in that of  *)
(* their text; expression 0 is True.                                       *)
(***************************************************************************)
EXTENDS Integers, Sequences, FiniteSets, SequencesExt

CONSTANTS
  Dir,      \* the directories kmax is run for
  Object,   \* the units that are objects; the others are directories
  Var,      \* configuration variables
  Expr,     \* expression -> [vars, holds, ok]: its variables, the sets of
            \* variables under which it is true, can Python evaluate it?
  Input     \* name -> [kmax, blank, config, builtin]: what kmax reports for
            \* each directory, the directories whose report has an empty line,
            \* the variables set to y or m, builtin-objs.db

ASSUME UnitAssumption ==
  /\ IsFiniteSet(Dir)
  /\ Object \subseteq Nat /\ IsFiniteSet(Object)
  /\ DOMAIN Expr \subseteq Nat \ {0} /\ IsFiniteSet(DOMAIN Expr)
  /\ \A e \in DOMAIN Expr : /\ Expr[e].vars \subseteq Var
                            /\ Expr[e].holds \subseteq SUBSET Expr[e].vars
  /\ \A i \in DOMAIN Input :
       /\ Input[i].kmax \in [Dir -> Seq([unit : Nat, expr : DOMAIN Expr \cup {0}])]
       /\ Input[i].blank \subseteq Dir

VARIABLES
  stage,     \* the next step of do-comp-unit.sh
  in,        \* the name of the input
  out,       \* directory -> kmax.out, once it is there
  lines,     \* obj-kconf.db, the pairs <<object, expression>>
  obj_z3,    \* object -> its expression
  todo,      \* the tasks of the process pool still to do
  raised,    \* has a task raised an exception?
  sat,       \* the objects whose condition .config satisfies
  found,     \* <<half, id>> -> the ids found for parent id in that half
  dep,       \* builtin-objs.dep: object -> the sequence of those after it
  revdeps    \* what load_btobj_deps makes of it

vars == <<stage, in, out, lines, obj_z3, todo, raised, sat, found, dep, revdeps>>

Halves == {"left", "right"}

TypeOK ==
  /\ stage \in {"kmax", "load", "sat", "gendep", "revdeps", "done"} \cup Halves
  /\ DOMAIN out \subseteq Dir
  /\ lines \subseteq Object \X DOMAIN Expr
  /\ DOMAIN obj_z3 \subseteq Object /\ sat \subseteq DOMAIN obj_z3
  /\ \A k \in DOMAIN found : k[1] \in Halves /\ k[2] < Cardinality(sat)
                             /\ \A c \in found[k] : k[2] < c /\ c < Cardinality(sat)
  /\ DOMAIN dep \subseteq sat /\ DOMAIN revdeps \subseteq sat

Init ==
  /\ stage = "kmax" /\ in \in DOMAIN Input
  /\ out = <<>> /\ lines = {} /\ obj_z3 = <<>> /\ todo = Dir /\ raised = FALSE
  /\ sat = {} /\ found = <<>> /\ dep = <<>> /\ revdeps = <<>>

-----------------------------------------------------------------------------
\* get-obj-kconf-expr.py.

\* kmaxall and kreader write kmax.out; when one fails the file stays empty.
kmaxall_cmd(d) ==
  /\ stage = "kmax" /\ d \in todo
  /\ todo' = todo \ {d}
  /\ \E report \in {Input[in].kmax[d], <<>>} :
       out' = [x \in DOMAIN out \cup {d} |-> IF x = d THEN report ELSE out[x]]
  /\ UNCHANGED <<stage, in, lines, obj_z3, raised, sat, found, dep, revdeps>>

\* Mutant of Normalized: the last record of every file is lost.
NormalizedPerFile(order) ==
  FlattenSeq([i \in DOMAIN order |-> SubSeq(out[order[i]], 1, Len(out[order[i]]) - 1)])

\* kreader-normalize.py reads the files one after the other, in the order find
\* meets them.  A record is stored when the next one begins; nothing stores
\* the last.
Normalized(order) ==
  LET all == FlattenSeq([i \in DOMAIN order |-> out[order[i]]])
  IN  SubSeq(all, 1, Len(all) - 1)

\* Mutant of Kept: directories are not left out.
KeptUnits(r) == r.expr # 0

\* Object files with a condition are printed.
Kept(r) == r.unit \in Object /\ r.expr # 0

\* One of the reports written has an empty line.
BlankLine == \E d \in Input[in].blank : out[d] # <<>>

\* line[0] raises on an empty line before anything is printed, and nobody looks
\* at the exit code; otherwise sort and uniq follow.
Normalize ==
  /\ stage = "kmax" /\ todo = {}
  /\ IF BlankLine THEN lines' = {}
     ELSE \E order \in SetToSeqs(Dir) :
            lines' = {<<r.unit, r.expr>> : r \in {x \in Range(Normalized(order)) : Kept(x)}}
  /\ stage' = "load"
  /\ UNCHANGED <<in, out, obj_z3, todo, raised, sat, found, dep, revdeps>>

-----------------------------------------------------------------------------
\* get-build-deps.py.

\* The last line of an object counts, and only built-in objects do.
LoadExprs ==
  /\ stage = "load"
  /\ LET named == IF Input[in].builtin = {} THEN Object ELSE Input[in].builtin
         objs  == {l[1] : l \in lines} \cap named
         exprs(o) == {l[2] : l \in {x \in lines : x[1] = o}}
     IN  /\ obj_z3' = [o \in objs |-> CHOOSE e \in exprs(o) : \A x \in exprs(o) : x <= e]
         /\ todo' = objs
  /\ stage' = "sat"
  /\ UNCHANGED <<in, out, lines, raised, sat, found, dep, revdeps>>

kcvars(o) == Expr[obj_z3[o]].vars

\* Can the condition of o hold when the variables of V are as in .config?
Sat(o, V) == \E a \in Expr[obj_z3[o]].holds :
               a \cap V = Input[in].config \cap V \cap kcvars(o)

execute_check_sat(o) ==
  /\ stage = "sat" /\ o \in todo
  /\ todo' = todo \ {o}
  /\ raised' = (raised \/ ~Expr[obj_z3[o]].ok)
  /\ sat' = IF Expr[obj_z3[o]].ok /\ Sat(o, kcvars(o)) THEN sat \cup {o} ELSE sat
  /\ UNCHANGED <<stage, in, out, lines, obj_z3, found, dep, revdeps>>

\* pool.map hands an exception on: the script ends with nothing printed, and
\* do-comp-unit.sh goes on.
EndSat ==
  /\ stage = "sat" /\ todo = {}
  /\ stage' = IF raised THEN "gendep" ELSE "left"
  /\ todo' = IF raised THEN {} ELSE 0..(Cardinality(sat) - 1)
  /\ UNCHANGED <<in, out, lines, obj_z3, raised, sat, found, dep, revdeps>>

\* The member of S with n smaller ones in S, and all of them in order.
Nth(S, n) == CHOOSE x \in S : Cardinality({y \in S : y < x}) = n
Sorted(S) == [i \in 1..Cardinality(S) |-> Nth(S, i - 1)]

\* objs_sat, sorted; ids count from 0.
objs_sat(id) == Nth(sat, id)

half == Cardinality(sat) \div 2

\* Mutant of Covers: one variable in common is enough.
CoversSome(p, c) == kcvars(objs_sat(c)) \cap kcvars(objs_sat(p)) # {}

Covers(p, c) == kcvars(objs_sat(c)) \subseteq kcvars(objs_sat(p))

\* Mutant of Candidates: the object in the middle belongs to neither half.
CandidatesGap(h, p) ==
  {c \in (IF h = "left" THEN (p + 1)..(half - 1)
          ELSE (IF p > half THEN p + 1 ELSE half + 1)..(Cardinality(sat) - 1)) : Covers(p, c)}

\* The ids after p, in the left or in the right half, with no further variable.
Candidates(h, p) ==
  {c \in (IF h = "left" THEN (p + 1)..(half - 1)
          ELSE (IF p + 1 > half THEN p + 1 ELSE half)..(Cardinality(sat) - 1)) : Covers(p, c)}

\* The solver looks at a candidate with the parent's variables as in .config.
check_build_deps(p, cands) ==
  {c \in cands : \/ obj_z3[objs_sat(p)] = obj_z3[objs_sat(c)]
                 \/ Sat(objs_sat(c), kcvars(objs_sat(p)))}

CheckHalf(p) ==
  /\ stage \in Halves /\ p \in todo
  /\ todo' = todo \ {p}
  /\ found' = [x \in DOMAIN found \cup {<<stage, p>>} |->
                 IF x = <<stage, p>> THEN check_build_deps(p, Candidates(stage, p))
                 ELSE found[x]]
  /\ UNCHANGED <<stage, in, out, lines, obj_z3, raised, sat, dep, revdeps>>

EndHalf ==
  /\ stage \in Halves /\ todo = {}
  /\ stage' = IF stage = "left" THEN "right" ELSE "gendep"
  /\ todo' = IF stage = "left" THEN 0..(Cardinality(sat) - 1) ELSE {}
  /\ UNCHANGED <<in, out, lines, obj_z3, raised, sat, found, dep, revdeps>>

-----------------------------------------------------------------------------
\* gen-dep.py and load_btobj_deps.

\* The results are printed left half first, so each list is in that order.
GenDep ==
  /\ stage = "gendep"
  /\ LET all(p)    == Sorted(found[<<"left", p>>]) \o Sorted(found[<<"right", p>>])
         parents   == {k[2] : k \in {x \in DOMAIN found : found[x] # {}}}
         id(o)     == CHOOSE p \in parents : objs_sat(p) = o
     IN  dep' = [o \in {objs_sat(p) : p \in parents} |->
                   [i \in DOMAIN all(id(o)) |-> objs_sat(all(id(o))[i])]]
  /\ stage' = "revdeps"
  /\ UNCHANGED <<in, out, lines, obj_z3, todo, raised, sat, found, revdeps>>

load_btobj_deps ==
  /\ stage = "revdeps"
  /\ revdeps' = [c \in UNION {Range(dep[p]) : p \in DOMAIN dep} |->
                   {p \in DOMAIN dep : c \in Range(dep[p])}]
  /\ stage' = "done"
  /\ UNCHANGED <<in, out, lines, obj_z3, todo, raised, sat, found, dep>>

Next ==
  \/ \E d \in Dir : kmaxall_cmd(d)
  \/ Normalize
  \/ LoadExprs
  \/ \E o \in Object : execute_check_sat(o)
  \/ EndSat
  \/ \E p \in 0..(Cardinality(sat) - 1) : CheckHalf(p)
  \/ EndHalf
  \/ GenDep
  \/ load_btobj_deps

Spec == Init /\ [][Next]_vars

-----------------------------------------------------------------------------
\* Properties.

\* Every pair is found once: builtin-objs.dep lists for each object, without
\* repetition, all later built objects whose variables are among its own.  No
\* object falls between the two halves, whatever their number, and the solver
\* turns no candidate down.  When an expression cannot be evaluated there is no
\* pair at all (get-build-deps.py:104-153, 177-209).
PairedOnce ==
  stage \in {"revdeps", "done"} =>
    \A p \in sat :
      LET later == {c \in sat : ~raised /\ p < c /\ kcvars(c) \subseteq kcvars(p)}
      IN  IF p \in DOMAIN dep
          THEN Range(dep[p]) = later /\ Len(dep[p]) = Cardinality(later)
          ELSE later = {}

\* ObjDeps.related looks up the objects of a unit once and does not follow them
\* further; that is enough, for the relation is transitive
\* (gen_objdep.py:35-50, 249-257).
LinkedTransitive ==
  stage = "done" =>
    \A c \in DOMAIN revdeps : \A b \in revdeps[c] :
      b \in DOMAIN revdeps => revdeps[b] \subseteq revdeps[c]

\* At most one record is lost, or else all: whatever order find lists the files
\* in, every object whose directory was analysed gets an expression, except the
\* object of the last record of one directory; but an empty line anywhere in a
\* report leaves obj-kconf.db empty (kreader-normalize.py:15-27, 45-47).
LostOnlyLast ==
  stage # "kmax" =>
    IF BlankLine THEN lines = {}
    ELSE \E last \in {<<>>} \cup {out[d] : d \in Dir} :
           \A d \in Dir : \A i \in DOMAIN out[d] :
             LET r == out[d][i]
             IN  \/ r.unit \notin Object \/ r.expr = 0
                 \/ <<r.unit, r.expr>> \in lines
                 \/ last # <<>> /\ r = last[Len(last)]

\* "Get minimal kernel configuration expressions for each object file"
\* (get-obj-kconf-expr.py:38): every object kmax gives a condition for is in
\* obj-kconf.db.  The object of the last record is not.
EveryObjectHasExpr ==
  stage = "load" /\ ~BlankLine =>
    \A d \in Dir : \A i \in DOMAIN out[d] :
      out[d][i].unit \in Object /\ out[d][i].expr # 0 =>
        out[d][i].unit \in {l[1] : l \in lines}

=============================================================================
