---------------------------- MODULE MCCheckFdep ----------------------------
(***************************************************************************)
(* Small kernels for CheckFdep.  Three functions f, g and h of two objects *)
(* o1 and o2; o2 may be linked into a loadable module, may be linked with  *)
(* o1, and may lack bitcode.  Calls and stored addresses vary; an object   *)
(* imports exactly the symbols its functions call and it does not define.  *)
(***************************************************************************)
EXTENDS CheckFdep

CONSTANTS o1, o2, k1, k2, f, g, h

\* Who defines what: f and g in the first object, h in the second or (as two
\* static functions of the same name) in both.
MCExports ==
  {{<<o1, f>>, <<o1, g>>, <<o2, h>>},
   {<<o1, f>>, <<o1, g>>, <<o1, h>>, <<o2, h>>}}

\* Calls <<callee, caller, object of the caller>>.
MCCalls == {<<g, f, o1>>, <<h, g, o1>>, <<f, h, o2>>, <<g, h, o2>>}

\* Stored addresses <<object, function, who stores it>>: by the dead f, by a
\* function that may stay alive, by the function itself.
MCFpref == {{}, {<<o1, g, f>>, <<o1, g, h>>}, {<<o1, g, f>>, <<o2, h, h>>}}

\* The .ko files o2 is linked into: none, one, or all of Ko.
MCDrv == {[o \in {o1, o2} |-> IF o = o2 THEN K ELSE {}] :
            K \in {{}, {CHOOSE k \in Ko : TRUE}, Ko}}

MCLinked == {[o \in {o1, o2} |-> {}],
             [o \in {o1, o2} |-> IF o = o1 THEN {o2} ELSE {}]}

MCTables ==
  {[exports |-> ex,
    globals |-> ex,
    imports |-> {<<c[3], c[1]>> : c \in {u \in cs : <<u[3], u[1]>> \notin ex}},
    callers |-> cs,
    fpref   |-> {t \in fp : <<t[1], t[3]>> \in ex},
    drv |-> dr, nonbc |-> nb, linked |-> ln] :
     ex \in MCExports, cs \in SUBSET MCCalls, fp \in MCFpref,
     dr \in MCDrv, nb \in {{}, {o2}}, ln \in MCLinked}

\* The init function f is given as dead; the check list may also hold the
\* function h that a removed module imports.
MCInputs ==
  {[odeps |-> d, patch_sym |-> {<<o1, f>>}, fdep_checklist |-> list] :
     d \in MCTables, list \in {{<<o1, f>>}, {<<o1, f>>, <<o2, h>>}}}

=============================================================================
