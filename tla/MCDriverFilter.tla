--------------------------- MODULE MCDriverFilter ---------------------------
(***************************************************************************)
(* Small images for DriverFilter: three drivers a, b and c, one device.    *)
(* hw.db gives a and b the same or different init functions and            *)
(* signatures; c is in hw.db or only in modules.dep.                       *)
(***************************************************************************)
EXTENDS DriverFilter

CONSTANTS a, b, c, dev, s1, s2, fa, fb, fcon, o1, o2, k1

MCSigMatch  == {<<dev, s1>>}
MCPrefixes  == {<<fa, fb>>}
MCLevelLike == {fcon}
MCEndsWith  == {<<o1, a>>, <<o2, b>>}
MCTails     == {<<a, b>>}

Line(e, m, s) == [entry |-> e, mod |-> m, sig |-> s]
MCHwdb ==
  {<<Line(fa, a, s1), Line(fb, b, s2)>>,
   <<Line(fa, a, s2), Line(fa, b, s1)>>,
   <<Line(fa, a, s1), Line(fb, b, s1), Line(fcon, c, s2)>>,
   <<Line(fb, a, s2), Line(fa, b, s2), Line(fa, a, s2)>>}

Mark(k)    == [style |-> k, mod |-> a, fn |-> fa]
Kmod(m, f) == [style |-> "kmod", mod |-> m, fn |-> f]
Old(f)     == [style |-> "old", mod |-> a, fn |-> f]
Other      == [style |-> "other", mod |-> a, fn |-> fa]
MCSymtab ==
  {<<Mark("start"), Kmod(a, fa), Kmod(b, fb), Kmod(c, fcon), Mark("end")>>,
   <<Mark("start"), Old(fa), Old(fb), Old(fcon), Other, Mark("end"), Kmod(a, fa)>>,
   <<Kmod(b, fb), Mark("start"), Kmod(c, fa), Kmod(c, fb), Kmod(a, fb)>>}

\* The module files with their modules.dep: none, or c needs a
\* and b needs c, compressed in various ways.
MCDisks ==
  {[files |-> {}, deps |-> {}],
   [files |-> {<<a, "ko">>, <<c, "xz">>, <<b, "zst">>},
    deps  |-> {<<<<c, "xz">>, <<a, "ko">>>>, <<<<b, "zst">>, <<c, "xz">>>>}],
   [files |-> {<<b, "ko">>, <<c, "ko">>, <<a, "gz">>},
    deps  |-> {<<<<c, "ko">>, <<a, "gz">>>>, <<<<b, "ko">>, <<c, "ko">>>>}]}

MCOdeps ==
  {[exports |-> ex, globals |-> ex \ {<<o1, fb>>}, imports |-> {<<o1, fb>>} \ ex,
    callers |-> {<<fb, fa, o1>>}, fpref |-> {},
    drv |-> [o \in {o1, o2} |-> IF o = o2 THEN {k1} ELSE {}],
    nonbc |-> {}, linked |-> [o \in {o1, o2} |-> {}]] :
     ex \in {{<<o1, fa>>, <<o2, fb>>}, {<<o1, fa>>, <<o2, fa>>, <<o1, fb>>}}}

MCImages ==
  {[hwdb |-> db, garbled |-> FALSE, hwconf |-> conf, files |-> dk.files, deps |-> dk.deps, noinit |-> ni,
    undef |-> [n \in Name |-> {fb}], symtab |-> st, odeps |-> od] :
     db \in MCHwdb, conf \in {{}, {dev}}, dk \in MCDisks,
     ni \in {{}, {<<b, "ko">>, <<c, "xz">>}}, st \in MCSymtab, od \in MCOdeps}

\* Two more where hw.db is empty or has a line that is cut off.
MCAllImages ==
  MCImages \cup
  LET i == CHOOSE x \in MCImages : TRUE
  IN  {[i EXCEPT !.hwdb = <<>>], [i EXCEPT !.garbled = TRUE]}

=============================================================================
