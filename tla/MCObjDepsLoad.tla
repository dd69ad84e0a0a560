--------------------------- MODULE MCObjDepsLoad ---------------------------
(***************************************************************************)
(* Build trees of two objects for ObjDepsLoad.  Functions f, g and h, a    *)
(* global variable v that holds a callback, and init_module as the module  *)
(* symbol the load skips.  o1 is the name of two objects that differ in -  *)
(* and _ only, with an .impnoin file each.                                 *)
(***************************************************************************)
EXTENDS ObjDepsLoad

CONSTANTS o1, o2, k1, f, g, h, v, init_module

F(kind, obj, rows) == [kind |-> kind, obj |-> obj, rows |-> rows]

MCImp   == {{<<f, g>>}, {<<f, h>>, <<g, h>>}, {<<f, g>>, <<f, init_module>>}}
MCNoin  == {{<<f, g>>, <<g, h>>}, {<<f, g>>, <<g, h>>, <<h, f>>, <<h, h>>}}
MCLnk   == {{<<g, v>>}, {<<g, v>>, <<h, v>>, <<init_module, v>>}}
MCCbs   == {{<<v, f>>}, {<<v, g>>, <<v, h>>}}

MCBuilds ==
  {{F("symtab", o1, {<<"T", f>>, <<"t", g>>, <<"U", h>>}),
    F("imptab", o1, imp), F("impnoin", o1, noin), F("symlnk", o1, lnk),
    F("impnoin", o1, {<<h, g>>, <<h, f>>, <<f, v>>}),
    F("symcbs", o2, cbs), F("imptab", o2, {<<h, f>>}),
    F("fptref", o2, {<<h, g>>, <<f, init_module>>}),
    F("mod", k1, {<<o1, o1>>, <<o2, o2>>}), F("nonbc", o2, {})} :
      imp \in MCImp, noin \in MCNoin, lnk \in MCLnk, cbs \in MCCbs}

=============================================================================
