----------------------------- MODULE MCCompUnit -----------------------------
(***************************************************************************)
(* Three directories, the objects 1 to 5 and the directory unit 9.         *)
(* Expressions: 1 and 2 have one variable, 3 and 4 two, 5 is not satisfied *)
(* by the configurations, 6 cannot be evaluated.                           *)
(***************************************************************************)
EXTENDS CompUnit

MCVar == {"net", "pci", "usb"}

X(v, h, k) == [vars |-> v, holds |-> h, ok |-> k]

MCExpr ==
  (1 :> X({"net"}, {{"net"}}, TRUE)) @@
  (2 :> X({"usb"}, {{}}, TRUE)) @@
  (3 :> X({"net", "usb"}, {{"net"}, {"net", "usb"}}, TRUE)) @@
  (4 :> X({"net", "usb"}, {{"net"}, {}}, TRUE)) @@
  (5 :> X({"net", "pci"}, {{"net", "pci"}}, TRUE)) @@
  (6 :> X({"pci"}, {{}}, FALSE))

R(u, e) == [unit |-> u, expr |-> e]

I(drivers, net, lib, builtin) ==
  [kmax    |-> ("drivers" :> drivers) @@ ("net" :> net) @@ ("lib" :> lib),
   blank   |-> {},
   config  |-> {"net"},
   builtin |-> builtin]

MCInput ==
  ("paired" :> I(<<R(1, 3), R(9, 1), R(3, 2), R(4, 1)>>, <<R(2, 3), R(5, 4)>>,
                 <<R(2, 4), R(5, 2)>>, {1, 2, 3, 4, 5})) @@
  ("loose"  :> I(<<R(4, 3), R(2, 5), R(9, 3)>>, <<R(1, 1), R(3, 0)>>, <<R(5, 2)>>, {})) @@
  ("broken" :> I(<<R(1, 3), R(2, 1)>>, <<R(3, 6)>>, <<R(4, 1)>>, {1, 2, 3})) @@
  ("blank"  :> [I(<<R(1, 3)>>, <<R(2, 3), R(3, 1)>>, <<R(4, 1)>>, {1, 2, 3})
                  EXCEPT !.blank = {"net"}])

=============================================================================
