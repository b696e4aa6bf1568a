----------------------------- MODULE MCRouteCatalog -----------------------------
(***************************************************************************)
(* A small instance of RouteCatalog for TLC: lists of two or three stops,  *)
(* in order, out of order and with a gap, and fares for some of them.       *)
(***************************************************************************)
EXTENDS RouteCatalog, TLC

F(a, b, amount) == [from |-> a, to |-> b, amount |-> amount]

MCStopLists == {<<1, 2>>, <<2, 1, 3>>, <<1, 3>>, <<1>>}

MCFareLists == {{}, {F(1, 2, 7)}, {F(1, 3, 9)}, {F(1, 2, 5), F(1, 3, 8)}}

MCSeedStops == <<1, 2, 3>>

MCSeedFares == {F(1, 2, 5)}

Symmetry == Permutations(Calls) \cup Permutations(Tickets)
================================================================================
