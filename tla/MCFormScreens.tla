---------------------------- MODULE MCFormScreens ----------------------------
(***************************************************************************)
(* Two tabs, of one user or of two, on any two of the screens that write,  *)
(* over two keys.                                                          *)
(***************************************************************************)
EXTENDS FormScreens, TLC

CONSTANTS tab1, tab2, k1, k2

MCViews == DOMAIN Screen \ {"Home"}
Symmetry == Permutations({tab1, tab2}) \cup Permutations({k1, k2})
=============================================================================
