--------------------------- MODULE MCClientSession ---------------------------
(***************************************************************************)
(* Two users, a visitor and a curator, in one or two tabs.                 *)
(***************************************************************************)
EXTENDS ClientSession

CONSTANTS visitor, curator

MCRole == [u \in Users |-> IF u = visitor THEN "VISITANTE" ELSE "CURADOR"]
=============================================================================
