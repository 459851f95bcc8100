---------------------------- MODULE MCPageLoader ----------------------------
(***************************************************************************)
(* Every page of PageLoader, over a table of at most three rows of which   *)
(* one filter selects all, another one some, and an invalid one none.      *)
(***************************************************************************)
EXTENDS PageLoader

CONSTANTS every, some, invalid

MCPages == DOMAIN HookOf
MCSelected == [f \in Filters |->
                 CASE f = every -> 1..MaxRows
                   [] f = some -> 2..3
                   [] f = invalid -> {}]
=============================================================================
