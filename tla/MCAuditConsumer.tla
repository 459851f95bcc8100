-------------------------- MODULE MCAuditConsumer ---------------------------
(***************************************************************************)
(* A small instance of AuditConsumer: a good message and a malformed one   *)
(* share a partition, and one that the table rejects has its own.          *)
(***************************************************************************)
EXTENDS AuditConsumer

CONSTANTS p1, p2, good, malformed, rejected

MCPartitionOf == [m \in Messages |-> IF m = rejected THEN p2 ELSE p1]
=============================================================================
