--------------------------- MODULE MCEventOutbox ----------------------------
(***************************************************************************)
(* A small instance of EventOutbox: one partition, so that the news of all *)
(* the events share a log.                                                 *)
(***************************************************************************)
EXTENDS EventOutbox, TLC

CONSTANT p1

MCPartitions == {p1}
MCPartitionOf == [e \in EventIds |-> p1]
=============================================================================
