----------------------- MODULE MCNotificationConsumer -----------------------
(***************************************************************************)
(* Small instances of NotificationConsumer: an event's creation and an     *)
(* update of it share a partition, and an invalid message has its own.     *)
(***************************************************************************)
EXTENDS NotificationConsumer, TLC

CONSTANTS p1, p2, created, updated, invalid, e1, u1, u2

MCPartitionOf == [m \in Messages |-> IF m = invalid THEN p2 ELSE p1]
MCEventOf == [m \in Messages |-> e1]
UserSymmetry == Permutations(Users)
=============================================================================
