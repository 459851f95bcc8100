------------------------ MODULE MCEventRegistration -------------------------
(***************************************************************************)
(* A small instance of EventRegistration: the content of an event is its   *)
(* capacity, one place or two, and one user holds a place from the start.  *)
(***************************************************************************)
EXTENDS EventRegistration, TLC

CONSTANTS e1, u1

MCContents == {1, 2}
MCCapacity == [c \in MCContents |-> c]
MCSeedRegistrations == {<<e1, u1>>}

\* The threads are interchangeable, and so are the requests to EventService.
RegistrationSymmetry == Permutations(Sessions) \cup Permutations(Requests)
                          \cup Permutations(Users \ {u1})
=============================================================================
