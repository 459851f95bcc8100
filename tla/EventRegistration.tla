------------------------- MODULE EventRegistration --------------------------
(***************************************************************************)
(* EventRegistrationService of backend-rest: users join and leave events,  *)
(* while the transactions of EventTransactions change and delete them.     *)
(*                                                                         *)
(* A request is one MySQL transaction at REPEATABLE READ.  Everything it   *)
(* reads comes from the snapshot of its first query, and no lock is taken: *)
(* that is one step.  Its INSERT or DELETE reaches the table when the      *)
(* transaction commits: that is the other one.  Other requests run between *)
(* the two.  The primary key of events_registrations is (event, user).     *)
(***************************************************************************)
EXTENDS EventTransactions, FiniteSets

CONSTANTS Users,           \* users with a session
          Sessions,        \* threads of the server: requests served at once
          Capacity,        \* maximumCapacity in the content of an event
          SeedRegistrations,  \* the rows that the database scripts load
          MaxCapacity      \* no event admits more

\* The attendees of an event, when the table holds the rows R.
Attendees(R, e) == {u \in Users : <<e, u>> \in R}

ASSUME RegistrationAssumption ==
    /\ IsFiniteSet(Users) /\ IsFiniteSet(Sessions) /\ Sessions # {}
    /\ Capacity \in [Contents -> Nat]
    /\ MaxCapacity \in Nat
    /\ \A c \in Contents : Capacity[c] <= MaxCapacity
    /\ SeedRegistrations \subseteq Seeded \X Users
    /\ \A e \in Seeded :
          Cardinality(Attendees(SeedRegistrations, e)) <= MaxCapacity

VARIABLES registrations,   \* table events_registrations, as committed
          session          \* what each thread is doing

rvars == <<dbVars, registrations, session>>

(***************************************************************************)
(* A request in flight.  `joined` and `changed` are history: the users that*)
(* joined the event, and whether its row was written, since it was read.   *)
(***************************************************************************)
Session == [pc : {"idle", "register", "unregister"},
            event : EventIds \cup {None},
            user : Users \cup {None},
            capacity : Nat,
            joined : SUBSET Users,
            changed : BOOLEAN]

IdleSession == [pc |-> "idle", event |-> None, user |-> None,
                capacity |-> 0, joined |-> {}, changed |-> FALSE]

RegTypeOK == /\ TxTypeOK
             /\ registrations \subseteq EventIds \X Users
             /\ session \in [Sessions -> Session]

RegInit == /\ TxInit
           /\ registrations = SeedRegistrations
           /\ session = [s \in Sessions |-> IdleSession]

Of(e) == Attendees(registrations, e)

Registering(e) == {s \in Sessions : session[s].pc = "register" /\ session[s].event = e}

-----------------------------------------------------------------------------
(***************************************************************************)
(* registerMember                                                          *)
(***************************************************************************)
\* Mutated forms: one too many fits; a deleted event is found.
RoomForOneMore(e) == Cardinality(Of(e)) <= Capacity[events[e].content]
FoundIncludingDeleted(e) == events[e].status # "absent"

HasRoom(e) == Cardinality(Of(e)) < Capacity[events[e].content]

\* findByIdAndDeletedFalse
Found(e) == events[e].status = "live"

\* The three checks, on one snapshot.
BeginRegister(s, e, u) ==
    /\ session[s].pc = "idle"
    /\ Found(e)
    /\ <<e, u>> \notin registrations
    /\ HasRoom(e)
    /\ session' = [session EXCEPT ![s] =
                      [pc |-> "register", event |-> e, user |-> u,
                       capacity |-> Capacity[events[e].content],
                       joined |-> {}, changed |-> FALSE]]
    /\ UNCHANGED <<dbVars, registrations>>

\* s ends, and the other requests on e record that u has joined it.
Joined(s, e, u) == [t \in Sessions |->
                    IF t = s THEN IdleSession
                    ELSE IF t \in Registering(e)
                         THEN [session[t] EXCEPT !.joined = @ \cup {u}]
                         ELSE session[t]]

CommitRegister(s) ==
    LET e == session[s].event
        u == session[s].user
    IN  /\ session[s].pc = "register"
        /\ IF <<e, u>> \in registrations      \* duplicate key: the insert fails
           THEN /\ session' = [session EXCEPT ![s] = IdleSession]
                /\ UNCHANGED registrations
           ELSE /\ registrations' = registrations \cup {<<e, u>>}
                /\ session' = Joined(s, e, u)
        /\ UNCHANGED dbVars

(***************************************************************************)
(* unregisterMember: the row is there when it is read; when it is deleted  *)
(* it may be gone, and then the request fails.                             *)
(***************************************************************************)
BeginUnregister(s, e, u) ==
    /\ session[s].pc = "idle"
    /\ <<e, u>> \in registrations
    /\ session' = [session EXCEPT ![s] =
                      [IdleSession EXCEPT !.pc = "unregister", !.event = e, !.user = u]]
    /\ UNCHANGED <<dbVars, registrations>>

CommitUnregister(s) ==
    /\ session[s].pc = "unregister"
    /\ registrations' = registrations \ {<<session[s].event, session[s].user>>}
    /\ session' = [session EXCEPT ![s] = IdleSession]
    /\ UNCHANGED dbVars

\* The connection is lost, or the process dies: nothing was written.
RollbackSession(s) ==
    /\ session[s].pc # "idle"
    /\ session' = [session EXCEPT ![s] = IdleSession]
    /\ UNCHANGED <<dbVars, registrations>>

SessionNext == \E s \in Sessions :
                  \/ \E e \in EventIds, u \in Users :
                        BeginRegister(s, e, u) \/ BeginUnregister(s, e, u)
                  \/ CommitRegister(s)
                  \/ CommitUnregister(s)
                  \/ RollbackSession(s)

(***************************************************************************)
(* A step of EventService: it neither looks at the registrations nor       *)
(* touches them, whatever capacity it sets.                                *)
(***************************************************************************)
Written(e) == events'[e] # events[e]

EventStep == /\ TxNext
             /\ session' = [s \in Sessions |->
                               IF session[s].event \in {e \in EventIds : Written(e)}
                               THEN [session[s] EXCEPT !.changed = TRUE]
                               ELSE session[s]]
             /\ UNCHANGED registrations

RegNext == SessionNext \/ EventStep

RegSpec == RegInit /\ [][RegNext]_rvars

-----------------------------------------------------------------------------
\* A request in flight is about some event and some user.
SessionsOK == \A s \in Sessions : session[s].pc # "idle" =>
                 session[s].event \in EventIds /\ session[s].user \in Users

(***************************************************************************)
(* Properties                                                              *)
(***************************************************************************)
(***************************************************************************)
(* However many requests race, and whatever the updates do to the          *)
(* capacity, overbooking is bounded by the threads of the server: the      *)
(* attendees, with those about to be inserted, exceed the largest capacity *)
(* by less than the number of threads.                                     *)
(***************************************************************************)
OverbookingIsBounded ==
    \A e \in EventIds :
        Cardinality(Of(e)) + Cardinality(Registering(e))
            < MaxCapacity + Cardinality(Sessions)

(***************************************************************************)
(* Not counting the users that joined while it is in flight, a request     *)
(* still finds room within the capacity it read: the capacity is exceeded  *)
(* by overlaps and never by a sequence of requests.                        *)
(***************************************************************************)
ExcessNeedsOverlap ==
    \A s \in Sessions : session[s].pc = "register" =>
        Cardinality(Of(session[s].event) \ session[s].joined) < session[s].capacity

(***************************************************************************)
(* Only a deletion that commits while the request is in flight lets a user *)
(* join an event that is deleted.                                          *)
(***************************************************************************)
JoinsLiveEvent ==
    \A s \in Sessions : session[s].pc = "register" /\ ~session[s].changed =>
        events[session[s].event].status = "live"

(***************************************************************************)
(* What a join has read is wrong at its commit only by what other requests *)
(* committed meanwhile: neither a full event nor a deleted one is joined   *)
(* by requests that come one after the other.                              *)
(***************************************************************************)
StaleOnlyByOverlap == ExcessNeedsOverlap /\ JoinsLiveEvent

(***************************************************************************)
(* What registerMember's own comment and the README promise, and the code  *)
(* does not keep when requests overlap: a user joins within the capacity.  *)
(***************************************************************************)
CapacityRespected ==
    [][\A e \in EventIds : \A u \in Of(e)' \ Of(e) :
          Cardinality(Of(e)') <= Capacity[events[e].content]]_rvars
=============================================================================
