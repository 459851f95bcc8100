---------------------- MODULE EventRegistrationProofs -----------------------
(***************************************************************************)
(* How far registrations that race can overbook an event, for every number *)
(* of users, events, threads and write requests, and every capacity.  The  *)
(* lemmas on the transactions of EventService are in EventOutboxProofs.    *)
(***************************************************************************)
EXTENDS EventRegistration, EventOutboxProofs

USE ConstantsAssumption, RegistrationAssumption

RegShape == RegTypeOK /\ TxShape /\ SessionsOK

LEMMA RegShapeInit == RegInit => RegShape
<1> SUFFICES ASSUME RegInit PROVE RegShape
  OBVIOUS
<1>1. TxShape
  BY TxShapeInit DEF RegInit
<1>2. IdleSession \in Session
  BY DEF IdleSession, Session
<1>3. RegTypeOK
  BY <1>1, <1>2 DEF RegInit, RegTypeOK, TxShape
<1>4. SessionsOK
  BY DEF RegInit, SessionsOK, IdleSession
<1> QED
  BY <1>1, <1>3, <1>4 DEF RegShape

\* The steps that leave the transactions of EventService alone.
LEMMA TxShapeStutters ==
  ASSUME TxShape, UNCHANGED dbVars
  PROVE  TxShape'
BY DEF TxShape, dbVars, TxTypeOK, RowsOfCommitted, TransactionsOK, IdsAreUnique, PendingRow

LEMMA RegShapeStep == RegShape /\ [RegNext]_rvars => RegShape'
<1> SUFFICES ASSUME RegShape, [RegNext]_rvars PROVE RegShape'
  OBVIOUS
<1> USE DEF RegShape
<1>0. /\ IdleSession \in Session /\ IdleSession.pc = "idle"
      /\ \A s \in Sessions : session[s] \in Session
      /\ session \in [Sessions -> Session]
  BY DEF IdleSession, Session, RegTypeOK
<1>1. ASSUME NEW s \in Sessions, NEW e \in EventIds, NEW u \in Users, BeginRegister(s, e, u)
      PROVE  RegShape'
  <2> DEFINE new == [pc |-> "register", event |-> e, user |-> u,
                     capacity |-> Capacity[events[e].content],
                     joined |-> {}, changed |-> FALSE]
  <2>1. events[e].content \in Contents
    BY <1>1 DEF BeginRegister, Found, TxShape, TxTypeOK, EventRow
  <2>2. new \in Session /\ new.pc = "register" /\ new.event = e /\ new.user = u
    BY <2>1 DEF Session
  <2>3. session' = [session EXCEPT ![s] = new] /\ UNCHANGED <<dbVars, registrations>>
    BY <1>1 DEF BeginRegister
  <2> HIDE DEF new
  <2>4. TxShape'
    BY <2>3, TxShapeStutters
  <2> QED
    BY <1>0, <2>2, <2>3, <2>4 DEF RegTypeOK, SessionsOK, TxShape
<1>2. ASSUME NEW s \in Sessions, CommitRegister(s)
      PROVE  RegShape'
  <2> DEFINE e == session[s].event
             u == session[s].user
  <2>1. TxShape'
    BY <1>2, TxShapeStutters DEF CommitRegister
  <2>2. e \in EventIds /\ u \in Users
    BY <1>2 DEF CommitRegister, SessionsOK
  <2>3. \A t \in Sessions : /\ [session[t] EXCEPT !.joined = @ \cup {u}] \in Session
                            /\ [session[t] EXCEPT !.joined = @ \cup {u}].pc = session[t].pc
                            /\ [session[t] EXCEPT !.joined = @ \cup {u}].event = session[t].event
                            /\ [session[t] EXCEPT !.joined = @ \cup {u}].user = session[t].user
    BY <1>0, <2>2 DEF Session
  <2>4. CASE <<e, u>> \in registrations
    BY <1>0, <1>2, <2>1, <2>4 DEF CommitRegister, RegTypeOK, SessionsOK, TxShape
  <2>5. CASE <<e, u>> \notin registrations
    <3>1. registrations' = registrations \cup {<<e, u>>} /\ session' = Joined(s, e, u)
      BY <1>2, <2>5 DEF CommitRegister
    <3> HIDE DEF e, u
    <3>2. session' \in [Sessions -> Session]
      BY <1>0, <2>3, <3>1 DEF Joined
    <3>3. SessionsOK'
      BY <1>0, <2>3, <3>1 DEF Joined, SessionsOK
    <3> QED
      BY <2>1, <2>2, <3>1, <3>2, <3>3 DEF RegTypeOK, TxShape
  <2> QED
    BY <2>4, <2>5
<1>3. ASSUME NEW s \in Sessions, NEW e \in EventIds, NEW u \in Users,
             BeginUnregister(s, e, u)
      PROVE  RegShape'
  <2> DEFINE new == [IdleSession EXCEPT !.pc = "unregister", !.event = e, !.user = u]
  <2>1. new \in Session /\ new.event = e /\ new.user = u
    BY DEF Session, IdleSession
  <2>2. session' = [session EXCEPT ![s] = new] /\ UNCHANGED <<dbVars, registrations>>
    BY <1>3 DEF BeginUnregister
  <2> HIDE DEF new
  <2> QED
    BY <1>0, <2>1, <2>2, TxShapeStutters DEF RegTypeOK, SessionsOK, TxShape
<1>4. ASSUME NEW s \in Sessions, CommitUnregister(s)
      PROVE  RegShape'
  BY <1>0, <1>4, TxShapeStutters DEF CommitUnregister, RegTypeOK, SessionsOK, TxShape
<1>5. ASSUME NEW s \in Sessions, RollbackSession(s)
      PROVE  RegShape'
  BY <1>0, <1>5, TxShapeStutters DEF RollbackSession, RegTypeOK, SessionsOK, TxShape
<1>6. CASE EventStep
  <2>1. TxShape'
    BY <1>6, TxShapeStep DEF EventStep
  <2>2. \A t \in Sessions : /\ [session[t] EXCEPT !.changed = TRUE] \in Session
                            /\ [session[t] EXCEPT !.changed = TRUE].pc = session[t].pc
                            /\ [session[t] EXCEPT !.changed = TRUE].event = session[t].event
                            /\ [session[t] EXCEPT !.changed = TRUE].user = session[t].user
    BY <1>0 DEF Session
  <2>3. session' \in [Sessions -> Session] /\ SessionsOK'
    BY <1>0, <1>6, <2>2 DEF EventStep, SessionsOK
  <2> QED
    BY <1>6, <2>1, <2>3 DEF EventStep, RegTypeOK, TxShape
<1>7. CASE UNCHANGED rvars
  BY <1>7, TxShapeStutters DEF rvars, RegTypeOK, SessionsOK, TxShape
<1> QED
  BY <1>1, <1>2, <1>3, <1>4, <1>5, <1>6, <1>7 DEF RegNext, SessionNext

(***************************************************************************)
(* Type correctness of the registrations, the requests on them and the     *)
(* transactions of EventService that run beside them.                      *)
(***************************************************************************)
THEOREM RegTypeCorrect == RegSpec => []RegTypeOK
<1>1. RegShape => RegTypeOK
  BY DEF RegShape
<1> QED
  BY <1>1, RegShapeInit, RegShapeStep, PTL DEF RegSpec

-----------------------------------------------------------------------------
(***************************************************************************)
(* What a step does to the attendees of an event and to the requests about *)
(* it: unless one user joins, neither set grows except by a request that   *)
(* found room.                                                             *)
(***************************************************************************)
Joins(s) == /\ session[s].pc = "register"
            /\ <<session[s].event, session[s].user>> \notin registrations
            /\ registrations' = registrations \cup {<<session[s].event, session[s].user>>}
            /\ session' = Joined(s, session[s].event, session[s].user)

Starts(s, e) == /\ session[s].pc = "idle"
                /\ HasRoom(e) /\ Found(e)
                /\ UNCHANGED <<dbVars, registrations>>
                /\ session'[s].pc = "register" /\ session'[s].event = e
                /\ session'[s].capacity = Capacity[events[e].content]
                /\ session'[s].joined = {}
                /\ \A t \in Sessions \ {s} : session'[t] = session[t]

\* Requests may end, their users leave, events change; nobody starts or joins.
Shrinks == /\ registrations' \subseteq registrations
           /\ \A t \in Sessions : session'[t].pc = "register" =>
                 /\ session[t].pc = "register"
                 /\ session'[t].event = session[t].event
                 /\ session'[t].capacity = session[t].capacity
                 /\ session'[t].joined = session[t].joined

LEMMA StepKinds ==
  ASSUME RegShape, [RegNext]_rvars
  PROVE  \/ \E s \in Sessions : Joins(s)
         \/ \E s \in Sessions, e \in EventIds : Starts(s, e)
         \/ Shrinks
<1>0. /\ session \in [Sessions -> Session]
      /\ IdleSession.pc = "idle"
  BY DEF RegShape, RegTypeOK, IdleSession
<1>1. ASSUME NEW s \in Sessions, NEW e \in EventIds, NEW u \in Users, BeginRegister(s, e, u)
      PROVE  Starts(s, e)
  BY <1>0, <1>1 DEF BeginRegister, Starts
<1>2. ASSUME NEW s \in Sessions, CommitRegister(s)
      PROVE  Joins(s) \/ Shrinks
  BY <1>0, <1>2 DEF CommitRegister, Joins, Shrinks
<1>3. ASSUME NEW s \in Sessions, NEW e \in EventIds, NEW u \in Users,
             BeginUnregister(s, e, u)
      PROVE  Shrinks
  <2>1. [IdleSession EXCEPT !.pc = "unregister", !.event = e, !.user = u].pc = "unregister"
    BY DEF IdleSession
  <2> QED
    BY <1>0, <1>3, <2>1 DEF BeginUnregister, Shrinks
<1>4. ASSUME NEW s \in Sessions, CommitUnregister(s) \/ RollbackSession(s)
      PROVE  Shrinks
  BY <1>0, <1>4 DEF CommitUnregister, RollbackSession, Shrinks
<1>5. CASE EventStep
  <2>1. \A t \in Sessions :
           LET marked == [session[t] EXCEPT !.changed = TRUE]
           IN  /\ marked.pc = session[t].pc /\ marked.event = session[t].event
               /\ marked.capacity = session[t].capacity /\ marked.joined = session[t].joined
    BY <1>0 DEF Session
  <2> QED
    BY <1>5, <2>1 DEF EventStep, Shrinks
<1>6. CASE UNCHANGED rvars
  BY <1>6 DEF rvars, Shrinks
<1> QED
  BY <1>1, <1>2, <1>3, <1>4, <1>5, <1>6 DEF RegNext, SessionNext

LEMMA FiniteParts ==
  ASSUME NEW e
  PROVE  /\ IsFiniteSet(Of(e)) /\ Cardinality(Of(e)) \in Nat
         /\ IsFiniteSet(Registering(e)) /\ Cardinality(Registering(e)) \in Nat
         /\ Cardinality(Registering(e)) <= Cardinality(Sessions)
         /\ Cardinality(Sessions) \in Nat \ {0}
<1>1. Of(e) \in SUBSET Users /\ Registering(e) \in SUBSET Sessions
  BY DEF Of, Attendees, Registering
<1> QED
  BY <1>1, FS_Subset, FS_CardinalityType, FS_EmptySet

-----------------------------------------------------------------------------
LEMMA OverbookingInit == RegInit => OverbookingIsBounded
<1> SUFFICES ASSUME RegInit, NEW e \in EventIds
             PROVE  Cardinality(Of(e)) + Cardinality(Registering(e))
                       < MaxCapacity + Cardinality(Sessions)
  BY DEF OverbookingIsBounded
<1>1. Registering(e) = {}
  BY DEF RegInit, Registering, IdleSession
<1>2. Cardinality(Of(e)) <= MaxCapacity
  <2>1. CASE e \in Seeded
    BY <2>1 DEF RegInit, Of
  <2>2. CASE e \notin Seeded
    <3>1. Of(e) = {}
      BY <2>2 DEF RegInit, Of, Attendees
    <3> QED
      BY <3>1, FS_EmptySet
  <2> QED
    BY <2>1, <2>2
<1> QED
  BY <1>1, <1>2, FiniteParts, FS_EmptySet

LEMMA OverbookingStep ==
  RegShape /\ OverbookingIsBounded /\ [RegNext]_rvars => OverbookingIsBounded'
<1> SUFFICES ASSUME RegShape, OverbookingIsBounded, [RegNext]_rvars, NEW e \in EventIds
             PROVE  Cardinality(Of(e)') + Cardinality(Registering(e)')
                       < MaxCapacity + Cardinality(Sessions)
  BY DEF OverbookingIsBounded
<1> DEFINE before == Of(e)
           after == Of(e)'
           flying == Registering(e)
           flying2 == Registering(e)'
<1>0. /\ IsFiniteSet(before) /\ Cardinality(before) \in Nat
      /\ IsFiniteSet(flying) /\ Cardinality(flying) \in Nat
      /\ Cardinality(Sessions) \in Nat /\ IsFiniteSet(Users)
      /\ Cardinality(before) + Cardinality(flying) < MaxCapacity + Cardinality(Sessions)
  BY FiniteParts DEF OverbookingIsBounded
<1>00. after \in SUBSET Users /\ flying2 \in SUBSET Sessions
  BY DEF Of, Attendees, Registering
<1>a. /\ Cardinality(after) \in Nat /\ Cardinality(flying2) \in Nat
      /\ Cardinality(flying2) <= Cardinality(Sessions)
  BY <1>00, FS_Subset, FS_CardinalityType
<1>1. ASSUME NEW s \in Sessions, Joins(s)
      PROVE  Cardinality(after) + Cardinality(flying2) < MaxCapacity + Cardinality(Sessions)
  <2> DEFINE f == session[s].event
             u == session[s].user
  <2>0. \A t \in Sessions \ {s} :
           LET noted == [session[t] EXCEPT !.joined = @ \cup {u}]
           IN  noted.pc = session[t].pc /\ noted.event = session[t].event
    BY DEF RegShape, RegTypeOK, Session
  <2>1. flying2 = flying \ {s}
    BY <1>1, <2>0 DEF Joins, Joined, Registering, IdleSession
  <2>2. CASE f = e
    <3>1. u \in Users /\ u \notin before /\ after = before \cup {u} /\ s \in flying
      BY <1>1, <2>2 DEF Joins, Of, Attendees, Registering, RegShape, SessionsOK
    <3>2. Cardinality(after) = Cardinality(before) + 1
      BY <1>0, <3>1, FS_AddElement
    <3>3. Cardinality(flying2) = Cardinality(flying) - 1
      BY <1>0, <2>1, <3>1, FS_RemoveElement
    <3> HIDE DEF before, after, flying, flying2
    <3> QED
      BY <1>0, <3>2, <3>3
  <2>3. CASE f # e
    <3>1. after = before /\ flying2 = flying
      BY <1>1, <2>1, <2>3 DEF Joins, Of, Attendees, Registering
    <3> QED
      BY <1>0, <3>1
  <2> QED
    BY <2>2, <2>3
<1>2. ASSUME NEW s \in Sessions, NEW f \in EventIds, Starts(s, f)
      PROVE  Cardinality(after) + Cardinality(flying2) < MaxCapacity + Cardinality(Sessions)
  <2>1. after = before
    BY <1>2 DEF Starts, Of
  <2>2. CASE f = e
    <3>1. events[e].content \in Contents
      BY <1>2, <2>2 DEF Starts, Found, RegShape, TxShape, TxTypeOK, EventRow
    <3>2. Cardinality(before) < MaxCapacity
      BY <1>0, <1>2, <2>2, <3>1 DEF Starts, HasRoom
    <3> HIDE DEF before, after, flying, flying2
    <3> QED
      BY <1>0, <1>a, <2>1, <3>2
  <2>3. CASE f # e
    <3>1. flying2 = flying
      BY <1>2, <2>3 DEF Starts, Registering
    <3> QED
      BY <1>0, <2>1, <3>1
  <2> QED
    BY <2>2, <2>3
<1>3. ASSUME Shrinks
      PROVE  Cardinality(after) + Cardinality(flying2) < MaxCapacity + Cardinality(Sessions)
  <2>1. after \in SUBSET before /\ flying2 \in SUBSET flying
    BY <1>3 DEF Shrinks, Of, Attendees, Registering
  <2>2. Cardinality(after) <= Cardinality(before) /\ Cardinality(flying2) <= Cardinality(flying)
    BY <1>0, <2>1, FS_Subset
  <2> HIDE DEF before, after, flying, flying2
  <2> QED
    BY <1>0, <1>a, <2>2
<1> QED
  BY <1>1, <1>2, <1>3, StepKinds

(***************************************************************************)
(* Overbooking never exceeds what the threads of the server allow: the     *)
(* unlocked check of registerMember is as wrong as the requests that can   *)
(* overlap, and no worse, even if updates lower the capacity meanwhile.    *)
(***************************************************************************)
THEOREM OverbookingStaysBounded == RegSpec => []OverbookingIsBounded
BY RegShapeInit, RegShapeStep, OverbookingInit, OverbookingStep, PTL DEF RegSpec

-----------------------------------------------------------------------------
\* The attendees that a request in flight counted and that are still there.
Counted(t) == Of(session[t].event) \ session[t].joined

LEMMA CountedShrinks ==
  ASSUME RegShape, NEW t \in Sessions, session[t].pc = "register",
         Counted(t)' \subseteq Counted(t), ExcessNeedsOverlap,
         session'[t].capacity = session[t].capacity
  PROVE  Cardinality(Counted(t)') < session'[t].capacity
<1>1. IsFiniteSet(Counted(t)) /\ Counted(t)' \in SUBSET Counted(t)
  <2>1. Counted(t) \in SUBSET Users
    BY DEF Counted, Of, Attendees
  <2> QED
    BY <2>1, FS_Subset
<1>2. /\ Cardinality(Counted(t)') <= Cardinality(Counted(t))
      /\ Cardinality(Counted(t)') \in Nat /\ Cardinality(Counted(t)) \in Nat
  BY <1>1, FS_Subset, FS_CardinalityType
<1>3. session[t].capacity \in Nat /\ Cardinality(Counted(t)) < session[t].capacity
  BY DEF RegShape, RegTypeOK, Session, ExcessNeedsOverlap, Counted
<1> QED
  BY <1>2, <1>3

LEMMA ExcessStep ==
  RegShape /\ ExcessNeedsOverlap /\ [RegNext]_rvars => ExcessNeedsOverlap'
<1> SUFFICES ASSUME RegShape, ExcessNeedsOverlap, [RegNext]_rvars,
                    NEW t \in Sessions, session'[t].pc = "register"
             PROVE  Cardinality(Counted(t)') < session'[t].capacity
  BY DEF ExcessNeedsOverlap, Counted
<1>1. ASSUME NEW s \in Sessions, Joins(s)
      PROVE  Cardinality(Counted(t)') < session'[t].capacity
  <2> DEFINE e == session[s].event
             u == session[s].user
             noted == [session[t] EXCEPT !.joined = @ \cup {u}]
  <2>0. /\ noted.pc = session[t].pc /\ noted.event = session[t].event
        /\ noted.capacity = session[t].capacity
        /\ noted.joined = session[t].joined \cup {u}
    BY DEF RegShape, RegTypeOK, Session
  <2>1. t # s
    BY <1>1 DEF Joins, Joined, IdleSession
  <2>2. ASSUME NEW f, f = e, t \in Registering(f)
        PROVE  Cardinality(Counted(t)') < session'[t].capacity
    <3>1. session'[t] = noted /\ session[t].event = f /\ session[t].pc = "register"
      BY <1>1, <2>1, <2>2 DEF Joins, Joined, Registering
    <3>2. Of(f)' \subseteq Of(f) \cup {u}
      BY <1>1, <2>2 DEF Joins, Of, Attendees
    <3>3. Counted(t)' = Of(f)' \ (session[t].joined \cup {u})
      BY <2>0, <3>1 DEF Counted, Of
    <3>4. Counted(t)' \subseteq Counted(t)
      BY <3>1, <3>2, <3>3 DEF Counted
    <3> QED
      BY <2>0, <3>1, <3>4, CountedShrinks
  <2>3. CASE t \notin Registering(e)
    <3>1. session'[t] = session[t]
      BY <1>1, <2>1, <2>3 DEF Joins, Joined
    <3>2. session[t].event # e
      BY <2>3, <3>1 DEF Registering
    <3>3. Counted(t)' \subseteq Counted(t)
      BY <1>1, <3>1, <3>2 DEF Joins, Counted, Of, Attendees
    <3> QED
      BY <3>1, <3>3, CountedShrinks
  <2> QED
    BY <2>2, <2>3
<1>2. ASSUME NEW s \in Sessions, NEW f \in EventIds, Starts(s, f)
      PROVE  Cardinality(Counted(t)') < session'[t].capacity
  <2>1. CASE t = s
    <3>1. Counted(t)' = Of(f)
      BY <1>2, <2>1 DEF Starts, Counted, Of, Attendees
    <3> QED
      BY <1>2, <2>1, <3>1 DEF Starts, HasRoom
  <2>2. CASE t # s
    <3>1. session'[t] = session[t] /\ registrations' = registrations
      BY <1>2, <2>2 DEF Starts
    <3>2. Counted(t)' \subseteq Counted(t)
      BY <3>1 DEF Counted, Of, Attendees
    <3> QED
      BY <3>1, <3>2, CountedShrinks
  <2> QED
    BY <2>1, <2>2
<1>3. CASE Shrinks
  <2>1. /\ session[t].pc = "register" /\ session'[t].event = session[t].event
        /\ session'[t].capacity = session[t].capacity
        /\ session'[t].joined = session[t].joined
        /\ registrations' \subseteq registrations
    BY <1>3 DEF Shrinks
  <2>2. Counted(t)' \subseteq Counted(t)
    BY <2>1 DEF Counted, Of, Attendees
  <2> QED
    BY <2>1, <2>2, CountedShrinks
<1> QED
  BY <1>1, <1>2, <1>3, StepKinds

(***************************************************************************)
(* Whoever exceeds the capacity that a request read joined while that      *)
(* request was in flight: requests one after the other respect it.         *)
(***************************************************************************)
THEOREM ExcessAlwaysOverlaps == RegSpec => []ExcessNeedsOverlap
<1>1. RegInit => ExcessNeedsOverlap
  BY DEF RegInit, ExcessNeedsOverlap, IdleSession
<1> QED
  BY <1>1, RegShapeInit, RegShapeStep, ExcessStep, PTL DEF RegSpec

(***************************************************************************)
(* A request joins a deleted event only when the deletion overtook it.     *)
(***************************************************************************)
THEOREM JoinsStayLive == RegSpec => []JoinsLiveEvent
<1>1. RegInit => JoinsLiveEvent
  BY DEF RegInit, JoinsLiveEvent, IdleSession
<1>2. RegShape /\ JoinsLiveEvent /\ [RegNext]_rvars => JoinsLiveEvent'
  <2> SUFFICES ASSUME RegShape, JoinsLiveEvent, [RegNext]_rvars, NEW t \in Sessions,
                      session'[t].pc = "register", ~session'[t].changed
               PROVE  events'[session'[t].event].status = "live"
    BY DEF JoinsLiveEvent
  <2>0. /\ session \in [Sessions -> Session] /\ IdleSession.pc = "idle"
        /\ IdleSession.event = None
    BY DEF RegShape, RegTypeOK, IdleSession
  <2>1. ASSUME NEW s \in Sessions, NEW e \in EventIds, NEW u \in Users,
               BeginRegister(s, e, u)
        PROVE  events'[session'[t].event].status = "live"
    BY <2>0, <2>1 DEF BeginRegister, Found, JoinsLiveEvent, dbVars
  <2>2. CASE UNCHANGED dbVars /\ \A s \in Sessions : session'[s].pc = "register" =>
                /\ session[s].pc = "register" /\ session'[s].event = session[s].event
                /\ session'[s].changed = session[s].changed
    BY <2>2 DEF JoinsLiveEvent, dbVars
  <2>3. ASSUME NEW s \in Sessions, CommitRegister(s)
        PROVE  events'[session'[t].event].status = "live"
    <3> DEFINE noted(q) == [session[q] EXCEPT !.joined = @ \cup {session[s].user}]
    <3>1. \A q \in Sessions : /\ noted(q).pc = session[q].pc
                              /\ noted(q).event = session[q].event
                              /\ noted(q).changed = session[q].changed
      BY <2>0 DEF RegShape, RegTypeOK, Session
    <3>2. \A q \in Sessions : session'[q] \in {session[q], IdleSession, noted(q)}
      BY <2>0, <2>3 DEF CommitRegister, Joined
    <3> HIDE DEF noted
    <3>3. UNCHANGED dbVars
      BY <2>3 DEF CommitRegister
    <3> QED
      BY <2>0, <2>2, <3>1, <3>2, <3>3
  <2>4. ASSUME NEW s \in Sessions, NEW e \in EventIds, NEW u \in Users,
               BeginUnregister(s, e, u)
        PROVE  events'[session'[t].event].status = "live"
    <3>1. [IdleSession EXCEPT !.pc = "unregister", !.event = e, !.user = u].pc
            = "unregister"
      BY DEF IdleSession
    <3> QED
      BY <2>0, <2>2, <2>4, <3>1 DEF BeginUnregister
  <2>5. ASSUME NEW s \in Sessions, CommitUnregister(s) \/ RollbackSession(s)
        PROVE  events'[session'[t].event].status = "live"
    BY <2>0, <2>2, <2>5 DEF CommitUnregister, RollbackSession
  <2>6. CASE EventStep
    <3>1. LET marked == [session[t] EXCEPT !.changed = TRUE]
          IN  marked.pc = session[t].pc /\ marked.event = session[t].event
                /\ marked.changed
      BY <2>0 DEF Session
    <3>2. session[t].event \in EventIds /\ session[t].pc = "register"
      BY <2>6, <3>1 DEF EventStep, RegShape, SessionsOK
    <3>3. session'[t] = session[t] /\ ~Written(session[t].event)
      BY <2>6, <3>1, <3>2 DEF EventStep
    <3> QED
      BY <3>2, <3>3 DEF Written, JoinsLiveEvent
  <2>7. CASE UNCHANGED rvars
    BY <2>2, <2>7 DEF rvars
  <2> QED
    BY <2>1, <2>3, <2>4, <2>5, <2>6, <2>7 DEF RegNext, SessionNext
<1> QED
  BY <1>1, <1>2, RegShapeInit, RegShapeStep, PTL DEF RegSpec

(***************************************************************************)
(* Both together: registerMember goes wrong only where requests overlap.   *)
(***************************************************************************)
THEOREM StaleAlwaysByOverlap == RegSpec => []StaleOnlyByOverlap
<1>1. ExcessNeedsOverlap /\ JoinsLiveEvent => StaleOnlyByOverlap
  BY DEF StaleOnlyByOverlap
<1> QED  BY <1>1, ExcessAlwaysOverlaps, JoinsStayLive, PTL
=============================================================================
