------------------------------ MODULE TourPlan ------------------------------
(***************************************************************************)
(* A tour of the museum: api-gateway takes a request, asks grpc-users for  *)
(* the visitor's preferences, grpc-works for the works in the order of the *)
(* visit with the time in each room, and grpc-events for the events that   *)
(* the visitor will meet.  The services that answer are pure functions of  *)
(* their tables.  Times are minutes.                                       *)
(***************************************************************************)
EXTENDS Integers, FiniteSets, Sequences, SequencesExt, FiniteSetsExt, TLC

CONSTANTS
    Catalogue,      \* the rows of works
    EventRows,      \* the rows of events that are not deleted
    Bodies,         \* the bodies that a visitor may post
    Profiles,       \* the preferences that grpc-users may answer
    Normalized,     \* normalize_text: lower case, no accents, single spaces
    Underscored,    \* of normalized names: an underscore for every space
    Alphabetical,   \* the canonical names of the rooms in alphabetical order
    TransitionMinutes

ASSUME TourAssumption ==
    /\ TransitionMinutes \in Nat
    /\ IsFiniteSet(Catalogue)
    /\ \A w \in Catalogue : w.id \in Nat /\ w.year \in Int /\ w.minutes \in Int /\ IsFiniteSet(w.topics)
    /\ \A v, w \in Catalogue : v.id = w.id => v = w
    /\ \A b \in Bodies : b.valid => /\ b.max_duration_minutes \in Nat /\ b.max_works_count \in Nat
                                    /\ b.start \in Int
    /\ \A e \in EventRows : e.start \in Int /\ e.minutes \in Nat

VARIABLES
    stage,          \* of the handler: the answer that it awaits
    body,           \* the request
    profile,        \* what grpc-users has for this visitor
    works,          \* the table that grpc-works reads
    preferences,    \* what the handler goes on with
    plan,           \* the answer of grpc-works
    reply           \* the response

vars == <<stage, body, profile, works, preferences, plan, reply>>
-----------------------------------------------------------------------------
(* tour_planner.py: names, filters and scores.                              *)

ROOM_ORDER == [sala_1_grandes_maestros |-> 1, sala_2_impresionismo |-> 2,
               sala_3_vanguardias |-> 3, sala_4_arte_moderno |-> 4]
ERA_ALIASES == "vanguardias" :> "vanguardia" @@ "contemporanea" :> "contemporaneo"
               @@ "arte contemporaneo" :> "contemporaneo"
TECHNIQUE_ALIASES == "pintura al oleo" :> "oleo" @@ "pintura acrilica" :> "acrilico"
LOCATION_ALIASES ==
    "sala 1 grandes maestros" :> "sala_1_grandes_maestros"
    @@ "grandes maestros" :> "sala_1_grandes_maestros"
    @@ "sala 2 impresionismo" :> "sala_2_impresionismo"
    @@ "impresionismo" :> "sala_2_impresionismo"
    @@ "sala 3 vanguardias" :> "sala_3_vanguardias"
    @@ "vanguardias" :> "sala_3_vanguardias"
    @@ "sala 4 arte moderno" :> "sala_4_arte_moderno"
    @@ "arte moderno" :> "sala_4_arte_moderno" @@ "deposito" :> "deposito"

Alias(aliases, text) ==
    LET t == Normalized[text] IN IF t \in DOMAIN aliases THEN aliases[t] ELSE t
canonical_era(text) == Alias(ERA_ALIASES, text)
canonical_technique(text) == Alias(TECHNIQUE_ALIASES, text)
canonical_location(text) ==
    LET t == Normalized[text]
    IN  IF t \in DOMAIN LOCATION_ALIASES THEN LOCATION_ALIASES[t] ELSE Underscored[t]

is_exhibited(w) == Normalized[w.availability] = "en exhibicion"
has_tour_location(w) == canonical_location(w.location) \notin {"", "deposito"}
Minutes(w) == IF w.minutes = 0 THEN 10 ELSE IF w.minutes < 0 THEN 0 ELSE w.minutes
Room(w) == canonical_location(w.location)

ASSUME RoomsAssumption ==
    /\ Alphabetical \in Seq(STRING)
    /\ \A w \in Catalogue : \E i \in DOMAIN Alphabetical : Alphabetical[i] = Room(w)

Canonical(topics, eras, techniques) ==
    [topics |-> {Normalized[t] : t \in topics} \ {""},
     eras |-> {canonical_era(e) : e \in eras} \ {""},
     techniques |-> {canonical_technique(t) : t \in techniques} \ {""}]
TopicMatches(w, f) == Cardinality({Normalized[t] : t \in w.topics} \cap f.topics)
EraMatch(w, f) == IF canonical_era(w.era) \in f.eras THEN 1 ELSE 0
TechniqueMatch(w, f) == IF canonical_technique(w.technique) \in f.techniques THEN 1 ELSE 0

matches_filters(w, f) ==
    /\ f.topics # {} => TopicMatches(w, f) > 0
    /\ f.eras # {} => EraMatch(w, f) = 1
    /\ f.techniques # {} => TechniqueMatch(w, f) = 1

preference_score(w, p) ==
    LET topics == 2 * TopicMatches(w, p)
    IN  (IF topics > 4 THEN 4 ELSE topics) + EraMatch(w, p) + TechniqueMatch(w, p)
relevance_score(w, f, p) ==
    3 * TopicMatches(w, f) + 2 * EraMatch(w, f) + 2 * TechniqueMatch(w, f)
        + preference_score(w, p)

(* Tuples of numbers are compared from the left, as Python does.  Of pairs  *)
(* of such a key and an element, the elements in the order of the keys (as  *)
(* a concatenation, so that TLC sorts once).                                *)
Less(s, t) == \E i \in DOMAIN s : s[i] < t[i] /\ \A j \in 1..(i - 1) : s[j] = t[j]
Before(P, p) == {q \in P : Less(q[1], p[1])}
Sorted(P) ==
    <<>> \o [i \in 1..Cardinality(P) |-> (CHOOSE p \in P : Cardinality(Before(P, p)) = i - 1)[2]]

room_rank(w) == IF Room(w) \in DOMAIN ROOM_ORDER THEN ROOM_ORDER[Room(w)] ELSE 99
room_name(w) == CHOOSE i \in DOMAIN Alphabetical : Alphabetical[i] = Room(w)
Place(w) == <<room_rank(w), room_name(w), IF w.year > 0 THEN w.year ELSE 9999, w.id>>
order_tour(S) ==
    Sorted({<<Place(w), w>> : w \in S})

Rooms(S) == {Room(w) : w \in S}
tour_rooms(ws) ==
    Sorted({<<<<Min({i \in DOMAIN ws : Room(ws[i]) = r})>>, r>> : r \in Rooms(ToSet(ws))})
Duration(S) == MapThenSumSet(Minutes, S)
calculate_total_duration(S) ==
    IF S = {} THEN 0 ELSE Duration(S) + (Cardinality(Rooms(S)) - 1) * TransitionMinutes
-----------------------------------------------------------------------------
(* plan_tour: the best candidates first, each one taken if it still fits.   *)

NothingTaken == [works |-> {}, rooms |-> {}, minutes |-> 0]
CostWithoutTransition(taken, w) == Minutes(w)
CostOfEveryRoom(taken, w) ==
    Minutes(w) + IF Room(w) \notin taken.rooms THEN TransitionMinutes ELSE 0
Cost(taken, w) ==
    Minutes(w) + IF taken.rooms # {} /\ Room(w) \notin taken.rooms THEN TransitionMinutes ELSE 0
Take(taken, w, limits) ==
    IF \/ limits.works > 0 /\ Cardinality(taken.works) >= limits.works
       \/ limits.minutes > 0 /\ taken.minutes + Cost(taken, w) > limits.minutes
    THEN taken
    ELSE [works |-> taken.works \cup {w}, rooms |-> taken.rooms \cup {Room(w)},
          minutes |-> taken.minutes + Cost(taken, w)]

Matching(ws, f) == {w \in ws : is_exhibited(w) /\ has_tour_location(w) /\ matches_filters(w, f)}
Priority(w, f, p) == <<0 - relevance_score(w, f, p), Minutes(w), w.id>>
\* Mutated form: the preferences exclude works.
PreferredCandidates(ws, f, p) ==
    Sorted({<<Priority(w, f, p), w>> : w \in Matching(Matching(ws, f), p)})
Candidates(ws, f, p) ==
    Sorted({<<Priority(w, f, p), w>> : w \in Matching(ws, f)})
plan_tour(ws, f, p, limits) ==
    LET candidates == Candidates(ws, f, p)
        taken[n \in 0..Len(candidates)] ==
            IF n = 0 THEN NothingTaken ELSE Take(taken[n - 1], candidates[n], limits)
    IN  order_tour(taken[Len(candidates)].works)

(* The technique is given up first, then the era too, never the topics; the *)
(* note says what was given up.                                             *)
Relaxed(f, note) ==
    CASE note = "none" -> f
      [] note = "technique" -> [topics |-> f.topics, eras |-> f.eras, techniques |-> {}]
      [] OTHER -> [topics |-> f.topics, eras |-> {}, techniques |-> {}]
Attempts(f) ==
    IF f.techniques = {} THEN IF f.eras = {} THEN <<"none">> ELSE <<"none", "era">>
    ELSE IF f.eras = {} THEN <<"none", "technique">>
    ELSE <<"none", "technique", "technique and era">>
plan_tour_with_fallback(ws, f, p, limits) ==
    LET attempts == Attempts(f)
        plans == [i \in DOMAIN attempts |-> plan_tour(ws, Relaxed(f, attempts[i]), p, limits)]
        found == {i \in DOMAIN attempts : plans[i] # <<>>}
    IN  IF found # {} THEN [works |-> plans[Min(found)], note |-> attempts[Min(found)]]
        ELSE [works |-> <<>>, note |-> IF f.topics # {} THEN "no topic" ELSE "nothing"]
-----------------------------------------------------------------------------
(* tour_schedule.py: what the total has beyond the works is shared out      *)
(* between the changes of room, rounded to minutes.                         *)

StepPerRoom(rooms, spare) ==
    IF Len(rooms) > 1 THEN (2 * spare + Len(rooms)) \div (2 * Len(rooms)) ELSE 0
Step(rooms, spare) ==
    IF Len(rooms) > 1 THEN (2 * spare + Len(rooms) - 1) \div (2 * (Len(rooms) - 1)) ELSE 0
(* The minute at which each of some spans begins, one after the other.      *)
Clock(start, spans) ==
    LET at[i \in 1..(Len(spans) + 1)] == IF i = 1 THEN start ELSE at[i - 1] + spans[i - 1]
    IN  at
build_room_schedule(ws, rooms, total, start) ==
    LET step == Step(rooms, total - Duration(ws))
        stay == [i \in DOMAIN rooms |-> Duration({w \in ws : Room(w) = rooms[i]})]
        cursor == Clock(start, [i \in DOMAIN rooms |-> stay[i] + step])
    IN  [i \in DOMAIN rooms |->
            [room |-> rooms[i], from |-> cursor[i], to |-> cursor[i] + stay[i]]]

search_works_for_tour(f, p, limits, start) ==
    LET found == plan_tour_with_fallback(works, f, p, limits)
        total == calculate_total_duration(ToSet(found.works))
        rooms == tour_rooms(found.works)
        slots == build_room_schedule(ToSet(found.works), rooms, total, start)
    IN  [works |-> found.works, note |-> found.note, minutes |-> total, rooms |-> rooms,
         schedule |-> slots, end |-> IF slots = <<>> THEN start ELSE Last(slots).to]

(* grpc-events: the events that overlap the time in their room; one without *)
(* a duration counts if it begins in that time.                             *)
Touches(e, slot) == e.start <= slot.to /\ e.start + e.minutes >= slot.from
Overlaps(e, slot) ==
    IF e.minutes = 0 THEN slot.from <= e.start /\ e.start < slot.to
    ELSE e.start < slot.to /\ e.start + e.minutes > slot.from
filter_rows_by_room_schedule(slots) ==
    {e \in EventRows : \E i \in DOMAIN slots :
        /\ slots[i].room = canonical_location(e.location)
        /\ slots[i].to > slots[i].from
        /\ Overlaps(e, slots[i])}
-----------------------------------------------------------------------------
(* The handler of POST /tours/plan in api-gateway.                          *)

NoPreferences == [topics |-> {}, eras |-> {}, techniques |-> {}]
NoPlan == [works |-> <<>>, note |-> "none", minutes |-> 0, rooms |-> <<>>,
           schedule |-> <<>>, end |-> 0]
NoReply == [status |-> 0, events |-> {}]
GRPC_TO_HTTP == [INVALID_ARGUMENT |-> 400, NOT_FOUND |-> 404, DEADLINE_EXCEEDED |-> 504,
                 UNAVAILABLE |-> 503, INTERNAL |-> 500]

Criteria == Canonical(body.topics, body.eras, body.techniques)
Limits == [minutes |-> body.max_duration_minutes, works |-> body.max_works_count]
Favourites == Canonical(preferences.topics, preferences.eras, preferences.techniques)

Init ==
    /\ stage = "received"
    /\ body \in Bodies /\ profile \in Profiles /\ works \in SUBSET Catalogue
    /\ preferences = NoPreferences /\ plan = NoPlan /\ reply = NoReply

Reply(status, events) ==
    /\ stage' = "done" /\ reply' = [status |-> status, events |-> events]

(* validateBody refuses, or the handler asks for the preferences, or for    *)
(* the tour.                                                                *)
Receive ==
    /\ stage = "received"
    /\ IF ~body.valid THEN Reply(400, {})
       ELSE stage' = (IF body.use_preferences THEN "profile" ELSE "search") /\ UNCHANGED reply
    /\ UNCHANGED <<body, profile, works, preferences, plan>>

(* loadPreferences: any failure leaves the tour without preferences.        *)
ProfileAnswered ==
    /\ stage = "profile"
    /\ preferences' = profile /\ stage' = "search"
    /\ UNCHANGED <<body, profile, works, plan, reply>>
ProfileFails ==
    /\ stage = "profile"
    /\ preferences' = NoPreferences /\ stage' = "search"
    /\ UNCHANGED <<body, profile, works, plan, reply>>

SearchAnswered ==
    /\ stage = "search"
    /\ plan' = search_works_for_tour(Criteria, Favourites, Limits, body.start)
    /\ IF plan'.rooms # <<>> /\ plan'.schedule # <<>>
       THEN stage' = "events" /\ UNCHANGED reply
       ELSE Reply(200, {})
    /\ UNCHANGED <<body, profile, works, preferences>>

EventsAnswered ==
    /\ stage = "events"
    /\ Reply(200, filter_rows_by_room_schedule(plan.schedule))
    /\ UNCHANGED <<body, profile, works, preferences, plan>>

(* The deadline passes, or the service fails: sendGrpcError.                *)
CallFails(code) ==
    /\ stage \in {"search", "events"}
    /\ Reply(GRPC_TO_HTTP[code], {})
    /\ UNCHANGED <<body, profile, works, preferences, plan>>

Next ==
    \/ Receive \/ ProfileAnswered \/ ProfileFails \/ SearchAnswered \/ EventsAnswered
    \/ \E code \in DOMAIN GRPC_TO_HTTP : CallFails(code)

Spec == Init /\ [][Next]_vars
-----------------------------------------------------------------------------
(* The visitor walks from work to work: the minute at which he reaches each *)
(* one, counting a transition whenever the next work is in another room.    *)
Walk(ws, start) ==
    Clock(start, [i \in DOMAIN ws |->
                    Minutes(ws[i]) + IF i < Len(ws) /\ Room(ws[i + 1]) # Room(ws[i])
                                     THEN TransitionMinutes ELSE 0])
Leaves(ws, start) == Walk(ws, start)[Len(ws) + 1]
WalkingTime(ws) == Leaves(ws, 0)
InRoom(ws, start, r) ==
    LET reaches == Walk(ws, start)
    IN  UNION {reaches[i]..(reaches[i] + Minutes(ws[i]) - 1)
                 : i \in {j \in DOMAIN ws : Room(ws[j]) = r}}

GivenUp ==
    LET attempts == Attempts(Criteria)
    IN  {attempts[i] : i \in {j \in DOMAIN attempts :
                                 \A k \in 1..j : attempts[k] # plan.note}}
Planned == stage = "events" \/ (stage = "done" /\ reply.status = 200)
PlannedWith(p) == plan_tour_with_fallback(works, Criteria, p, Limits)

(* The tour fits the visitor's limits when he walks it in the order of the  *)
(* visit, and takes as long as the answer says: the planner counts rooms,   *)
(* in the order of relevance, where the visitor changes rooms.              *)
TourFitsLimits ==
    Planned =>
        /\ WalkingTime(plan.works) = plan.minutes
        /\ Limits.minutes > 0 => plan.minutes <= Limits.minutes
        /\ Limits.works > 0 => Len(plan.works) <= Limits.works

(* No work that matches was left out although the tour had room for it, and *)
(* a criterion is given up only if none of the works that meet it fits, not *)
(* even alone.                                                              *)
NothingLeftOut ==
    LET TooLong(S) == Limits.minutes > 0 /\ WalkingTime(order_tour(S)) > Limits.minutes
    IN  Planned =>
          /\ Limits.works = 0 \/ Len(plan.works) < Limits.works =>
               \A w \in Matching(works, Relaxed(Criteria, plan.note)) \ ToSet(plan.works) :
                   TooLong(ToSet(plan.works) \cup {w})
          /\ \A note \in GivenUp : \A w \in Matching(works, Relaxed(Criteria, note)) : TooLong({w})

(* Preferences, or their absence because grpc-users failed, only reorder:   *)
(* they never decide which criteria are given up nor whether there is a     *)
(* tour, and without limits they change nothing at all.                     *)
PreferencesOnlyReorder ==
    Planned =>
        /\ plan.note = PlannedWith(NoPreferences).note
        /\ Limits.minutes = 0 /\ Limits.works = 0 =>
             plan.works = PlannedWith(NoPreferences).works

(* The time in each room is the time in which the visitor, walking from     *)
(* work to work, is there, and the tour ends when he leaves the last one.   *)
ScheduleFollowsVisit ==
    Planned =>
        /\ \A i \in DOMAIN plan.schedule :
             LET slot == plan.schedule[i] IN
             slot.from..(slot.to - 1) = InRoom(plan.works, body.start, slot.room)
        /\ {slot.room : slot \in ToSet(plan.schedule)} = Rooms(ToSet(plan.works))
        /\ plan.end = Leaves(plan.works, body.start)

(* The answer has exactly the events that the visitor meets: those that are *)
(* on, or begin, in their room while he is there.                           *)
EventsAreMet ==
    stage = "done" /\ reply.status = 200 =>
        reply.events = {e \in EventRows :
            LET on == IF e.minutes = 0 THEN {e.start} ELSE e.start..(e.start + e.minutes - 1)
            IN  on \cap InRoom(plan.works, body.start, canonical_location(e.location)) # {}}
=============================================================================
