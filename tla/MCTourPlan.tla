----------------------------- MODULE MCTourPlan -----------------------------
(***************************************************************************)
(* TourPlan over every subset of six works in three rooms and the store,   *)
(* spelled in several ways, with three events and requests that restrict   *)
(* the topics, the era, the technique, the minutes and the number of works.*)
(***************************************************************************)
EXTENDS TourPlan

Work(id, location, topics, era, technique, year, minutes, availability) ==
    [id |-> id, location |-> location, topics |-> topics, era |-> era,
     technique |-> technique, year |-> year, minutes |-> minutes,
     availability |-> availability]

MCCatalogue ==
    {Work(1, "sala_3_vanguardias", {"Retrato"}, "Vanguardias", "OLEO", 1910, 20, "EN_EXHIBICION"),
     Work(2, "Grandes Maestros", {"Retrato", "paisaje"}, "barroco", "Pintura al oleo", 1650, 0,
           "EN_EXHIBICION"),
     Work(3, "Patio Central", {"paisaje"}, "barroco", "escultura", 0, 5, "EN_EXHIBICION"),
     Work(4, "vanguardias", {"retrato"}, "barroco", "escultura", 1905, 10, "EN_EXHIBICION"),
     Work(5, "deposito", {"retrato"}, "barroco", "oleo", 1700, 5, "EN_EXHIBICION"),
     Work(6, "grandes maestros", {"retrato"}, "vanguardia", "oleo", 1920, 15, "EN_EXHIBICION")}

MCNormalized ==
    [t \in {"retrato", "paisaje", "barroco", "vanguardia", "vanguardias", "escultura", "oleo",
            "patio central", "deposito", "grandes maestros"} |-> t]
    @@ "Retrato" :> "retrato" @@ "Vanguardias" :> "vanguardias" @@ "OLEO" :> "oleo"
    @@ "Pintura al oleo" :> "pintura al oleo" @@ "Grandes Maestros" :> "grandes maestros"
    @@ "sala_3_vanguardias" :> "sala 3 vanguardias" @@ "Patio Central" :> "patio central"
    @@ "patio-central" :> "patio central"
    @@ "EN_EXHIBICION" :> "en exhibicion"

MCUnderscored == "patio central" :> "patio_central"

MCAlphabetical == <<"deposito", "patio_central", "sala_1_grandes_maestros", "sala_3_vanguardias">>

MCEventRows ==
    {[id |-> 1, location |-> "Vanguardias", start |-> 115, minutes |-> 10],
     [id |-> 2, location |-> "grandes maestros", start |-> 125, minutes |-> 0],
     [id |-> 3, location |-> "patio-central", start |-> 60, minutes |-> 60]}

MCBodies ==
    [valid : {TRUE}, use_preferences : {TRUE}, topics : {{}, {"Retrato"}},
     eras : {{}, {"Vanguardias"}}, techniques : {{}, {"OLEO"}, {"escultura"}},
     max_duration_minutes : {0, 12, 25, 40}, max_works_count : {0, 2}, start : {100}]
    \cup [valid : BOOLEAN, use_preferences : {FALSE}, topics : {{}}, eras : {{}},
          techniques : {{}}, max_duration_minutes : {30}, max_works_count : {0}, start : {100}]

MCProfiles ==
    {[topics |-> {}, eras |-> {}, techniques |-> {}],
     [topics |-> {"paisaje", "retrato"}, eras |-> {"vanguardia"}, techniques |-> {}],
     [topics |-> {"paisaje"}, eras |-> {}, techniques |-> {"escultura"}]}
=============================================================================
