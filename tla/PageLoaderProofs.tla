-------------------------- MODULE PageLoaderProofs --------------------------
(***************************************************************************)
(* For any pages, filters and table: a page that has settled shows what it *)
(* asked for last, and nothing older than its last reload; who reads on to *)
(* the last page has seen all that was there at the start; and no page     *)
(* says that there is nothing before the server has said so.               *)
(***************************************************************************)
EXTENDS PageLoader, FiniteSetTheorems, WellFoundedInduction, TLAPS

(* A request is a record with four fields; its reply may be anything.       *)
IsCall(c) == c = [key |-> c.key, at |-> c.at, refetch |-> c.refetch, reply |-> c.reply]

Types ==
    /\ open \in DOMAIN HookOf
    /\ rows \in Seq(Nat)
    /\ moves \in Nat
    /\ key \in Key /\ key.reload <= moves
    /\ failure \in Key \cup {NoKey}
    /\ loadedKey \in Key \cup {NoKey}
    /\ \A c \in calls : IsCall(c) /\ c.key \in Key
    /\ reloadedAt \in 0..Len(rows)

(* A page that cancels has no other request than those for its key.         *)
CallsAreLatest ==
    hook.cancels /\ open # "WorkDetail" => \A c \in calls : c.key = key /\ ~c.refetch

(* A hook that compares keys sets the content, the error and the loaded key *)
(* together; the profile is left out, whose retry clears the error.         *)
AnswerIsLoaded ==
    hook.keyed /\ open # "Profile" =>
        IF failure = NoKey THEN shown.key = loadedKey ELSE failure = loadedKey

(* The profile asks once at a time, with its error cleared, and does not    *)
(* change its filter: what is loaded is of its key or of an earlier one.    *)
ProfileAsksOnce ==
    open = "Profile" =>
        /\ \A c, d \in calls : c = d
        /\ calls # {} => failure = NoKey /\ loadedKey # key
        /\ loadedKey = key => \/ failure = key
                              \/ failure = NoKey /\ shown.key = key

(* What was loaded, or is on its way, since the last reload is as fresh.    *)
LoadedEarlier == loadedKey # NoKey => loadedKey.reload <= key.reload
RepliesAreFresh ==
    hook.keyed => \A c \in calls : c.reply.ok => c.reply.version >= reloadedAt
ShownIsFresh ==
    hook.keyed /\ loadedKey # NoKey /\ loadedKey.reload = key.reload /\ failure = NoKey =>
        shown.version >= reloadedAt

PageInv ==
    /\ Types /\ CallsAreLatest /\ AnswerIsLoaded /\ ProfileAsksOnce
    /\ LoadedEarlier /\ RepliesAreFresh /\ ShownIsFresh /\ LastRequestWins

(* The rows of a filter after the first n pages, and whether there are any. *)
Offset(n) == n * PageSize
Beyond(f, n) ==
    {rows[i] : i \in {j \in DOMAIN rows : /\ rows[j] \in Selected[f]
                                          /\ Offset(n) < Cardinality(UpTo(f, j))}}
Reaches(f, n) == Offset(n) < Cardinality(All(f))

(* What an answer, or the content that it became, says of its page.         *)
TellsOfPage(k, a) ==
    /\ a.more => Reaches(k.filter, k.page + 1)
    /\ k.page > 0 => a.rows # {}

(* One request at a time, for a page that the table reaches; the rows of    *)
(* the first query are seen, on their way, or on later pages.               *)
PagesFollow ==
    open \in Paged =>
        /\ \A c, d \in calls : c = d
        /\ key.page > 0 => Reaches(key.filter, key.page)
        /\ shown = NoContent \/ (shown.key \in Key /\ TellsOfPage(shown.key, shown))
        /\ failure # NoKey => shown = NoContent
SeenOrBeyond ==
    open \in Paged =>
        /\ atStart \subseteq seen \cup Beyond(key.filter, key.page)
        /\ \A c \in calls : c.reply.ok =>
             LET after == IF c.key.page = 0 /\ seen = {} THEN c.reply.table ELSE atStart IN
             /\ TellsOfPage(c.key, c.reply)
             /\ after \subseteq seen \cup c.reply.rows \cup Beyond(key.filter, key.page + 1)
             /\ ~c.reply.more => after \subseteq seen \cup c.reply.rows
        /\ loadedKey = key /\ failure = NoKey =>
             /\ atStart \subseteq seen \cup Beyond(key.filter, key.page + 1)
             /\ ~shown.more => atStart \subseteq seen

(* A list without keys stops loading with an answer or an error.            *)
WorksAnswered ==
    open = "WorksList" => busy \/ failure # NoKey \/ shown.key # NoKey
-----------------------------------------------------------------------------
(* What the facts of the hooks have in common, page by page.                *)
LEMMA HookFacts ==
    ASSUME open \in DOMAIN HookOf
    PROVE  /\ hook.keyed => hook.cancels /\ ~hook.flagsChange
           /\ hook.keyed /\ open # "Profile" => ~hook.keepsRows /\ ~hook.keepsError
           /\ open = "Profile" => hook.keyed /\ hook.keepsRows /\ hook.keepsError
           /\ open = "WorkDetail" => ~hook.keyed
           /\ open = "TourPlanner" => ~hook.keyed
           /\ open \in Reloading /\ ~hook.keyed => open = "WorkDetail"
           /\ open \in Paged => hook.keyed /\ open # "Profile"
<1> DEFINE Compares(h) == h.keyed /\ h.cancels /\ ~h.flagsChange
           Clears(h) == ~h.keepsRows /\ ~h.keepsError
<1>1. /\ Compares(useEvents) /\ Clears(useEvents)
      /\ Compares(useReport) /\ Clears(useReport)
      /\ Compares(useCompareWorks) /\ Clears(useCompareWorks)
      /\ Compares(useProfile) /\ useProfile.keepsRows /\ useProfile.keepsError
  BY DEF useEvents, useReport, useCompareWorks, useProfile
<1>2. "keyed" \in DOMAIN useEvents
  BY DEF useEvents
<1>3. "keyed" \in DOMAIN useWorks /\ ~useWorks.keyed
  BY <1>2 DEF useWorks
<1>4. ~useExploration.keyed /\ ~useTourPlan.keyed
  BY <1>3 DEF useExploration, useTourPlan
<1>5. /\ open \in {"EventsList", "AuditLogs", "Notifications", "SavedFilters", "EventDetail",
                   "EventForm"} => hook = useEvents
      /\ open = "Profile" => hook = useProfile
      /\ open = "Report" => hook = useReport
      /\ open = "CompareWorks" => hook = useCompareWorks
      /\ open \in {"WorkDetail", "WorksList", "Recommendations"} => hook = useWorks
      /\ open = "Exploration" => hook = useExploration
      /\ open = "TourPlanner" => hook = useTourPlan
  BY DEF hook, HookOf, useEvent, useAuditLogs, useNotifications, useSavedFilters, useWork,
         useRecommendations
<1>6. open \in {"EventsList", "AuditLogs", "Notifications", "SavedFilters", "EventDetail",
                "EventForm", "Profile", "Report", "CompareWorks", "WorkDetail",
                "WorksList", "Recommendations", "Exploration", "TourPlanner"}
  BY DEF HookOf
<1> QED  BY <1>1, <1>3, <1>4, <1>5, <1>6 DEF Paged, Reloading

LEMMA NoKeyIsNoKey == NoKey \notin Key
<1> SUFFICES ASSUME NoKey \in Key PROVE FALSE
  OBVIOUS
<1>1. DOMAIN NoKey = {"filter", "page", "reload"}
  BY DEF Key
<1>2. DOMAIN NoKey = {"filter"}
  BY DEF NoKey
<1> QED  BY <1>1, <1>2

LEMMA CallIsCall ==
    ASSUME NEW k, NEW r
    PROVE  /\ IsCall(Call(k, r))
           /\ Call(k, r).key = k /\ Call(k, r).refetch = r /\ ~Call(k, r).reply.ok
BY DEF IsCall, Call, NoReply

LEMMA RepliedCall ==
    ASSUME NEW c, IsCall(c), NEW r, NEW d, d = [c EXCEPT !.reply = r]
    PROVE  IsCall(d) /\ d.key = c.key /\ d.refetch = c.refetch /\ d.reply = r
<1>1. d = [key |-> c.key, at |-> c.at, refetch |-> c.refetch, reply |-> r]
  BY DEF IsCall
<1> QED  BY <1>1 DEF IsCall

LEMMA AnswerIsNow ==
    ASSUME NEW k
    PROVE  Answer(k).version = Len(rows)
BY Zenon DEF Answer

LEMMA Suffix ==
    ASSUME NEW s \in Seq(Nat), NEW i \in 1..(Len(s) + 1)
    PROVE  /\ SubSeq(s, i, Len(s)) \in Seq(Nat) /\ Len(SubSeq(s, i, Len(s))) = Len(s) - i + 1
           /\ \A m \in 1..(Len(s) - i + 1) : SubSeq(s, i, Len(s))[m] = s[i + m - 1]
<1>1. SubSeq(s, i, Len(s)) \in Seq(Nat)
  OBVIOUS
<1>2. Len(SubSeq(s, i, Len(s))) = Len(s) - i + 1
  OBVIOUS
<1>3. ASSUME NEW m \in 1..(Len(s) - i + 1)
      PROVE  SubSeq(s, i, Len(s))[m] = s[i + m - 1]
  <2>1. m \in 1..(Len(s) + 1 - i)
    OBVIOUS
  <2> QED  BY <2>1
<1> QED  BY <1>1, <1>2, <1>3

LEMMA InsertLengthens ==
    ASSUME NEW s \in Seq(Nat), NEW i \in 1..(Len(s) + 1), NEW e \in Nat
    PROVE  InsertAt(s, i, e) \in Seq(Nat) /\ Len(InsertAt(s, i, e)) = Len(s) + 1
<1>1. SubSeq(s, 1, i - 1) \in Seq(Nat) /\ Len(SubSeq(s, 1, i - 1)) = i - 1
  OBVIOUS
<1>2. SubSeq(s, i, Len(s)) \in Seq(Nat) /\ Len(SubSeq(s, i, Len(s))) = Len(s) - i + 1
  BY Suffix
<1> DEFINE a == SubSeq(s, 1, i - 1)
           b == SubSeq(s, i, Len(s))
<1>3. a \o <<e>> \in Seq(Nat) /\ Len(a \o <<e>>) = i
  BY <1>1
<1>4. (a \o <<e>>) \o b \in Seq(Nat) /\ Len((a \o <<e>>) \o b) = Len(s) + 1
  <2> HIDE DEF a, b
  <2>1. b \in Seq(Nat) /\ Len(b) = Len(s) - i + 1
    BY <1>2 DEF b
  <2> QED  BY <1>3, <2>1
<1> QED  BY <1>4 DEF InsertAt

(* A key that reloads, and one with another filter or page.                 *)
LEMMA NextKeys ==
    ASSUME NEW k \in Key, NEW m \in Nat, k.reload <= m, m < MaxMoves
    PROVE  /\ NextReload(k) \in Key /\ NextReload(k).reload = k.reload + 1
           /\ \A f \in Filters : /\ [k EXCEPT !.filter = f, !.page = 0] \in Key
                                 /\ [k EXCEPT !.filter = f, !.page = 0].reload = k.reload
           /\ \A p \in 0..MaxMoves : /\ [k EXCEPT !.page = p] \in Key
                                     /\ [k EXCEPT !.page = p].reload = k.reload
<1>1. k = [filter |-> k.filter, page |-> k.page, reload |-> k.reload]
      /\ k.filter \in Filters /\ k.page \in 0..MaxMoves /\ k.reload \in 0..MaxMoves
  BY DEF Key
<1>2. MaxMoves \in Nat
  BY LoaderAssumption
<1>3. NextReload(k) = [filter |-> k.filter, page |-> k.page, reload |-> k.reload + 1]
  BY <1>1 DEF NextReload
<1>4. \A f \in Filters : [k EXCEPT !.filter = f, !.page = 0]
                           = [filter |-> f, page |-> 0, reload |-> k.reload]
  <2> TAKE f \in Filters
  <2>1. PICK a : a = [k EXCEPT !.filter = f]
    OBVIOUS
  <2>2. a = [filter |-> f, page |-> k.page, reload |-> k.reload]
    BY <1>1, <2>1
  <2>3. [a EXCEPT !.page = 0] = [filter |-> f, page |-> 0, reload |-> k.reload]
    BY <2>2
  <2> QED  BY <2>1, <2>3
<1>5. \A p \in 0..MaxMoves : [k EXCEPT !.page = p]
                           = [filter |-> k.filter, page |-> p, reload |-> k.reload]
  BY <1>1
<1>6. k.reload + 1 \in 0..MaxMoves /\ 0 \in 0..MaxMoves
  BY <1>1, <1>2
<1>7. NextReload(k) \in Key /\ NextReload(k).reload = k.reload + 1
  BY <1>1, <1>3, <1>6 DEF Key
<1>8. ASSUME NEW f \in Filters
      PROVE  /\ [k EXCEPT !.filter = f, !.page = 0] \in Key
             /\ [k EXCEPT !.filter = f, !.page = 0].reload = k.reload
  <2>1. [filter |-> f, page |-> 0, reload |-> k.reload] \in Key
    BY <1>1, <1>6 DEF Key
  <2> QED  BY <1>4, <2>1
<1>9. ASSUME NEW p \in 0..MaxMoves
      PROVE  [k EXCEPT !.page = p] \in Key /\ [k EXCEPT !.page = p].reload = k.reload
  <2>1. [filter |-> k.filter, page |-> p, reload |-> k.reload] \in Key
    BY <1>1 DEF Key
  <2> QED  BY <1>5, <2>1
<1> QED  BY <1>7, <1>8, <1>9

(* Asking for a new key: the only new request is for it, and what it does   *)
(* not cancel was there before.                                             *)
LEMMA Asked ==
    ASSUME Ask(key')
    PROVE  \E n : /\ IsCall(n) /\ n.key = key' /\ ~n.refetch /\ ~n.reply.ok
                  /\ \A c \in calls' : c = n \/ (c \in calls /\ (hook.cancels => c.refetch))
                  /\ (hook.validates => key'.filter \notin InvalidFilters) => n \in calls'
<1>1. PICK k : k = key'
  OBVIOUS
<1>2. PICK n : n = Call(k, FALSE)
  OBVIOUS
<1>3. calls' = Survivors \cup (IF Valid(k) THEN {n} ELSE {})
  BY <1>1, <1>2 DEF Ask, Valid, Call
<1>4. IsCall(n) /\ n.key = key' /\ ~n.refetch /\ ~n.reply.ok
  BY <1>1, <1>2, CallIsCall
<1>5. Valid(k) <=> (hook.validates => key'.filter \notin InvalidFilters)
  BY <1>1 DEF Valid
<1>6. ASSUME NEW c \in calls'
      PROVE  c = n \/ (c \in calls /\ (hook.cancels => c.refetch))
  BY <1>3 DEF Survivors
<1>7. ASSUME hook.validates => key'.filter \notin InvalidFilters
      PROVE  n \in calls'
  BY <1>3, <1>5, <1>7
<1> QED  BY <1>4, <1>6, <1>7

(* A reload is of a hook that counts it in its key, or of a work.           *)
LEMMA Reloads ==
    ASSUME Types, Reload
    PROVE  /\ hook.keyed => key' = NextReload(key) /\ Ask(key')
           /\ ~hook.keyed => /\ open = "WorkDetail" /\ UNCHANGED key
                             /\ calls' = calls \cup {Call(key, TRUE)}
BY HookFacts DEF Types, Reload
-----------------------------------------------------------------------------
(* Every move that asks for a new key keeps the invariant.                  *)
NewKeyed ==
    /\ key' \in Key /\ moves' \in Nat /\ key'.reload <= moves'
    /\ Ask(key')
    /\ UNCHANGED <<open, rows, loadedKey>>
    /\ reloadedAt' \in 0..Len(rows)
    /\ failure' \in {failure, NoKey}
    /\ hook.keyed /\ open # "Profile" => UNCHANGED <<failure, shown>>
    /\ open = "Profile" => key'.reload = key.reload + 1 /\ failure' = NoKey
    /\ \/ key'.reload = key.reload + 1
       \/ key'.reload = key.reload /\ UNCHANGED reloadedAt

LEMMA NewKeyKeeps ==
    ASSUME PageInv, NewKeyed
    PROVE  PageInv'
<1> USE DEF PageInv, NewKeyed
<1>1. hook' = hook
  BY DEF hook
<1>2. key.reload \in Nat
  BY DEF Types, Key
<1>3. PICK n : /\ IsCall(n) /\ n.key = key' /\ ~n.refetch /\ ~n.reply.ok
               /\ \A c \in calls' : c = n \/ (c \in calls /\ (hook.cancels => c.refetch))
               /\ (hook.validates => key'.filter \notin InvalidFilters) => n \in calls'
  BY Asked
<1>4. hook.cancels /\ open # "WorkDetail" => \A c \in calls' : c = n
  BY <1>3 DEF CallsAreLatest
<1>5. hook.keyed => \A c \in calls' : c = n
  BY <1>4, HookFacts DEF Types
<1>6. Types'
  BY <1>3 DEF Types
<1>7. CallsAreLatest'
  BY <1>1, <1>3, <1>4 DEF CallsAreLatest
<1>8. AnswerIsLoaded'
  BY <1>1 DEF AnswerIsLoaded
<1>9. LoadedEarlier'
  BY <1>2, NoKeyIsNoKey DEF LoadedEarlier, Types, Key
<1>10. ProfileAsksOnce'
  <2> SUFFICES ASSUME open = "Profile" PROVE ProfileAsksOnce'
    BY DEF ProfileAsksOnce
  <2>1. loadedKey # NoKey => loadedKey.reload \in Nat /\ loadedKey.reload < key'.reload
    BY <1>2 DEF LoadedEarlier, Types, Key
  <2>2. loadedKey # key'
    BY <2>1, NoKeyIsNoKey
  <2> QED  BY <1>5, <2>2, HookFacts DEF ProfileAsksOnce, Types
<1>11. RepliesAreFresh'
  BY <1>1, <1>3, <1>5 DEF RepliesAreFresh
<1>12. ShownIsFresh'
  <2> SUFFICES ASSUME hook.keyed, loadedKey # NoKey, loadedKey.reload = key'.reload
               PROVE  failure' = NoKey => shown'.version >= reloadedAt'
    BY <1>1 DEF ShownIsFresh
  <2>1. loadedKey.reload <= key.reload
    BY DEF LoadedEarlier
  <2>2. key'.reload = key.reload /\ UNCHANGED reloadedAt
    BY <1>2, <2>1
  <2>3. UNCHANGED <<failure, shown>>
    BY <1>2, <2>2
  <2> QED  BY <2>2, <2>3 DEF ShownIsFresh
<1>13. LastRequestWins'
  BY <1>1, <1>3 DEF LastRequestWins, Valid
<1> QED  BY <1>6, <1>7, <1>8, <1>9, <1>10, <1>11, <1>12, <1>13

LEMMA ChangeFilterKeeps ==
    ASSUME PageInv, NEW f \in Filters, ChangeFilter(f)
    PROVE  PageInv'
<1>1. key' \in Key /\ key'.reload = key.reload
  BY NextKeys, LoaderAssumption DEF PageInv, Types, ChangeFilter, Move
<1>2. hook.keyed => UNCHANGED <<failure, shown>>
  BY HookFacts DEF PageInv, Types, ChangeFilter, Flag
<1>3. failure' \in {failure, NoKey}
  BY DEF ChangeFilter, Flag
<1>4. open # "Profile"
  BY DEF ChangeFilter, Fixed
<1>5. moves' = moves + 1 /\ Ask(key') /\ UNCHANGED <<open, rows, loadedKey, reloadedAt>>
  BY DEF ChangeFilter, Move
<1>6. NewKeyed
  BY <1>1, <1>2, <1>3, <1>4, <1>5 DEF NewKeyed, PageInv, Types, Key
<1> QED  BY <1>6, NewKeyKeeps

LEMMA ChangePageKeeps ==
    ASSUME PageInv, NEW p \in 0..MaxMoves, ChangePage(p)
    PROVE  PageInv'
<1>1. key' \in Key /\ key'.reload = key.reload
  BY NextKeys, LoaderAssumption DEF PageInv, Types, ChangePage, Move
<1>2. open # "Profile"
  BY DEF ChangePage, Paged
<1>3. moves' = moves + 1 /\ Ask(key')
      /\ UNCHANGED <<open, rows, shown, failure, loadedKey, reloadedAt>>
  BY DEF ChangePage, Move
<1>4. NewKeyed
  BY <1>1, <1>2, <1>3 DEF NewKeyed, PageInv, Types, Key
<1> QED  BY <1>4, NewKeyKeeps

LEMMA ReloadKeeps ==
    ASSUME PageInv, Reload
    PROVE  PageInv'
<1>1. moves \in Nat /\ moves < MaxMoves /\ moves' = moves + 1
  BY DEF PageInv, Types, Reload, Move
<1>2. UNCHANGED <<open, rows, shown, loadedKey>> /\ reloadedAt' = Len(rows)
  BY DEF Reload
<1>3. Len(rows) \in Nat
  BY DEF PageInv, Types
<1>4. CASE hook.keyed
  <2>1. key' = NextReload(key) /\ Ask(key')
    BY <1>4, Reloads DEF PageInv
  <2>2. key' \in Key /\ key'.reload = key.reload + 1
    BY <1>1, <2>1, NextKeys DEF PageInv, Types
  <2>3. failure' = IF open = "Profile" THEN NoKey ELSE failure
    BY <1>4 DEF Reload
  <2>4. NewKeyed
    BY <1>1, <1>2, <1>3, <2>1, <2>2, <2>3 DEF NewKeyed, PageInv, Types, Key
  <2> QED  BY <2>4, NewKeyKeeps
<1>5. CASE ~hook.keyed
  <2>1. open = "WorkDetail" /\ UNCHANGED key /\ calls' = calls \cup {Call(key, TRUE)}
    BY <1>5, Reloads DEF PageInv
  <2>2. PICK k, n : k = key /\ n = Call(k, TRUE)
    OBVIOUS
  <2>3. IsCall(n) /\ n.key = key /\ calls' = calls \cup {n}
    BY <2>1, <2>2, CallIsCall
  <2>4. failure' = NoKey
    BY <1>5 DEF Reload
  <2>5. hook' = hook
    BY <1>2 DEF hook
  <2>6. Types'
    <3>1. \A c \in calls' : IsCall(c) /\ c.key \in Key
      BY <2>3 DEF PageInv, Types
    <3>2. key' \in Key /\ key'.reload <= moves' /\ key.reload \in Nat
      BY <1>1, <2>1 DEF PageInv, Types, Key
    <3>3. reloadedAt' \in 0..Len(rows')
      BY <1>2, <1>3
    <3> QED  BY <1>1, <1>2, <2>4, <3>1, <3>2, <3>3 DEF PageInv, Types
  <2>7. AnswerIsLoaded' /\ RepliesAreFresh' /\ ShownIsFresh'
    BY <1>5, <2>5 DEF AnswerIsLoaded, RepliesAreFresh, ShownIsFresh
  <2>8. CallsAreLatest' /\ ProfileAsksOnce' /\ LastRequestWins'
    BY <1>2, <2>1 DEF CallsAreLatest, ProfileAsksOnce, LastRequestWins
  <2>9. LoadedEarlier'
    BY <1>2, <2>1 DEF PageInv, LoadedEarlier
  <2> QED  BY <2>6, <2>7, <2>8, <2>9 DEF PageInv
<1> QED  BY <1>4, <1>5

LEMMA ResetKeeps ==
    ASSUME PageInv, Reset
    PROVE  PageInv'
<1>1. moves \in Nat /\ moves' = moves + 1
  BY DEF PageInv, Types, Reset, Move
<1>2. /\ open = "TourPlanner" /\ calls' = {} /\ failure' = NoKey /\ shown'.key = NoKey
      /\ UNCHANGED <<open, rows, key, loadedKey, reloadedAt>>
  BY DEF Reset, NoContent
<1>3. ~hook.keyed /\ hook' = hook
  BY <1>2, HookFacts DEF PageInv, Types, hook
<1>4. Types'
  BY <1>1, <1>2 DEF PageInv, Types, Key
<1>5. CallsAreLatest' /\ AnswerIsLoaded' /\ ProfileAsksOnce' /\ RepliesAreFresh' /\ ShownIsFresh'
  BY <1>2, <1>3
  DEF CallsAreLatest, AnswerIsLoaded, ProfileAsksOnce, RepliesAreFresh, ShownIsFresh
<1>6. LoadedEarlier' /\ LastRequestWins'
  BY <1>2 DEF PageInv, LoadedEarlier, LastRequestWins
<1> QED  BY <1>4, <1>5, <1>6 DEF PageInv

LEMMA NewRowKeeps ==
    ASSUME PageInv, NewRow
    PROVE  PageInv'
<1>1. rows' \in Seq(Nat) /\ Len(rows') = Len(rows) + 1
  BY InsertLengthens DEF PageInv, Types, NewRow
<1>2. UNCHANGED <<open, key, calls, shown, failure, loadedKey, moves, reloadedAt>>
  BY DEF NewRow
<1>3. Types'
  BY <1>1, <1>2 DEF PageInv, Types
<1>4. hook' = hook
  BY <1>2 DEF hook
<1> QED
  BY <1>2, <1>3, <1>4
  DEF PageInv, CallsAreLatest, AnswerIsLoaded, ProfileAsksOnce, LoadedEarlier,
      RepliesAreFresh, ShownIsFresh, LastRequestWins, Valid, Failed

LEMMA ServeKeeps ==
    ASSUME PageInv, NEW c \in calls, Serve(c)
    PROVE  PageInv'
<1>1. PICK r : r = Answer(c.key)
  OBVIOUS
<1>2. PICK n : n = [c EXCEPT !.reply = r]
  OBVIOUS
<1>3. IsCall(n) /\ n.key = c.key /\ n.refetch = c.refetch /\ n.reply = r
  <2>1. IsCall(c)
    BY DEF PageInv, Types
  <2> QED  BY <1>2, <2>1, RepliedCall
<1>4. r.version = Len(rows)
  BY <1>1, AnswerIsNow
<1>5. /\ calls' = (calls \ {c}) \cup {n}
      /\ UNCHANGED <<open, rows, key, shown, failure, loadedKey, moves, reloadedAt>>
  BY <1>1, <1>2 DEF Serve
<1>6. hook' = hook
  BY <1>5 DEF hook
<1>7. Types'
  <2>1. \A d \in calls' : IsCall(d) /\ d.key \in Key
    BY <1>3, <1>5 DEF PageInv, Types
  <2> QED  BY <1>5, <2>1 DEF PageInv, Types
<1>8. CallsAreLatest'
  BY <1>3, <1>5, <1>6 DEF PageInv, CallsAreLatest
<1>9. ProfileAsksOnce'
  BY <1>5 DEF PageInv, ProfileAsksOnce
<1>10. RepliesAreFresh'
  BY <1>3, <1>4, <1>5, <1>6 DEF PageInv, RepliesAreFresh, Types
<1>11. LastRequestWins'
  BY <1>5 DEF LastRequestWins
<1>12. AnswerIsLoaded' /\ LoadedEarlier' /\ ShownIsFresh'
  BY <1>5, <1>6 DEF PageInv, AnswerIsLoaded, LoadedEarlier, ShownIsFresh
<1> QED  BY <1>7, <1>8, <1>9, <1>10, <1>11, <1>12 DEF PageInv

LEMMA ArriveKeeps ==
    ASSUME PageInv, NEW c \in calls, Arrive(c)
    PROVE  PageInv'
<1>1. /\ c.reply.ok /\ calls' = calls \ {c}
      /\ shown'.key = c.key /\ shown'.version = c.reply.version
      /\ failure' = IF hook.keepsError THEN failure ELSE NoKey
      /\ loadedKey' = IF hook.keyed THEN c.key ELSE loadedKey
      /\ UNCHANGED <<open, rows, key, moves, reloadedAt>>
  BY DEF Arrive
<1>2. hook' = hook
  BY <1>1 DEF hook
<1>3. c.key \in Key /\ c.key # NoKey
  BY NoKeyIsNoKey DEF PageInv, Types
<1>4. hook.cancels /\ open # "WorkDetail" => c.key = key
  BY DEF PageInv, CallsAreLatest
<1>5. hook.keyed => c.key = key
  BY <1>4, HookFacts DEF PageInv, Types
<1>6. Types'
  BY <1>1, <1>3 DEF PageInv, Types
<1>7. CallsAreLatest'
  BY <1>1, <1>2 DEF PageInv, CallsAreLatest
<1>8. AnswerIsLoaded'
  <2> SUFFICES ASSUME hook.keyed, open # "Profile" PROVE AnswerIsLoaded'
    BY <1>1, <1>2 DEF AnswerIsLoaded
  <2>1. failure' = NoKey /\ loadedKey' = c.key
    BY <1>1, HookFacts DEF PageInv, Types
  <2> QED  BY <1>1, <2>1 DEF AnswerIsLoaded
<1>9. ProfileAsksOnce'
  <2> SUFFICES ASSUME open = "Profile" PROVE ProfileAsksOnce'
    BY <1>1 DEF ProfileAsksOnce
  <2>1. failure' = failure /\ failure = NoKey
    BY <1>1, HookFacts DEF PageInv, Types, ProfileAsksOnce
  <2>2. calls' = {}
    BY <1>1 DEF PageInv, ProfileAsksOnce
  <2>3. shown'.key = key
    BY <1>1, <1>5, HookFacts DEF PageInv, Types
  <2> QED  BY <1>1, <2>1, <2>2, <2>3 DEF ProfileAsksOnce
<1>10. LoadedEarlier'
  <2>1. CASE hook.keyed
    BY <1>1, <1>5, <2>1 DEF LoadedEarlier, PageInv, Types, Key
  <2>2. CASE ~hook.keyed
    BY <1>1, <2>2 DEF LoadedEarlier, PageInv
  <2> QED  BY <2>1, <2>2
<1>11. RepliesAreFresh'
  BY <1>1, <1>2 DEF PageInv, RepliesAreFresh
<1>12. ShownIsFresh'
  BY <1>1, <1>2 DEF PageInv, RepliesAreFresh, ShownIsFresh
<1>13. LastRequestWins'
  BY <1>1, <1>2, <1>4 DEF LastRequestWins
<1> QED  BY <1>6, <1>7, <1>8, <1>9, <1>10, <1>11, <1>12, <1>13 DEF PageInv

LEMMA FailKeeps ==
    ASSUME PageInv, NEW c \in calls, Fail(c)
    PROVE  PageInv'
<1>1. /\ calls' = calls \ {c} /\ failure' = c.key
      /\ shown' = IF hook.keepsRows THEN shown ELSE NoContent
      /\ loadedKey' = IF hook.keyed THEN c.key ELSE loadedKey
      /\ UNCHANGED <<open, rows, key, moves, reloadedAt>>
  BY DEF Fail
<1>2. hook' = hook
  BY <1>1 DEF hook
<1>3. c.key \in Key /\ c.key # NoKey
  BY NoKeyIsNoKey DEF PageInv, Types
<1>4. hook.cancels /\ open # "WorkDetail" => c.key = key
  BY DEF PageInv, CallsAreLatest
<1>5. hook.keyed => c.key = key
  BY <1>4, HookFacts DEF PageInv, Types
<1>6. Types'
  BY <1>1, <1>3 DEF PageInv, Types
<1>7. CallsAreLatest'
  BY <1>1, <1>2 DEF PageInv, CallsAreLatest
<1>8. AnswerIsLoaded'
  BY <1>1, <1>2, <1>3 DEF AnswerIsLoaded
<1>9. ProfileAsksOnce'
  <2> SUFFICES ASSUME open = "Profile" PROVE ProfileAsksOnce'
    BY <1>1 DEF ProfileAsksOnce
  <2>1. calls' = {}
    BY <1>1 DEF PageInv, ProfileAsksOnce
  <2>2. failure' = key'
    BY <1>1, <1>5, HookFacts DEF PageInv, Types
  <2> QED  BY <2>1, <2>2 DEF ProfileAsksOnce
<1>10. LoadedEarlier'
  <2>1. CASE hook.keyed
    BY <1>1, <1>5, <2>1 DEF LoadedEarlier, PageInv, Types, Key
  <2>2. CASE ~hook.keyed
    BY <1>1, <2>2 DEF LoadedEarlier, PageInv
  <2> QED  BY <2>1, <2>2
<1>11. RepliesAreFresh'
  BY <1>1, <1>2 DEF PageInv, RepliesAreFresh
<1>12. ShownIsFresh'
  BY <1>1, <1>3 DEF ShownIsFresh
<1>13. LastRequestWins'
  BY <1>1, <1>3 DEF LastRequestWins, Failed
<1> QED  BY <1>6, <1>7, <1>8, <1>9, <1>10, <1>11, <1>12, <1>13 DEF PageInv
-----------------------------------------------------------------------------
LEMMA PageInvInit == Init => PageInv
<1> SUFFICES ASSUME Init PROVE PageInv
  OBVIOUS
<1>1. open \in DOMAIN HookOf /\ moves = 0 /\ reloadedAt = 0
  BY PagesAssumption DEF Init
<1>2. rows \in Seq(Nat)
  <2>1. PICK n \in 0..(MaxRows - 1) : rows \in [1..n -> 1..n]
    BY DEF Init
  <2> QED  BY <2>1, LoaderAssumption
<1>3. PICK f \in Filters : key = FirstKey(f)
  BY DEF Init
<1>4. key \in Key /\ key.reload = 0
  BY <1>3, LoaderAssumption DEF FirstKey, Key
<1>5. PICK n, k : k = key /\ n = Call(k, FALSE)
  OBVIOUS
<1>6. IsCall(n) /\ n.key = key /\ ~n.refetch /\ ~n.reply.ok
  BY <1>5, CallIsCall
<1>7. calls = IF hook.atOnce /\ Valid(key) THEN {n} ELSE {}
  BY <1>5 DEF Init
<1>8. shown.key = NoKey /\ failure = NoKey /\ loadedKey = NoKey
  BY DEF Init, NoContent
<1>9. \A c \in calls : c = n
  BY <1>7
<1>10. Types
  BY <1>1, <1>2, <1>4, <1>6, <1>8, <1>9 DEF Types
<1>11. CallsAreLatest /\ RepliesAreFresh
  BY <1>6, <1>9 DEF CallsAreLatest, RepliesAreFresh
<1>12. loadedKey # key
  BY <1>4, <1>8, NoKeyIsNoKey
<1> QED
  BY <1>8, <1>9, <1>10, <1>11, <1>12
  DEF PageInv, AnswerIsLoaded, ProfileAsksOnce, LoadedEarlier, ShownIsFresh, LastRequestWins

LEMMA PageInvNext == PageInv /\ [Next]_vars => PageInv'
<1> SUFFICES ASSUME PageInv, [Next]_vars PROVE PageInv'
  OBVIOUS
<1>1. ASSUME NEW f \in Filters, ChangeFilter(f) PROVE PageInv'
  BY <1>1, ChangeFilterKeeps
<1>2. ASSUME NEW p \in 0..MaxMoves, ChangePage(p) PROVE PageInv'
  BY <1>2, ChangePageKeeps
<1>3. ASSUME NEW c \in calls, Serve(c) \/ Arrive(c) \/ Fail(c) PROVE PageInv'
  BY <1>3, ServeKeeps, ArriveKeeps, FailKeeps
<1>4. CASE UNCHANGED vars
  BY <1>4
  DEF vars, PageInv, Types, CallsAreLatest, AnswerIsLoaded, ProfileAsksOnce, LoadedEarlier,
      RepliesAreFresh, ShownIsFresh, LastRequestWins, Valid, Failed, hook
<1> QED  BY <1>1, <1>2, <1>3, <1>4, ReloadKeeps, ResetKeeps, NewRowKeeps DEF Next

LEMMA PagesHold == Spec => []PageInv
BY PageInvInit, PageInvNext, PTL DEF Spec

(* Whatever the order of the answers, a page whose hook compares keys shows *)
(* the content, or the error, of the key it asks for (useEvents.ts,         *)
(* useAuditLogs.ts, useProfile.ts and the hooks like them).                 *)
THEOREM PagesShowTheirKey == Spec => []SettledShowsItsKey
<1>1. PageInv => SettledShowsItsKey
  BY HookFacts, NoKeyIsNoKey
  DEF PageInv, SettledShowsItsKey, AnswerIsLoaded, ProfileAsksOnce, Loading, Failed, Types
<1> QED  BY <1>1, PagesHold, PTL

(* A page that cancels its earlier request ends with what was asked last:   *)
(* the flags of useWorks.ts and useTourPlan.ts as well as the keys.         *)
THEOREM LastRequestsWin == Spec => []LastRequestWins
<1>1. PageInv => LastRequestWins
  BY DEF PageInv
<1> QED  BY <1>1, PagesHold, PTL

(* Both together: the hooks of front-react never leave an earlier content   *)
(* under a later question.                                                  *)
THEOREM PagesShowWhatWasAsked == Spec => []ShowsWhatWasAsked
<1>1. SettledShowsItsKey /\ LastRequestWins => ShowsWhatWasAsked
  BY DEF ShowsWhatWasAsked
<1> QED  BY <1>1, PagesShowTheirKey, LastRequestsWin, PTL

(* A list that was reloaded shows the rows of that reload or later ones.    *)
THEOREM ReloadsAreFresh == Spec => []FreshAfterReload
<1>1. PageInv => FreshAfterReload
  BY NoKeyIsNoKey DEF PageInv, FreshAfterReload, ShownIsFresh, Loading, Failed, Types
<1> QED  BY <1>1, PagesHold, PTL
-----------------------------------------------------------------------------
(* Counting rows: the least place of a kind, and the offsets of the pages.  *)
LEMMA LeastNatural ==
    ASSUME NEW T, T \subseteq Nat, T # {}
    PROVE  \E n \in T : \A m \in T : n <= m
<1> DEFINE R == OpToRel(<, Nat)
<1>1. \A m, n \in Nat : m < n => <<m, n>> \in R
  BY DEF OpToRel
<1>2. IsWellFoundedOn(R, Nat)
  BY NatLessThanWellFounded
<1> HIDE DEF R
<1>3. PICK n \in T : \A m \in T : ~(<<m, n>> \in R)
  BY <1>2, WFMin
<1>4. \A m \in T : ~(m < n)
  BY <1>1, <1>3
<1> QED  BY <1>4

LEMMA Offsets ==
    ASSUME NEW n \in Nat
    PROVE  /\ Offset(n) \in Nat /\ Offset(n + 1) \in Nat
           /\ Offset(n) < Offset(n + 1)
           /\ Offset(n) + 1 <= Offset(n + 1)
<1>1. PageSize \in Nat /\ PageSize >= 1
  BY LoaderAssumption
<1>2. n * PageSize \in Nat /\ (n + 1) * PageSize = n * PageSize + PageSize
  BY <1>1
<1> QED  BY <1>1, <1>2 DEF Offset

LEMMA SliceIs ==
    ASSUME NEW f, NEW n
    PROVE  Slice(f, n, PageSize) =
             {rows[i] : i \in {j \in DOMAIN rows : /\ rows[j] \in Selected[f]
                                                   /\ Offset(n) < Cardinality(UpTo(f, j))
                                                   /\ Cardinality(UpTo(f, j)) <= Offset(n + 1)}}
BY DEF Slice, Offset

LEMMA HasMoreIs ==
    ASSUME NEW f, NEW n
    PROVE  HasMore(f, n, PageSize) <=> Reaches(f, n + 1)
BY DEF HasMore, Reaches, Offset

LEMMA PlacesAreNumbers ==
    ASSUME NEW f \in Filters, NEW i
    PROVE  IsFiniteSet(UpTo(f, i)) /\ Cardinality(UpTo(f, i)) \in Nat
<1>1. UpTo(f, i) \subseteq 1..MaxRows
  BY LoaderAssumption DEF UpTo
<1>2. IsFiniteSet(1..MaxRows)
  BY LoaderAssumption, FS_Interval
<1> QED  BY <1>1, <1>2, FS_Subset, FS_CardinalityType

LEMMA PlacesGrow ==
    ASSUME NEW f \in Filters, NEW i, NEW T, T \subseteq UpTo(f, i)
    PROVE  Cardinality(T) <= Cardinality(UpTo(f, i))
BY PlacesAreNumbers, FS_Subset

(* A row of the first n pages' rest is on the next page, or after it.       *)
LEMMA NextPage ==
    ASSUME Types, NEW f \in Filters, NEW n \in Nat
    PROVE  /\ Beyond(f, n) \subseteq Slice(f, n, PageSize) \cup Beyond(f, n + 1)
           /\ Beyond(f, n + 1) \subseteq Beyond(f, n)
           /\ Reaches(f, n + 1) => Reaches(f, n)
<1>1. \A j \in DOMAIN rows : Cardinality(UpTo(f, j)) \in Nat
  BY PlacesAreNumbers
<1>2. Offset(n) \in Nat /\ Offset(n + 1) \in Nat /\ Offset(n) < Offset(n + 1)
  BY Offsets
<1>3. Beyond(f, n) \subseteq Slice(f, n, PageSize) \cup Beyond(f, n + 1)
  BY <1>1, <1>2, SliceIs DEF Beyond
<1>4. Beyond(f, n + 1) \subseteq Beyond(f, n)
  BY <1>1, <1>2 DEF Beyond
<1>5. Cardinality(All(f)) \in Nat
  BY PlacesAreNumbers DEF All
<1> QED  BY <1>2, <1>3, <1>4, <1>5 DEF Reaches

LEMMA EverythingIsBeyond ==
    ASSUME Types, NEW f \in Filters
    PROVE  All(f) \subseteq Beyond(f, 0)
<1> SUFFICES ASSUME NEW r \in All(f) PROVE r \in Beyond(f, 0)
  OBVIOUS
<1>1. PICK i \in 1..Len(rows) : r = rows[i] /\ r \in Selected[f]
  BY DEF All, UpTo
<1>2. i \in DOMAIN rows /\ r \in UpTo(f, i)
  BY <1>1 DEF UpTo, Types
<1>3. Cardinality({r}) = 1 /\ {r} \subseteq UpTo(f, i)
  BY <1>2, FS_Singleton
<1>4. Cardinality(UpTo(f, i)) \in Nat /\ 1 <= Cardinality(UpTo(f, i))
  BY <1>3, PlacesAreNumbers, PlacesGrow
<1>5. Offset(0) = 0
  BY LoaderAssumption DEF Offset
<1> QED  BY <1>1, <1>2, <1>4, <1>5 DEF Beyond

LEMMA NothingBeyondTheEnd ==
    ASSUME Types, NEW f \in Filters, NEW n \in Nat, ~Reaches(f, n)
    PROVE  Beyond(f, n) = {}
<1> SUFFICES ASSUME NEW j \in DOMAIN rows, Offset(n) < Cardinality(UpTo(f, j)) PROVE FALSE
  BY DEF Beyond
<1>1. UpTo(f, j) \subseteq UpTo(f, Len(rows))
  BY DEF UpTo, Types
<1>2. Cardinality(UpTo(f, j)) <= Cardinality(UpTo(f, Len(rows)))
  BY <1>1, PlacesGrow
<1>3. /\ Cardinality(UpTo(f, j)) \in Nat /\ Cardinality(UpTo(f, Len(rows))) \in Nat
      /\ Offset(n) \in Nat
  BY PlacesAreNumbers, Offsets
<1> QED  BY <1>2, <1>3 DEF Reaches, All

LEMMA OneMore ==
    ASSUME NEW S, IsFiniteSet(S), NEW x
    PROVE  Cardinality(S \cup {x}) <= Cardinality(S) + 1
<1>1. PICK n, m : n = Cardinality(S) /\ m = Cardinality(S \cup {x})
  OBVIOUS
<1>2. n \in Nat
  BY <1>1, FS_CardinalityType
<1>3. m = n \/ m = n + 1
  BY <1>1, FS_AddElement
<1>4. m <= n + 1
  BY <1>2, <1>3
<1> QED  BY <1>1, <1>4

(* A page that the table reaches has a row: the first whose place is past   *)
(* the offset.                                                              *)
LEMMA ReachedPageHasRows ==
    ASSUME Types, NEW f \in Filters, NEW n \in Nat, Reaches(f, n)
    PROVE  Slice(f, n, PageSize) # {}
<1> DEFINE T == {i \in 0..Len(rows) : Offset(n) < Cardinality(UpTo(f, i))}
<1>1. Len(rows) \in Nat /\ DOMAIN rows = 1..Len(rows)
  BY DEF Types
<1>2. /\ Offset(n) \in Nat /\ Offset(n + 1) \in Nat /\ Offset(n) + 1 <= Offset(n + 1)
      /\ \A i : Cardinality(UpTo(f, i)) \in Nat
  BY PlacesAreNumbers, Offsets
<1>3. T \subseteq Nat /\ T # {}
  <2>1. Len(rows) \in T
    BY <1>1 DEF Reaches, All
  <2> QED  BY <1>1, <2>1
<1>4. PICK i \in T : \A m \in T : i <= m
  BY <1>3, LeastNatural
<1>5. i # 0
  <2>1. UpTo(f, 0) = {}
    BY DEF UpTo
  <2>2. Cardinality(UpTo(f, 0)) = 0
    BY <2>1, FS_EmptySet
  <2> QED  BY <1>2, <1>4, <2>2
<1>6. i \in DOMAIN rows /\ i - 1 \in 0..Len(rows) /\ i \in Nat
  BY <1>1, <1>4, <1>5
<1>7. ~(Offset(n) < Cardinality(UpTo(f, i - 1)))
  BY <1>4, <1>6
<1>8. UpTo(f, i) = IF rows[i] \in Selected[f]
                   THEN UpTo(f, i - 1) \cup {rows[i]} ELSE UpTo(f, i - 1)
  <2>1. \A h \in 1..i : h \in 1..(i - 1) \/ h = i
    BY <1>6
  <2>2. i \in 1..i /\ \A h \in 1..(i - 1) : h \in 1..i
    BY <1>5, <1>6
  <2> QED  BY <2>1, <2>2 DEF UpTo
<1>9. rows[i] \in Selected[f]
  BY <1>4, <1>7, <1>8
<1>10. Cardinality(UpTo(f, i)) <= Cardinality(UpTo(f, i - 1)) + 1
  <2>1. UpTo(f, i) = UpTo(f, i - 1) \cup {rows[i]}
    BY <1>8, <1>9
  <2>2. IsFiniteSet(UpTo(f, i - 1))
    BY PlacesAreNumbers
  <2> QED  BY <2>1, <2>2, OneMore
<1>11. Cardinality(UpTo(f, i)) <= Offset(n + 1) /\ Offset(n) < Cardinality(UpTo(f, i))
  BY <1>2, <1>4, <1>7, <1>10
<1>12. rows[i] \in Slice(f, n, PageSize)
  BY <1>6, <1>9, <1>11, SliceIs
<1> QED  BY <1>12
-----------------------------------------------------------------------------
(* A new row moves others to later places and takes none away.              *)
LEMMA LaterHalf ==
    ASSUME NEW a \in Seq(Nat), NEW b \in Seq(Nat), NEW m \in 1..Len(b)
    PROVE  (a \o b)[Len(a) + m] = b[m]
<1>1. Len(a) \in Nat /\ Len(b) \in Nat
  OBVIOUS
<1>2. Len(a) + m \in 1..(Len(a) + Len(b)) /\ Len(a) + m > Len(a)
  BY <1>1
<1>3. (a \o b)[Len(a) + m] = b[Len(a) + m - Len(a)]
  BY <1>1, <1>2
<1> QED  BY <1>1, <1>3

LEMMA InsertedRows ==
    ASSUME NEW s \in Seq(Nat), NEW i \in 1..(Len(s) + 1), NEW e \in Nat, NEW j \in 1..Len(s)
    PROVE  InsertAt(s, i, e)[IF j < i THEN j ELSE j + 1] = s[j]
<1> DEFINE a == SubSeq(s, 1, i - 1)
           b == SubSeq(s, i, Len(s))
<1>1. /\ a \in Seq(Nat) /\ Len(a) = i - 1
      /\ j < i => a[j] = s[j]
  <2>1. a \in Seq(Nat) /\ Len(a) = i - 1
    OBVIOUS
  <2>2. ASSUME j < i PROVE a[j] = s[j]
    BY <2>2
  <2> QED  BY <2>1, <2>2
<1>2. /\ b \in Seq(Nat) /\ Len(b) = Len(s) - i + 1
      /\ \A m \in 1..(Len(s) - i + 1) : b[m] = s[i + m - 1]
  BY Suffix
<1>3. InsertAt(s, i, e) = (a \o <<e>>) \o b
  BY DEF InsertAt
<1> HIDE DEF a, b
<1>4. PICK c : c = a \o <<e>>
  OBVIOUS
<1>5. c \in Seq(Nat) /\ Len(c) = i /\ (j < i => c[j] = a[j])
  BY <1>1, <1>4
<1>6. CASE j < i
  <2>1. (c \o b)[j] = c[j]
    BY <1>2, <1>5, <1>6
  <2> QED  BY <1>1, <1>3, <1>4, <1>5, <1>6, <2>1
<1>7. CASE ~(j < i)
  <2>1. PICK m \in 1..(Len(s) - i + 1) : i + m = j + 1 /\ i + m - 1 = j
    <3>1. j - i + 1 \in 1..(Len(s) - i + 1) /\ i + (j - i + 1) = j + 1
      BY <1>7
    <3> QED  BY <3>1
  <2>2. (c \o b)[Len(c) + m] = b[m]
    <3>1. m \in 1..Len(b)
      BY <1>2, <2>1
    <3> QED  BY <1>2, <1>5, <3>1, LaterHalf
  <2>3. b[m] = s[i + m - 1]
    BY <1>2, <2>1, ZenonT(60)
  <2>4. s[i + m - 1] = s[j]
    BY <2>1
  <2> QED  BY <1>3, <1>4, <1>5, <1>7, <2>1, <2>2, <2>3, <2>4
<1> QED  BY <1>6, <1>7

LEMMA RowsMove ==
    ASSUME Types, NewRow, NEW f \in Filters, NEW j \in DOMAIN rows
    PROVE  \E k \in DOMAIN rows' : rows'[k] = rows[j] /\ UpTo(f, j) \subseteq UpTo(f, k)'
<1>1. PICK i \in 1..(Len(rows) + 1) : rows' = InsertAt(rows, i, Len(rows) + 1)
  BY DEF NewRow
<1>2. rows \in Seq(Nat) /\ Len(rows) \in Nat /\ Len(rows) + 1 \in Nat /\ DOMAIN rows = 1..Len(rows)
  BY DEF Types
<1>3. rows' \in Seq(Nat) /\ Len(rows') = Len(rows) + 1 /\ DOMAIN rows' = 1..(Len(rows) + 1)
  BY <1>1, <1>2, InsertLengthens
<1> DEFINE Place(h) == IF h < i THEN h ELSE h + 1
<1>4. \A h \in 1..Len(rows) : rows'[Place(h)] = rows[h]
  BY <1>1, <1>2, InsertedRows
<1>5. \A h \in 1..j : h \in 1..Len(rows) /\ Place(h) \in 1..Place(j)
  BY <1>2
<1>6. Place(j) \in DOMAIN rows'
  BY <1>2, <1>3
<1> HIDE DEF Place
<1>7. {rows[h] : h \in 1..j} \subseteq {rows'[h] : h \in 1..Place(j)}
  BY <1>4, <1>5
<1> QED  BY <1>2, <1>4, <1>6, <1>7 DEF UpTo

LEMMA SelectedSets ==
    ASSUME NEW f \in Filters, NEW S, S \subseteq Selected[f]
    PROVE  /\ Cardinality(S) \in Nat
           /\ \A T : T \subseteq S => Cardinality(T) \in Nat /\ Cardinality(T) <= Cardinality(S)
<1>1. IsFiniteSet(1..MaxRows) /\ S \subseteq 1..MaxRows
  BY LoaderAssumption, FS_Interval
<1>2. IsFiniteSet(S)
  BY <1>1, FS_Subset
<1> QED  BY <1>2, FS_Subset, FS_CardinalityType

LEMMA PagesGrow ==
    ASSUME Types, NewRow, NEW f \in Filters, NEW n \in Nat
    PROVE  /\ Beyond(f, n) \subseteq Beyond(f, n)'
           /\ Reaches(f, n) => Reaches(f, n)'
<1>1. Offset(n) \in Nat /\ Offset(n)' = Offset(n)
  BY Offsets DEF Offset
<1>2. \A j : UpTo(f, j) \subseteq Selected[f] /\ UpTo(f, j)' \subseteq Selected[f]
  BY DEF UpTo
<1>3. ASSUME NEW j, NEW k, UpTo(f, j) \subseteq UpTo(f, k)', Offset(n) < Cardinality(UpTo(f, j))
      PROVE  Offset(n) < Cardinality(UpTo(f, k)')
  <2>1. PICK S, T : S = UpTo(f, k)' /\ T = UpTo(f, j)
    OBVIOUS
  <2>2. Cardinality(T) \in Nat /\ Cardinality(S) \in Nat /\ Cardinality(T) <= Cardinality(S)
    BY <1>2, <1>3, <2>1, SelectedSets
  <2> QED  BY <1>1, <1>3, <2>1, <2>2
<1>4. Beyond(f, n) \subseteq Beyond(f, n)'
  <2> SUFFICES ASSUME NEW j \in DOMAIN rows, rows[j] \in Selected[f],
                      Offset(n) < Cardinality(UpTo(f, j))
               PROVE  rows[j] \in Beyond(f, n)'
    BY DEF Beyond
  <2>1. PICK k \in DOMAIN rows' : rows'[k] = rows[j] /\ UpTo(f, j) \subseteq UpTo(f, k)'
    BY RowsMove
  <2>2. Offset(n)' < Cardinality(UpTo(f, k)')
    BY <1>1, <1>3, <2>1
  <2> QED  BY <2>1, <2>2 DEF Beyond
<1>5. ASSUME Reaches(f, n) PROVE Reaches(f, n)'
  <2>1. \A r \in All(f) : r \in All(f)'
    <3> TAKE r \in All(f)
    <3>1. PICK j \in 1..Len(rows) : r = rows[j] /\ r \in Selected[f]
      BY DEF All, UpTo
    <3>2. DOMAIN rows = 1..Len(rows)
      BY DEF Types
    <3>3. PICK k \in DOMAIN rows' : rows'[k] = rows[j]
      BY <3>2, RowsMove
    <3>4. DOMAIN rows' = 1..Len(rows')
      BY InsertLengthens DEF Types, NewRow
    <3> QED  BY <3>1, <3>3, <3>4 DEF All, UpTo
  <2>2. PICK S, T : S = All(f)' /\ T = All(f)
    OBVIOUS
  <2>3. S \subseteq Selected[f] /\ T \subseteq S
    BY <2>1, <2>2 DEF All, UpTo
  <2>4. Cardinality(T) \in Nat /\ Cardinality(S) \in Nat /\ Cardinality(T) <= Cardinality(S)
    BY <2>3, SelectedSets
  <2> QED  BY <1>1, <1>5, <2>2, <2>4 DEF Reaches
<1> QED  BY <1>4, <1>5
-----------------------------------------------------------------------------
(* Going through the pages of a list.                                       *)
Reading == PagesFollow /\ SeenOrBeyond

LEMMA PagedHook ==
    ASSUME open \in Paged
    PROVE  /\ hook.keyed /\ hook.cancels /\ ~hook.flagsChange
           /\ ~hook.validates /\ ~hook.keepsRows /\ ~hook.keepsError
           /\ open # "WorkDetail" /\ open # "Profile" /\ open # "TourPlanner"
<1>1. hook = useEvents
  BY DEF hook, HookOf, Paged, useAuditLogs, useNotifications
<1> QED  BY <1>1 DEF useEvents, Paged

(* What a paged list asks for, once loaded, is its loaded key.              *)
LEMMA PagedLoaded ==
    ASSUME open \in Paged
    PROVE  Valid(key) /\ (Loading <=> loadedKey # key) /\ (Failed <=> failure # NoKey)
BY PagedHook DEF Valid, Loading, Failed

LEMMA PagedCalls ==
    ASSUME PageInv, open \in Paged, NEW c \in calls
    PROVE  c.key = key /\ IsCall(c) /\ key \in Key /\ key.filter \in Filters /\ key.page \in Nat
BY PagedHook, LoaderAssumption DEF PageInv, CallsAreLatest, Types, Key

LEMMA ChangedKeys ==
    ASSUME NEW k \in Key
    PROVE  /\ NextReload(k).filter = k.filter /\ NextReload(k).page = k.page
           /\ \A f : [k EXCEPT !.filter = f, !.page = 0].page = 0
           /\ \A p : [k EXCEPT !.page = p].page = p /\ [k EXCEPT !.page = p].filter = k.filter
<1>1. k = [filter |-> k.filter, page |-> k.page, reload |-> k.reload]
  BY DEF Key
<1>2. NextReload(k) = [filter |-> k.filter, page |-> k.page, reload |-> k.reload + 1]
  BY <1>1 DEF NextReload
<1>3. ASSUME NEW f PROVE [k EXCEPT !.filter = f, !.page = 0].page = 0
  <2>1. PICK a : a = [k EXCEPT !.filter = f]
    OBVIOUS
  <2>2. a = [filter |-> f, page |-> k.page, reload |-> k.reload]
    BY <1>1, <2>1
  <2>3. [a EXCEPT !.page = 0] = [filter |-> f, page |-> 0, reload |-> k.reload]
    BY <2>2
  <2> QED  BY <2>1, <2>3
<1>4. ASSUME NEW p
      PROVE  [k EXCEPT !.page = p].page = p /\ [k EXCEPT !.page = p].filter = k.filter
  <2>1. [k EXCEPT !.page = p] = [filter |-> k.filter, page |-> p, reload |-> k.reload]
    BY <1>1
  <2> QED  BY <2>1
<1> QED  BY <1>2, <1>3, <1>4

LEMMA NewPageKeeps ==
    ASSUME PageInv, Reading, open \in Paged, Ask(key'), NEW k \in Key, key' = k,
           UNCHANGED <<open, rows, shown, failure, loadedKey>>,
           k.page > 0 => Reaches(k.filter, k.page),
           atStart' \subseteq seen' \cup Beyond(k.filter, k.page),
           loadedKey = k => atStart' = {}
    PROVE  Reading'
<1>1. PICK n : ~n.reply.ok /\ \A c \in calls' : c = n \/ (c \in calls /\ (hook.cancels => c.refetch))
  BY Asked
<1>2. \A c \in calls' : c = n
  BY <1>1, PagedHook DEF PageInv, CallsAreLatest
<1>3. \A f, p : Reaches(f, p)' = Reaches(f, p) /\ Beyond(f, p)' = Beyond(f, p)
  BY DEF Reaches, Beyond, All, UpTo
<1>4. PagesFollow'
  <2>1. k.page > 0 => Reaches(k.filter, k.page)'
    BY <1>3
  <2>2. (key.page > 0 => Reaches(key.filter, key.page))'
    BY <2>1
  <2>3. shown = NoContent \/ (shown.key \in Key /\ TellsOfPage(shown.key, shown)')
    BY <1>3 DEF Reading, PagesFollow, TellsOfPage
  <2> QED  BY <1>2, <2>2, <2>3 DEF Reading, PagesFollow, TellsOfPage, NoContent
<1>5. SeenOrBeyond'
  <2>1. atStart' \subseteq seen' \cup Beyond(k.filter, k.page)'
    BY <1>3
  <2>2. (atStart \subseteq seen \cup Beyond(key.filter, key.page))'
    BY <2>1
  <2>3. \A c \in calls' : ~c.reply.ok
    BY <1>1, <1>2
  <2>4. loadedKey' = key' => atStart' = {}
    OBVIOUS
  <2> QED  BY <2>2, <2>3, <2>4 DEF SeenOrBeyond
<1> QED  BY <1>4, <1>5 DEF Reading

LEMMA ChangeFilterReads ==
    ASSUME PageInv, Reading, NEW f \in Filters, ChangeFilter(f), open \in Paged
    PROVE  Reading'
<1>1. PICK k : k = key'
  OBVIOUS
<1>2. k \in Key /\ k.page = 0
  BY <1>1, NextKeys, ChangedKeys, LoaderAssumption DEF PageInv, Types, ChangeFilter, Move
<1>3. UNCHANGED <<open, rows, shown, failure, loadedKey>>
  BY PagedHook DEF ChangeFilter, Flag
<1>4. Ask(key') /\ atStart' = {}
  BY DEF ChangeFilter
<1> QED  BY <1>1, <1>2, <1>3, <1>4, NewPageKeeps

LEMMA ChangePageReads ==
    ASSUME PageInv, Reading, NEW p \in 0..MaxMoves, ChangePage(p)
    PROVE  Reading'
<1>1. open \in Paged /\ loadedKey = key
  BY PagedLoaded DEF ChangePage
<1>2. PICK k : k = key'
  OBVIOUS
<1>3. k \in Key /\ k.page = p /\ k.filter = key.filter
  BY <1>2, NextKeys, ChangedKeys, LoaderAssumption DEF PageInv, Types, ChangePage, Move
<1>4. /\ Ask(key') /\ UNCHANGED <<open, rows, shown, failure, loadedKey, atStart, seen>>
      /\ (p = key.page + 1 /\ shown.more) \/ p + 1 = key.page
  BY DEF ChangePage
<1>5. key \in Key /\ key.filter \in Filters /\ key.page \in Nat /\ p \in Nat
  BY LoaderAssumption DEF PageInv, Types, Key
<1>6. key.page # p
  BY <1>4, <1>5
<1>7. loadedKey # k
  BY <1>1, <1>3, <1>6
<1>8. CASE p = key.page + 1 /\ shown.more
  <2>1. shown # NoContent
    BY <1>8 DEF NoContent
  <2>2. failure = NoKey
    BY <1>1, <2>1 DEF Reading, PagesFollow
  <2>3. shown.key = key
    BY <1>1, <2>2, PagedHook DEF PageInv, AnswerIsLoaded
  <2>4. Reaches(key.filter, p)
    BY <1>1, <1>8, <2>1, <2>3 DEF Reading, PagesFollow, TellsOfPage
  <2>5. atStart \subseteq seen \cup Beyond(key.filter, p)
    BY <1>1, <1>8, <2>2 DEF Reading, SeenOrBeyond
  <2> QED  BY <1>1, <1>2, <1>3, <1>4, <1>7, <2>4, <2>5, NewPageKeeps
<1>9. CASE p + 1 = key.page
  <2>1. Reaches(key.filter, p + 1)
    BY <1>1, <1>5, <1>9 DEF Reading, PagesFollow
  <2>2. Reaches(key.filter, p) /\ Beyond(key.filter, p + 1) \subseteq Beyond(key.filter, p)
    BY <1>5, <2>1, NextPage DEF PageInv
  <2>3. atStart \subseteq seen \cup Beyond(key.filter, p)
    BY <1>1, <1>9, <2>2 DEF Reading, SeenOrBeyond
  <2> QED  BY <1>1, <1>2, <1>3, <1>4, <1>7, <2>2, <2>3, NewPageKeeps
<1> QED  BY <1>4, <1>8, <1>9

LEMMA ReloadReads ==
    ASSUME PageInv, Reading, Reload, open \in Paged
    PROVE  Reading'
<1>1. loadedKey = key
  BY PagedLoaded DEF Reload
<1>2. PICK k : k = key'
  OBVIOUS
<1>3. k = NextReload(key) /\ Ask(key')
  BY <1>2, Reloads, PagedHook DEF PageInv
<1>4. moves \in Nat /\ moves < MaxMoves /\ key \in Key /\ key.reload \in Nat
  BY DEF PageInv, Types, Key, Reload, Move
<1>5. k \in Key /\ k.reload = key.reload + 1 /\ k.filter = key.filter /\ k.page = key.page
  BY <1>3, <1>4, NextKeys, ChangedKeys DEF PageInv, Types
<1>6. loadedKey # k
  BY <1>1, <1>4, <1>5
<1>7. UNCHANGED <<open, rows, shown, failure, loadedKey, atStart, seen>>
  BY PagedHook DEF Reload
<1>8. k.page > 0 => Reaches(k.filter, k.page)
  BY <1>5 DEF Reading, PagesFollow
<1>9. atStart' \subseteq seen' \cup Beyond(k.filter, k.page)
  BY <1>5, <1>7 DEF Reading, SeenOrBeyond
<1> QED  BY <1>2, <1>3, <1>5, <1>6, <1>7, <1>8, <1>9, NewPageKeeps

LEMMA NewRowReads ==
    ASSUME PageInv, Reading, NewRow, open \in Paged
    PROVE  Reading'
<1>1. UNCHANGED <<open, key, calls, shown, failure, loadedKey, atStart, seen>>
  BY DEF NewRow
<1>2. key.filter \in Filters /\ key.page \in Nat /\ key.page + 1 \in Nat
  BY LoaderAssumption DEF PageInv, Types, Key
<1>3. ASSUME NEW f \in Filters, NEW n \in Nat
      PROVE  /\ Beyond(f, n) \subseteq Beyond(f, n)'
             /\ Reaches(f, n) => Reaches(f, n)'
  BY PagesGrow DEF PageInv
<1>4. ASSUME NEW k \in Key, NEW a, TellsOfPage(k, a) PROVE TellsOfPage(k, a)'
  <2>1. k.filter \in Filters /\ k.page + 1 \in Nat
    BY LoaderAssumption DEF Key
  <2> QED  BY <1>3, <1>4, <2>1 DEF TellsOfPage
<1>5. PagesFollow'
  <2>1. key.page > 0 => Reaches(key.filter, key.page)'
    BY <1>1, <1>2, <1>3 DEF Reading, PagesFollow
  <2>2. shown = NoContent \/ (shown.key \in Key /\ TellsOfPage(shown.key, shown)')
    BY <1>1, <1>4 DEF Reading, PagesFollow
  <2> QED  BY <1>1, <2>1, <2>2 DEF Reading, PagesFollow, Reaches, TellsOfPage
<1>6. SeenOrBeyond'
  <2>1. /\ Beyond(key.filter, key.page) \subseteq Beyond(key.filter, key.page)'
        /\ Beyond(key.filter, key.page + 1) \subseteq Beyond(key.filter, key.page + 1)'
    BY <1>1, <1>2, <1>3
  <2>2. \A c \in calls : c.reply.ok => TellsOfPage(c.key, c.reply)'
    BY <1>1, <1>4, PagedCalls DEF Reading, SeenOrBeyond
  <2> QED  BY <1>1, <2>1, <2>2 DEF Reading, SeenOrBeyond, Beyond, TellsOfPage
<1> QED  BY <1>5, <1>6 DEF Reading

(* What the server answers about a page that the table reaches.             *)
LEMMA AnswerIs ==
    ASSUME open \in Paged, NEW k
    PROVE  /\ Answer(k).table = All(k.filter)
           /\ Answer(k).rows = Slice(k.filter, k.page, PageSize)
           /\ Answer(k).more <=> HasMore(k.filter, k.page, PageSize)
BY Zenon DEF Answer

LEMMA ServeReads ==
    ASSUME PageInv, Reading, NEW c \in calls, Serve(c), open \in Paged
    PROVE  Reading'
<1>1. PICK r : r = Answer(key)
  OBVIOUS
<1>2. c.key = key /\ IsCall(c) /\ key \in Key /\ key.filter \in Filters /\ key.page \in Nat
  BY PagedCalls
<1>3. PICK n : n = [c EXCEPT !.reply = r]
  OBVIOUS
<1>4. n.key = key /\ n.reply = r
  BY <1>2, <1>3, RepliedCall
<1>5. calls' = {n}
  BY <1>1, <1>2, <1>3 DEF Serve, Reading, PagesFollow
<1>6. UNCHANGED <<open, rows, key, shown, failure, loadedKey, atStart, seen>>
  BY DEF Serve
<1>7. PICK f, p : f = key.filter /\ p = key.page
  OBVIOUS
<1>8. PICK after : after = IF p = 0 /\ seen = {} THEN r.table ELSE atStart
  OBVIOUS
<1>9. /\ r.table = All(f) /\ r.rows = Slice(f, p, PageSize)
      /\ r.more <=> Reaches(f, p + 1)
  BY <1>1, <1>7, AnswerIs, HasMoreIs
<1>10. TellsOfPage(key, r)
  BY <1>2, <1>9, <1>7, ReachedPageHasRows DEF PageInv, Reading, PagesFollow, TellsOfPage
<1>11. after \subseteq seen \cup Beyond(f, p)
  <2>1. p = 0 => All(f) \subseteq Beyond(f, p)
    BY <1>2, <1>7, EverythingIsBeyond DEF PageInv
  <2> QED  BY <1>9, <1>7, <1>8, <2>1 DEF Reading, SeenOrBeyond
<1>12. after \subseteq seen \cup r.rows \cup Beyond(f, p + 1)
  BY <1>2, <1>9, <1>11, <1>7, NextPage DEF PageInv
<1>13. ~r.more => after \subseteq seen \cup r.rows
  BY <1>2, <1>9, <1>12, <1>7, NothingBeyondTheEnd DEF PageInv
<1>14. \A g, m : Reaches(g, m)' = Reaches(g, m) /\ Beyond(g, m)' = Beyond(g, m)
  BY <1>6 DEF Reaches, Beyond, All, UpTo
<1>15. ASSUME NEW k, NEW a, TellsOfPage(k, a) PROVE TellsOfPage(k, a)'
  BY <1>14, <1>15 DEF TellsOfPage
<1>16. PagesFollow'
  <2>1. (key.page > 0 => Reaches(key.filter, key.page))'
    BY <1>6, <1>14 DEF Reading, PagesFollow
  <2>2. shown = NoContent \/ (shown.key \in Key /\ TellsOfPage(shown.key, shown)')
    BY <1>6, <1>15 DEF Reading, PagesFollow
  <2> QED  BY <1>5, <1>6, <2>1, <2>2 DEF Reading, PagesFollow, TellsOfPage, Reaches
<1>17. SeenOrBeyond'
  <2>1. TellsOfPage(key, r)'
    BY <1>6, <1>10, <1>15
  <2>2. (atStart \subseteq seen \cup Beyond(key.filter, key.page))'
    BY <1>6, <1>14 DEF Reading, SeenOrBeyond
  <2>3. (loadedKey = key /\ failure = NoKey =>
           /\ atStart \subseteq seen \cup Beyond(key.filter, key.page + 1)
           /\ ~shown.more => atStart \subseteq seen)'
    BY <1>6, <1>14 DEF Reading, SeenOrBeyond
  <2>4. after \subseteq seen' \cup r.rows \cup Beyond(key.filter, key.page + 1)'
    BY <1>6, <1>12, <1>14, <1>7
  <2>5. after = IF key'.page = 0 /\ seen' = {} THEN r.table ELSE atStart'
    BY <1>6, <1>7, <1>8
  <2>6. \A d \in calls' : d.key = key' /\ d.reply = r
    BY <1>4, <1>5, <1>6
  <2> QED  BY <1>6, <1>13, <2>1, <2>2, <2>3, <2>4, <2>5, <2>6 DEF SeenOrBeyond
<1> QED  BY <1>16, <1>17 DEF Reading
LEMMA ArriveReads ==
    ASSUME PageInv, Reading, NEW c \in calls, Arrive(c), open \in Paged
    PROVE  Reading'
<1>1. c.key = key /\ key \in Key /\ key.filter \in Filters /\ key.page \in Nat
  BY PagedCalls
<1>2. PICK k, r : k = key /\ r = c.reply
  OBVIOUS
<1>3. /\ r.ok /\ calls' = {}
      /\ shown'.key = k /\ shown'.rows = r.rows /\ shown'.more = r.more
      /\ failure' = NoKey /\ loadedKey' = k
      /\ atStart' = IF k.page = 0 /\ seen = {} THEN r.table ELSE atStart
      /\ seen' = seen \cup r.rows
      /\ UNCHANGED <<open, rows, key>>
  BY <1>1, <1>2, PagedHook DEF Arrive, Reading, PagesFollow
<1>4. /\ TellsOfPage(k, r)
      /\ atStart' \subseteq seen \cup r.rows \cup Beyond(k.filter, k.page + 1)
      /\ ~r.more => atStart' \subseteq seen \cup r.rows
  BY <1>1, <1>2, <1>3 DEF Reading, SeenOrBeyond
<1>5. Beyond(k.filter, k.page + 1) \subseteq Beyond(k.filter, k.page)
  BY <1>1, <1>2, NextPage DEF PageInv
<1>6. \A f, p : Reaches(f, p)' = Reaches(f, p) /\ Beyond(f, p)' = Beyond(f, p)
  BY <1>3 DEF Reaches, Beyond, All, UpTo
<1>7. PagesFollow'
  <2>1. (key.page > 0 => Reaches(key.filter, key.page))'
    BY <1>3, <1>6 DEF Reading, PagesFollow
  <2>2. (shown.key \in Key /\ TellsOfPage(shown.key, shown))'
    BY <1>1, <1>2, <1>3, <1>4, <1>6 DEF TellsOfPage
  <2> QED  BY <1>3, <2>1, <2>2 DEF PagesFollow
<1>8. SeenOrBeyond'
  <2>1. (atStart \subseteq seen \cup Beyond(key.filter, key.page + 1))'
    BY <1>2, <1>3, <1>4, <1>6
  <2>2. (atStart \subseteq seen \cup Beyond(key.filter, key.page))'
    BY <1>2, <1>3, <1>4, <1>5, <1>6
  <2>3. (~shown.more => atStart \subseteq seen)'
    BY <1>3, <1>4
  <2> QED  BY <1>3, <2>1, <2>2, <2>3 DEF SeenOrBeyond
<1> QED  BY <1>7, <1>8 DEF Reading

LEMMA FailReads ==
    ASSUME PageInv, Reading, NEW c \in calls, Fail(c), open \in Paged
    PROVE  Reading'
<1>1. c.key = key /\ key \in Key
  BY PagedCalls
<1>2. /\ calls' = {} /\ shown' = NoContent /\ failure' = key /\ failure' # NoKey
      /\ UNCHANGED <<open, rows, key, atStart, seen>>
  BY <1>1, PagedHook, NoKeyIsNoKey DEF Fail, Reading, PagesFollow
<1>3. \A f, p : Reaches(f, p)' = Reaches(f, p) /\ Beyond(f, p)' = Beyond(f, p)
  BY <1>2 DEF Reaches, Beyond, All, UpTo
<1>4. (key.page > 0 => Reaches(key.filter, key.page))'
  BY <1>2, <1>3 DEF Reading, PagesFollow
<1>5. (atStart \subseteq seen \cup Beyond(key.filter, key.page))'
  BY <1>2, <1>3 DEF Reading, SeenOrBeyond
<1>6. PagesFollow'
  BY <1>2, <1>4 DEF PagesFollow, NoContent
<1>7. SeenOrBeyond'
  BY <1>2, <1>5 DEF SeenOrBeyond
<1> QED  BY <1>6, <1>7 DEF Reading

LEMMA ReadingInit == Init => Reading
<1> SUFFICES ASSUME Init PROVE Reading
  OBVIOUS
<1>1. PICK f \in Filters : key = FirstKey(f)
  BY DEF Init
<1>2. key.page = 0 /\ key \in Key
  BY <1>1, LoaderAssumption DEF FirstKey, Key
<1>3. PICK k, n : k = key /\ n = Call(k, FALSE)
  OBVIOUS
<1>4. ~n.reply.ok /\ \A c \in calls : c = n
  BY <1>3, CallIsCall DEF Init
<1>5. shown = NoContent /\ failure = NoKey /\ loadedKey = NoKey /\ atStart = {}
  BY DEF Init
<1>6. loadedKey # key
  BY <1>2, <1>5, NoKeyIsNoKey
<1>7. PagesFollow
  BY <1>2, <1>4, <1>5 DEF PagesFollow
<1>8. SeenOrBeyond
  BY <1>4, <1>5, <1>6 DEF SeenOrBeyond
<1> QED  BY <1>7, <1>8 DEF Reading

LEMMA ReadingNext == PageInv /\ Reading /\ [Next]_vars => Reading'
<1> SUFFICES ASSUME PageInv, Reading, [Next]_vars PROVE Reading'
  OBVIOUS
<1>1. CASE UNCHANGED vars
  <2>1. \A f, p : Reaches(f, p)' = Reaches(f, p) /\ Beyond(f, p)' = Beyond(f, p)
    BY <1>1 DEF vars, Reaches, Beyond, All, UpTo
  <2>2. ASSUME NEW k, NEW a, TellsOfPage(k, a) PROVE TellsOfPage(k, a)'
    BY <2>1, <2>2 DEF TellsOfPage
  <2>3. /\ UNCHANGED <<open, key, calls, shown, failure, loadedKey, atStart, seen>>
        /\ Reaches(key.filter, key.page)' <=> Reaches(key.filter, key.page)
        /\ Beyond(key.filter, key.page)' = Beyond(key.filter, key.page)
        /\ Beyond(key.filter, key.page + 1)' = Beyond(key.filter, key.page + 1)
    BY <1>1, <2>1 DEF vars
  <2>4. PagesFollow'
    <3>1. open \in Paged /\ shown # NoContent =>
            shown.key \in Key /\ TellsOfPage(shown.key, shown)'
      BY <2>2, <2>3 DEF Reading, PagesFollow
    <3> QED  BY <2>3, <3>1 DEF Reading, PagesFollow, TellsOfPage, Reaches
  <2>5. SeenOrBeyond'
    <3>1. \A c \in calls : open \in Paged /\ c.reply.ok => TellsOfPage(c.key, c.reply)'
      BY <2>2 DEF Reading, SeenOrBeyond
    <3> QED  BY <2>3, <3>1 DEF Reading, SeenOrBeyond, TellsOfPage, Beyond
  <2> QED  BY <2>4, <2>5 DEF Reading
<1>2. CASE open \notin Paged
  <2>1. open' = open
    BY DEF Next, ChangeFilter, ChangePage, Reload, Reset, NewRow, Serve, Arrive, Fail, vars
  <2> QED  BY <1>2, <2>1 DEF Reading, PagesFollow, SeenOrBeyond
<1>3. CASE Next /\ open \in Paged
  <2>1. ASSUME NEW f \in Filters, ChangeFilter(f) PROVE Reading'
    BY <1>3, <2>1, ChangeFilterReads
  <2>2. ASSUME NEW p \in 0..MaxMoves, ChangePage(p) PROVE Reading'
    BY <2>2, ChangePageReads
  <2>3. CASE Reload
    BY <1>3, <2>3, ReloadReads
  <2>4. CASE Reset
    BY <1>3, <2>4, PagedHook DEF Reset
  <2>5. CASE NewRow
    BY <1>3, <2>5, NewRowReads
  <2>6. ASSUME NEW c \in calls, Serve(c) \/ Arrive(c) \/ Fail(c) PROVE Reading'
    BY <1>3, <2>6, ServeReads, ArriveReads, FailReads
  <2> QED  BY <1>3, <2>1, <2>2, <2>3, <2>4, <2>5, <2>6 DEF Next
<1> QED  BY <1>1, <1>2, <1>3

LEMMA PagesRead == Spec => [](PageInv /\ Reading)
<1>1. PageInv /\ Reading /\ [Next]_vars => PageInv' /\ Reading'
  BY PageInvNext, ReadingNext
<1> QED  BY <1>1, PageInvInit, ReadingInit, PTL DEF Spec

(* Who reads AuditLogsView.tsx or NotificationsPanel.tsx from the first page *)
(* to the last one sees every row that was there at the start, however many *)
(* rows are added above or below the page meanwhile.                        *)
THEOREM ReadersMissNothing == Spec => []NothingMissed
<1>1. PageInv /\ Reading => NothingMissed
  BY PagedLoaded DEF NothingMissed, Reading, SeenOrBeyond
<1> QED  BY <1>1, PagesRead, PTL
-----------------------------------------------------------------------------
(* A page that says that there is nothing.                                  *)
LEMMA WorksHook ==
    ASSUME open = "WorksList"
    PROVE  hook = useWorks /\ ~hook.keyed /\ ~hook.flagsChange /\ ~hook.validates
           /\ hook.atOnce
<1>1. hook = useWorks
  BY DEF hook, HookOf
<1>2. useWorks = [useEvents EXCEPT !.keyed = FALSE, !.keepsRows = TRUE, !.keepsError = TRUE]
  BY DEF useWorks
<1>3. useWorks.keyed = FALSE
  BY HookFacts DEF useWorks, useEvents
<1> QED  BY <1>1, <1>3 DEF useWorks, useEvents

LEMMA WorksAreAnswered == Spec => []WorksAnswered
<1>1. Init => WorksAnswered
  BY WorksHook DEF Init, WorksAnswered
<1>2. PageInv /\ WorksAnswered /\ [Next]_vars => WorksAnswered'
  <2> SUFFICES ASSUME PageInv, WorksAnswered, [Next]_vars PROVE WorksAnswered'
    OBVIOUS
  <2>1. open' = open
    BY DEF Next, ChangeFilter, ChangePage, Reload, Reset, NewRow, Serve, Arrive, Fail, vars
  <2> SUFFICES ASSUME open = "WorksList" PROVE WorksAnswered'
    BY <2>1 DEF WorksAnswered
  <2>2. ASSUME NEW f \in Filters, ChangeFilter(f) PROVE WorksAnswered'
    BY <2>2, WorksHook DEF ChangeFilter, Flag, WorksAnswered
  <2>3. ASSUME NEW c \in calls, Arrive(c) PROVE WorksAnswered'
    BY <2>3, NoKeyIsNoKey DEF Arrive, PageInv, Types, WorksAnswered
  <2>4. ASSUME NEW c \in calls, Fail(c) PROVE WorksAnswered'
    BY <2>4, NoKeyIsNoKey DEF Fail, PageInv, Types, WorksAnswered
  <2>5. ASSUME NEW c \in calls, Serve(c) PROVE WorksAnswered'
    BY <2>5 DEF Serve, WorksAnswered
  <2>6. CASE NewRow \/ UNCHANGED vars
    BY <2>6 DEF NewRow, vars, WorksAnswered
  <2> QED
    BY <2>2, <2>3, <2>4, <2>5, <2>6 DEF Next, ChangePage, Reload, Reset, Paged, Reloading
<1> QED  BY <1>1, <1>2, PagesHold, PTL DEF Spec

(* What the pages that can say so require.                                  *)
LEMMA SaysNothing ==
    ASSUME open \in DOMAIN HookOf, View.empty, open # "SavedFilters"
    PROVE  \/ /\ open \in {"EventsList", "AuditLogs", "Notifications", "Report"}
              /\ ~Loading /\ ~Failed /\ NoRows
              /\ open \in {"AuditLogs", "Report"} => key.filter \notin InvalidFilters
           \/ open = "WorksList" /\ ~Loading /\ ~Failed
           \/ open = "Exploration" /\ shown.key # NoKey
<1>1. open \in {"EventsList", "AuditLogs", "Notifications", "EventDetail", "EventForm",
                "WorkDetail", "Profile", "Report", "CompareWorks", "WorksList",
                "Exploration", "Recommendations", "TourPlanner"}
  BY DEF HookOf
<1>2. CASE open = "EventsList"
  BY <1>2 DEF View, EventsListView, Parts
<1>3. CASE open = "AuditLogs"
  BY <1>3 DEF View, AuditLogsView, Parts
<1>4. CASE open = "Notifications"
  BY <1>4 DEF View, NotificationsPanel, Parts
<1>5. CASE open = "Report"
  BY <1>5 DEF View, ReportView, Parts
<1>6. CASE open = "WorksList"
  BY <1>6 DEF View, WorksListView, Parts
<1>7. CASE open = "Exploration"
  BY <1>7 DEF View, ExplorationView, Parts
<1>8. CASE open \in {"EventDetail", "EventForm", "WorkDetail", "Profile", "CompareWorks",
                     "Recommendations", "TourPlanner"}
  BY <1>8
  DEF View, EventDetailView, EventFormView, WorkDetailView, ProfileView, CompareWorksView,
      RecommendationsSection, TourPlannerView, Parts
<1> QED  BY <1>1, <1>2, <1>3, <1>4, <1>5, <1>6, <1>7, <1>8

(* No page of front-react says "nothing here" before the server has said it *)
(* or because a request failed, and a page after the first has rows         *)
(* (EventsListView.tsx, AuditLogsView.tsx, NotificationsPanel.tsx,          *)
(* ReportView.tsx, WorksListView.tsx, ExplorationView.tsx).                 *)
THEOREM NothingIsSaidEarly == Spec => []EmptyMeansNone
<1>1. PageInv /\ Reading /\ WorksAnswered => EmptyMeansNone
  <2> SUFFICES ASSUME PageInv, Reading, WorksAnswered, View.empty, open # "SavedFilters"
               PROVE  shown.key # NoKey /\ (open \in Paged => key.page = 0)
    BY DEF EmptyMeansNone
  <2>1. open \in DOMAIN HookOf /\ key \in Key /\ key # NoKey /\ key.page \in Nat
    BY NoKeyIsNoKey, LoaderAssumption DEF PageInv, Types, Key
  <2>2. CASE /\ open \in {"EventsList", "AuditLogs", "Notifications", "Report"}
             /\ ~Loading /\ ~Failed /\ NoRows
             /\ open \in {"AuditLogs", "Report"} => key.filter \notin InvalidFilters
    <3>1. hook.keyed /\ Valid(key)
      <4>1. open # "Report" => hook = useEvents
        BY <2>2 DEF hook, HookOf, useAuditLogs, useNotifications
      <4>2. open = "Report" => hook = useReport
        BY DEF hook, HookOf
      <4> QED  BY <2>2, <4>1, <4>2 DEF useEvents, useReport, Valid
    <3>2. loadedKey = key /\ failure = NoKey /\ shown.rows = {}
      BY <2>2, <3>1 DEF Loading, Failed, NoRows
    <3>3. shown.key = key
      BY <2>2, <3>1, <3>2 DEF PageInv, AnswerIsLoaded
    <3>4. ASSUME open \in Paged, key.page # 0 PROVE FALSE
      <4>1. shown # NoContent
        BY <2>1, <3>3 DEF NoContent
      <4> QED  BY <2>1, <3>2, <3>3, <3>4, <4>1 DEF Reading, PagesFollow, TellsOfPage
    <3> QED  BY <2>1, <3>3, <3>4
  <2>3. CASE open = "WorksList" /\ ~Loading /\ ~Failed
    BY <2>3, WorksHook DEF WorksAnswered, Loading, Failed, Valid, Paged
  <2>4. CASE open = "Exploration" /\ shown.key # NoKey
    BY <2>4 DEF Paged
  <2> QED  BY <2>1, <2>2, <2>3, <2>4, SaysNothing
<1> QED  BY <1>1, PagesRead, WorksAreAnswered, PTL
=============================================================================
