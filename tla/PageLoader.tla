----------------------------- MODULE PageLoader -----------------------------
(***************************************************************************)
(* The pages of front-react that load data: one page is open, its hook     *)
(* asks the server for what the page's key names (a filter, a page number, *)
(* a number of reloads), the answers arrive in any order, and the table    *)
(* grows meanwhile.  The hooks differ in a few facts, which are a record   *)
(* for each of them; the actions are those of the code they share.         *)
(***************************************************************************)
EXTENDS Naturals, FiniteSets, Sequences, SequencesExt

CONSTANTS
    Pages,          \* the pages of this instance, a subset of DOMAIN HookOf
    Filters,        \* what a user may ask for: filters, an id, a set of ids, criteria
    InvalidFilters, \* a reversed range of dates, too few works to compare
    Selected,       \* the rows that each filter selects
    PageSize,
    MaxRows, MaxMoves   \* bounds: rows of the table, moves of the user

ASSUME LoaderAssumption ==
    /\ InvalidFilters \subseteq Filters
    /\ Selected \in [Filters -> SUBSET (1..MaxRows)]
    /\ PageSize \in Nat \ {0}
    /\ MaxRows \in Nat /\ MaxMoves \in Nat

VARIABLES
    open,       \* the page that is open
    rows,       \* the server's table, in the order of its query
    key,        \* what the page asks for now (requestKey)
    calls,      \* the requests that were neither cancelled nor delivered
    shown,      \* the content: the last answer that was kept
    failure,    \* the error: the key whose request failed, or NoKey
    loadedKey,  \* the key of the last answer (hooks with a key)
    busy,       \* the loading flag (hooks with a flag)
    moves,      \* moves of the user so far
    reloadedAt, \* history: rows of the table at the last reload
    atStart,    \* history: rows that the first page's query saw
    seen        \* history: rows shown since then

vars == <<open, rows, key, calls, shown, failure, loadedKey, busy, moves,
          reloadedAt, atStart, seen>>

Key == [filter : Filters, page : 0..MaxMoves, reload : 0..MaxMoves]
NoKey == [filter |-> "none"]
-----------------------------------------------------------------------------
(* The hooks.  keyed: loading is "the loaded key is not the requested one", *)
(* otherwise a flag; cancels: the cleanup drops the earlier request;        *)
(* atOnce: asks when it mounts; validates: sends nothing for invalid input; *)
(* flagsChange: a change of the key sets the flag and clears the error;     *)
(* empties: it clears the content too; keepsRows: a failure keeps it;       *)
(* keepsError: a success does not clear the error.                          *)

useEvents == [keyed |-> TRUE, cancels |-> TRUE, atOnce |-> TRUE, validates |-> FALSE,
              flagsChange |-> FALSE, empties |-> FALSE, keepsRows |-> FALSE,
              keepsError |-> FALSE]
useEvent == useEvents
useAuditLogs == useEvents
useNotifications == useEvents
useSavedFilters == useEvents
useReport == [useEvents EXCEPT !.validates = TRUE]
useCompareWorks == [useEvents EXCEPT !.validates = TRUE]
useProfile == [useEvents EXCEPT !.keepsRows = TRUE, !.keepsError = TRUE]
useWorks == [useEvents EXCEPT !.keyed = FALSE, !.keepsRows = TRUE, !.keepsError = TRUE]
useWork == useWorks
useRecommendations == useWorks
useExploration == [useWorks EXCEPT !.cancels = FALSE, !.flagsChange = TRUE]
useTourPlan == [useWorks EXCEPT !.atOnce = FALSE, !.flagsChange = TRUE, !.empties = TRUE]

(* What a page shows, given whether its hook loads, failed, has no rows,    *)
(* and whether the key is a valid one.                                      *)

Parts(error, skeleton, empty, list) ==
    [error |-> error, skeleton |-> skeleton, empty |-> empty, list |-> list]

EmptyOnFailureToo(loading, failed, none, valid) ==
    Parts(failed, loading, ~loading /\ none, ~loading /\ ~failed /\ ~none)
EventsListView(loading, failed, none, valid) ==
    Parts(failed, loading, ~loading /\ ~failed /\ none, ~loading /\ ~failed /\ ~none)
AuditLogsView(loading, failed, none, valid) ==
    LET card == ~failed /\ valid IN
    Parts(failed, card /\ loading, card /\ ~loading /\ none, card /\ ~loading /\ ~none)
NotificationsPanel(loading, failed, none, valid) ==
    Parts(failed, loading, ~loading /\ ~failed /\ none, ~loading /\ ~none)
SavedFiltersView(loading, failed, none, valid) ==
    Parts(failed, loading, ~loading /\ none, ~loading /\ ~none)
EventDetailView(loading, failed, none, valid) ==
    Parts(~loading /\ (failed \/ none), loading, FALSE, ~loading /\ ~failed /\ ~none)
EventFormView(loading, failed, none, valid) ==
    Parts(failed, loading, FALSE, ~loading /\ ~failed)
WorkDetailView(loading, failed, none, valid) ==
    Parts(~loading /\ (failed \/ none), loading, FALSE, ~loading /\ ~failed /\ ~none)
ProfileView(loading, failed, none, valid) ==
    Parts(failed, loading, FALSE, ~loading /\ ~none)
ReportView(loading, failed, none, valid) ==
    Parts(failed /\ valid, loading, ~loading /\ ~failed /\ valid /\ none,
          ~loading /\ ~failed /\ valid /\ ~none)
CompareWorksView(loading, failed, none, valid) ==
    Parts(failed /\ ~loading, loading, FALSE, ~loading /\ ~failed /\ ~none)
WorksListView(loading, failed, none, valid) ==
    Parts(failed /\ ~loading, loading, ~loading /\ ~failed /\ none, ~loading /\ ~failed /\ ~none)
ExplorationView(loading, failed, none, valid) ==
    Parts(failed, loading, ~loading /\ shown.key # NoKey /\ none,
          ~loading /\ shown.key # NoKey /\ ~none)
RecommendationsSection(loading, failed, none, valid) ==
    Parts(~loading /\ failed, loading, FALSE, ~loading /\ ~failed /\ ~none)
TourPlannerView(loading, failed, none, valid) ==
    Parts(failed /\ ~loading, loading, FALSE, ~none /\ ~loading)

(* The hook of each page, and what its controls let the user change.        *)
HookOf ==
    [EventsList |-> useEvents, AuditLogs |-> useAuditLogs,
     Notifications |-> useNotifications, SavedFilters |-> useSavedFilters,
     EventDetail |-> useEvent, EventForm |-> useEvent, WorkDetail |-> useWork,
     Profile |-> useProfile, Report |-> useReport, CompareWorks |-> useCompareWorks,
     WorksList |-> useWorks, Exploration |-> useExploration,
     Recommendations |-> useRecommendations, TourPlanner |-> useTourPlan]
ASSUME PagesAssumption == Pages \subseteq DOMAIN HookOf
Paged == {"AuditLogs", "Notifications"}
Reloading == {"AuditLogs", "Notifications", "SavedFilters", "WorkDetail", "Profile"}
Fixed == {"SavedFilters", "Profile", "Recommendations"}
Single == {"EventDetail", "EventForm", "WorkDetail"}

hook == HookOf[open]
Valid(k) == hook.validates => k.filter \notin InvalidFilters
-----------------------------------------------------------------------------
(* The server: the rows of a page of its query, and whether another page    *)
(* follows.  The place of a row is the number of rows that the filter       *)
(* selects up to it.                                                        *)

UpTo(f, i) == {rows[h] : h \in 1..i} \cap Selected[f]
All(f) == UpTo(f, Len(rows))
SliceOffByOne(f, page, size) ==
    {rows[i] : i \in {j \in DOMAIN rows : /\ rows[j] \in Selected[f]
                                          /\ page * size + page < Cardinality(UpTo(f, j))
                                          /\ Cardinality(UpTo(f, j)) <= (page + 1) * size + page}}
Slice(f, page, size) ==
    {rows[i] : i \in {j \in DOMAIN rows : /\ rows[j] \in Selected[f]
                                          /\ page * size < Cardinality(UpTo(f, j))
                                          /\ Cardinality(UpTo(f, j)) <= (page + 1) * size}}
FullPage(f, page, size) == Cardinality(All(f)) >= (page + 1) * size
HasMore(f, page, size) == Cardinality(All(f)) > (page + 1) * size

NoReply == [ok |-> FALSE, version |-> 0]
Answer(k) ==
    [ok |-> TRUE, version |-> Len(rows), table |-> All(k.filter),
     rows |-> IF open \in Paged THEN Slice(k.filter, k.page, PageSize) ELSE All(k.filter),
     more |-> open \in Paged /\ HasMore(k.filter, k.page, PageSize)]
Refuses(k) ==
    \/ k.filter \in InvalidFilters
    \/ open \in Single /\ All(k.filter) = {}

NoContent == [key |-> NoKey, rows |-> {}, more |-> FALSE, version |-> 0]

LoadingOfFilter == Valid(key) /\ loadedKey.filter # key.filter
LoadingOfQuery ==
    Valid(key) /\ (loadedKey = NoKey \/ loadedKey.filter # key.filter \/ loadedKey.page # key.page)
Loading == IF hook.keyed THEN Valid(key) /\ loadedKey # key ELSE busy
Failed == failure # NoKey /\ Valid(key)
NoRows == shown.rows = {} \/ ~Valid(key)
-----------------------------------------------------------------------------
(* A request for k, issued by the effect of the hook or by its refetch,     *)
(* which nothing cancels.                                                   *)
Call(k, refetch) == [key |-> k, at |-> moves, refetch |-> refetch, reply |-> NoReply]
AllCalls == calls
Survivors == IF hook.cancels THEN {c \in calls : c.refetch} ELSE calls
Ask(k) == calls' = Survivors \cup (IF Valid(k) THEN {Call(k, FALSE)} ELSE {})

NextReload(k) == [k EXCEPT !.reload = @ + 1]
FirstKey(f) == [filter |-> f, page |-> 0, reload |-> 0]

Init ==
    /\ open \in Pages
    /\ rows \in UNION {[1..n -> 1..n] : n \in 0..(MaxRows - 1)}
    /\ \A i, j \in DOMAIN rows : i # j => rows[i] # rows[j]
    /\ \E f \in Filters : key = FirstKey(f)
    /\ moves = 0
    /\ calls = IF hook.atOnce /\ Valid(key) THEN {Call(key, FALSE)} ELSE {}
    /\ shown = NoContent /\ failure = NoKey /\ loadedKey = NoKey
    /\ busy = hook.atOnce
    /\ reloadedAt = 0 /\ atStart = {} /\ seen = {}

Move == moves < MaxMoves /\ moves' = moves + 1

(* What the change of the key does to the state of a hook with a flag.      *)
Flag ==
    IF hook.flagsChange
    THEN /\ busy' = TRUE /\ failure' = NoKey
         /\ shown' = IF hook.empties THEN NoContent ELSE shown
    ELSE UNCHANGED <<busy, failure, shown>>

(* The user chooses another filter, id or era: the page number goes back to *)
(* the first.  The form of the tour may also send the same criteria again.  *)
ChangeFilter(f) ==
    /\ Move
    /\ open \notin Fixed
    /\ IF open = "TourPlanner" THEN ~busy ELSE f # key.filter
    /\ key' = [key EXCEPT !.filter = f, !.page = 0]
    /\ Ask(key') /\ Flag
    /\ atStart' = {} /\ seen' = {}
    /\ UNCHANGED <<open, rows, loadedKey, reloadedAt>>

(* Previous and next page, disabled while the page loads.                   *)
ChangePage(p) ==
    /\ Move
    /\ open \in Paged /\ ~Loading
    /\ open = "AuditLogs" => ~Failed
    /\ \/ p = key.page + 1 /\ shown.more
       \/ p + 1 = key.page
    /\ key' = [key EXCEPT !.page = p]
    /\ Ask(key')
    /\ UNCHANGED <<open, rows, shown, failure, loadedKey, busy, reloadedAt, atStart, seen>>

(* reload and refetch.  A hook with a key counts reloads in it; the refetch *)
(* of useWork, after a comment, sets the flag and is never cancelled.       *)
Reload ==
    /\ Move
    /\ open \in Reloading
    /\ open \in Paged => ~Loading
    /\ open = "Profile" => Failed
    /\ open = "WorkDetail" => ~Loading /\ ~Failed
    /\ reloadedAt' = Len(rows)
    /\ IF hook.keyed
       THEN /\ key' = NextReload(key)
            /\ Ask(key')
            /\ failure' = IF open = "Profile" THEN NoKey ELSE failure
            /\ UNCHANGED busy
       ELSE /\ calls' = calls \cup {Call(key, TRUE)}
            /\ busy' = TRUE /\ failure' = NoKey
            /\ UNCHANGED key
    /\ UNCHANGED <<open, rows, shown, loadedKey, atStart, seen>>

(* "Limpiar" of the tour: the request is aborted and the plan goes.         *)
Reset ==
    /\ Move
    /\ open = "TourPlanner"
    /\ calls' = {}
    /\ shown' = NoContent /\ failure' = NoKey /\ busy' = FALSE
    /\ UNCHANGED <<open, rows, key, loadedKey, reloadedAt, atStart, seen>>

(* Somebody else, or the user in a form, adds a row, anywhere in the order. *)
NewRow ==
    /\ Len(rows) < MaxRows
    /\ \E i \in 1..(Len(rows) + 1) : rows' = InsertAt(rows, i, Len(rows) + 1)
    /\ UNCHANGED <<open, key, calls, shown, failure, loadedKey, busy, moves,
                   reloadedAt, atStart, seen>>

(* The server reads its table for a request; the answer is on its way.      *)
Serve(c) ==
    /\ c.reply = NoReply /\ ~Refuses(c.key)
    /\ calls' = (calls \ {c}) \cup {[c EXCEPT !.reply = Answer(c.key)]}
    /\ UNCHANGED <<open, rows, key, shown, failure, loadedKey, busy, moves,
                   reloadedAt, atStart, seen>>

(* .then: the content, the error and the loaded key are set together.       *)
Arrive(c) ==
    /\ c.reply.ok
    /\ calls' = calls \ {c}
    /\ shown' = [key |-> c.key, rows |-> c.reply.rows, more |-> c.reply.more,
                 version |-> c.reply.version]
    /\ failure' = IF hook.keepsError THEN failure ELSE NoKey
    /\ loadedKey' = IF hook.keyed THEN c.key ELSE loadedKey
    /\ busy' = FALSE
    /\ atStart' = IF c.key.page = 0 /\ seen = {} THEN c.reply.table ELSE atStart
    /\ seen' = seen \cup c.reply.rows
    /\ UNCHANGED <<open, rows, key, moves, reloadedAt>>

(* .catch: the server refuses the request, fails, or cannot be reached.     *)
Fail(c) ==
    /\ calls' = calls \ {c}
    /\ shown' = IF hook.keepsRows THEN shown ELSE NoContent
    /\ failure' = c.key
    /\ loadedKey' = IF hook.keyed THEN c.key ELSE loadedKey
    /\ busy' = FALSE
    /\ UNCHANGED <<open, rows, key, moves, reloadedAt, atStart, seen>>

Next ==
    \/ \E f \in Filters : ChangeFilter(f)
    \/ \E p \in 0..MaxMoves : ChangePage(p)
    \/ Reload \/ Reset \/ NewRow
    \/ \E c \in calls : Serve(c) \/ Arrive(c) \/ Fail(c)

Spec == Init /\ [][Next]_vars
FairSpec == Spec /\ WF_vars(\E c \in calls : Serve(c) \/ Arrive(c) \/ Fail(c))
-----------------------------------------------------------------------------
View ==
    LET l == Loading  f == Failed  n == NoRows  v == key.filter \notin InvalidFilters
    IN  CASE open = "EventsList" -> EventsListView(l, f, n, v)
          [] open = "AuditLogs" -> AuditLogsView(l, f, n, v)
          [] open = "Notifications" -> NotificationsPanel(l, f, n, v)
          [] open = "SavedFilters" -> SavedFiltersView(l, f, n, v)
          [] open = "EventDetail" -> EventDetailView(l, f, n, v)
          [] open = "EventForm" -> EventFormView(l, f, n, v)
          [] open = "WorkDetail" -> WorkDetailView(l, f, n, v)
          [] open = "Profile" -> ProfileView(l, f, n, v)
          [] open = "Report" -> ReportView(l, f, n, v)
          [] open = "CompareWorks" -> CompareWorksView(l, f, n, v)
          [] open = "WorksList" -> WorksListView(l, f, n, v)
          [] open = "Exploration" -> ExplorationView(l, f, n, v)
          [] open = "Recommendations" -> RecommendationsSection(l, f, n, v)
          [] open = "TourPlanner" -> TourPlannerView(l, f, n, v)

(* A hook that compares keys shows, once it does not load, the answer to    *)
(* what the page asks for now: never the rows or the error of an earlier    *)
(* filter, page or reload, in whatever order the answers arrived.           *)
SettledShowsItsKey ==
    hook.keyed /\ Valid(key) /\ ~Loading =>
        IF Failed THEN failure = key ELSE shown.key = key

(* A page that cancels what it asked before ends with the content of the    *)
(* last request; WorkDetail is left out, whose refetch is never cancelled.  *)
LastRequestWins ==
    hook.cancels /\ open # "WorkDetail" /\ Valid(key) /\ calls = {} /\ ~Failed =>
        shown.key \in {key, NoKey}

(* What a page shows is what it was asked last, by its keys or by its       *)
(* cancellations, in whatever order the answers arrived.                    *)
ShowsWhatWasAsked == SettledShowsItsKey /\ LastRequestWins

(* After a reload the page shows nothing older than that reload: a user who *)
(* saved a filter sees it in the list that the save reloads.                *)
FreshAfterReload ==
    hook.keyed /\ Valid(key) /\ ~Loading /\ ~Failed /\ key.reload > 0 =>
        shown.version >= reloadedAt

(* Who goes through the pages of a growing table to the last one has seen   *)
(* every row that was there when the first page was read.                   *)
NothingMissed ==
    open \in Paged /\ ~Loading /\ ~Failed /\ ~shown.more => atStart \subseteq seen

(* A page says that there is nothing only after the server has said so,     *)
(* never because the request failed, and nobody is led to an empty page     *)
(* beyond the last one.  SavedFiltersView is left out: it says that there   *)
(* is nothing under an error as well.                                       *)
EmptyMeansNone ==
    View.empty /\ open # "SavedFilters" =>
        shown.key # NoKey /\ (open \in Paged => key.page = 0)

(* No page loads for ever: every request is answered, refused or given up,  *)
(* and what was cancelled does not leave its page waiting.                  *)
Settles == []<>~Loading
=============================================================================
