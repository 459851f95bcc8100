----------------------------- MODULE FormScreens -----------------------------
(***************************************************************************)
(* The screens of front-react that write, and the services of backend-rest *)
(* behind them.  A form is sent once per press of its button; the service  *)
(* checks in a transaction and writes at its commit, where the keys of the *)
(* tables have the last word; the answer, or the failure of the network,   *)
(* comes back to a page that may have closed, or may show another form.    *)
(***************************************************************************)
EXTENDS Naturals, FiniteSets, FiniteSetsExt

CONSTANTS
    Clients,        \* browser tabs, of one user or of one each
    Keys,           \* names, emails, works and events that the forms name
    Views,          \* the screens of this instance, a subset of DOMAIN Screen
    MaxViews, MaxForms, MaxSends, MaxLosses
                    \* bounds: screens of a behaviour, forms, requests, lost ones

ASSUME FormAssumption ==
    /\ {MaxViews, MaxForms, MaxSends, MaxLosses} \subseteq Nat
    /\ "none" \notin Keys

VARIABLES
    views,      \* the screens that this behaviour goes to (fixed)
    oneUser,    \* whether the tabs are of one user (fixed)
    rows,       \* the rows of all tables
    works,      \* the works that exist
    deletion,   \* a deleteWork in progress: the work and the comments it saw
    requests,   \* writes that were sent and not forgotten
    page,       \* what each client has open
    forms, sends,   \* forms opened and requests sent so far
    lost,       \* history: forms that saw the network fail
    left,       \* history: forms that their client left while they were sent
    taken       \* history: forms whose success closed another of their client

setting == <<views, oneUser>>
vars == <<setting, rows, works, deletion, requests, page, forms, sends, lost, left, taken>>
-----------------------------------------------------------------------------
(* The screens: the table they write, whether its rows have a unique key,   *)
(* whether the form opens with the page or later, in a dialog, and whether  *)
(* a success goes to another page.  Home stands for the pages without one. *)

Written(table, unique, dialog, navigates) ==
    [table |-> table, unique |-> unique, dialog |-> dialog, navigates |-> navigates]

Screen ==
    [Home |-> Written("none", FALSE, TRUE, FALSE),
     RegisterView |-> Written("users", TRUE, FALSE, TRUE),
     EventFormView |-> Written("events", FALSE, FALSE, TRUE),
     SavedFiltersView |-> Written("filters", TRUE, TRUE, FALSE),
     EventsListView |-> Written("filters", TRUE, TRUE, FALSE),
     WorkDetailView |-> Written("comments", FALSE, FALSE, FALSE),
     EventDetailView |-> Written("registrations", TRUE, TRUE, FALSE)]

ASSUME ViewsAssumption == Views \subseteq DOMAIN Screen

NoForm == [op |-> "none", form |-> 0]
Form(op, n) == [op |-> op, form |-> n]
NoOverride == [item |-> "none", value |-> FALSE]

(* A page that opens: its own form, if it has one, has the page's number.   *)
Opened(view, item, n) ==
    [view |-> view, item |-> item, mount |-> n, submitting |-> FALSE,
     form |-> IF Screen[view].dialog THEN NoForm ELSE Form("create", n),
     loaded |-> "asked", override |-> NoOverride]

isRegisteredAnywhere(p) ==
    IF p.override # NoOverride THEN p.override.value ELSE p.loaded = "yes"
isRegistered(p) == IF p.override.item = p.item THEN p.override.value ELSE p.loaded = "yes"

(* The buttons that send are disabled while their page waits.               *)
alwaysEnabled(p) == TRUE
enabled(p) == ~p.submitting

User(c) == IF oneUser THEN "user" ELSE c

(* The rows that a client's write of key k meets: registrations and filters *)
(* are of a user.                                                           *)
Matching(table, k, c) ==
    {r \in rows : r.table = table /\ r.key = k
                     /\ (table \in {"registrations", "filters"} => r.by = User(c))}
-----------------------------------------------------------------------------
Init ==
    /\ views \in kSubset(MaxViews, Views)
    /\ oneUser \in BOOLEAN
    /\ rows = {} /\ works = Keys /\ deletion = {} /\ requests = {}
    /\ page = [c \in Clients |-> Opened("Home", "none", 0)]
    /\ forms = 0 /\ sends = 0
    /\ lost = {} /\ left = {} /\ taken = {}

Leaves(c) ==
    left' = IF page[c].submitting THEN left \cup {<<c, page[c].form.form>>} ELSE left
ServerUnchanged == UNCHANGED <<setting, rows, works, deletion>>

(* Another route.  From one event to another, by a notification, the page   *)
(* stays mounted: only what it loads changes.                               *)
Visit(c, view, item) ==
    LET p == page[c] IN
    /\ forms < MaxForms
    /\ item \in IF view \in {"WorkDetailView", "EventDetailView"} THEN Keys ELSE {"none"}
    /\ IF view = "EventDetailView" /\ p.view = view
       THEN /\ p.item # item
            /\ page' = [page EXCEPT ![c].item = item, ![c].loaded = "asked"]
            /\ UNCHANGED left
       ELSE /\ page' = [page EXCEPT ![c] = Opened(view, item, forms + 1)]
            /\ Leaves(c)
    /\ forms' = forms + 1
    /\ ServerUnchanged /\ UNCHANGED <<requests, sends, lost, taken>>

(* openCreate, openEdit, setToDelete, setSaveOpen.                          *)
OpenDialog(c, op) ==
    /\ page[c].view \in {"SavedFiltersView", "EventsListView"} /\ page[c].form = NoForm
    /\ op # "create" => page[c].view = "SavedFiltersView"
    /\ forms < MaxForms /\ forms' = forms + 1
    /\ page' = [page EXCEPT ![c].form = Form(op, forms + 1)]
    /\ ServerUnchanged /\ UNCHANGED <<requests, sends, lost, left, taken>>

(* Escape, or the cross: while the form is sent only "Cancelar" is disabled. *)
CloseDialog(c) ==
    /\ page[c].view \in {"SavedFiltersView", "EventsListView"} /\ page[c].form # NoForm
    /\ page' = [page EXCEPT ![c].form = NoForm]
    /\ Leaves(c)
    /\ ServerUnchanged /\ UNCHANGED <<requests, forms, sends, lost, taken>>

Write(c, op, k, old, form) ==
    [n |-> sends + 1, by |-> c, mount |-> page[c].mount, view |-> page[c].view,
     table |-> Screen[page[c].view].table, op |-> op, key |-> k, old |-> old,
     form |-> form, stage |-> "sent", lost |-> FALSE]

(* handleSubmit, handleSaveFilter, handleAddComment, handleDelete: the form *)
(* names key k; an edit or a deletion also the row it is about.             *)
Submit(c, k, old) ==
    LET p == page[c] IN
    /\ p.form # NoForm /\ enabled(p) /\ sends < MaxSends
    /\ k \in IF Screen[p.view].unique THEN Keys ELSE {p.item}
    /\ p.form.op # "update" => old = k
    /\ p.form.op # "create" => Matching("filters", old, c) # {}
    /\ requests' = requests \cup {Write(c, p.form.op, k, old, p.form.form)}
    /\ sends' = sends + 1
    /\ page' = [page EXCEPT ![c].submitting = TRUE]
    /\ ServerUnchanged /\ UNCHANGED <<forms, lost, left, taken>>

(* handleRegister and handleCancel of the event that is open and loaded.    *)
Toggle(c) ==
    LET p == page[c] IN
    /\ p.view = "EventDetailView" /\ p.loaded \in {"yes", "no"}
    /\ enabled(p) /\ sends < MaxSends
    /\ requests' = requests \cup
           {Write(c, IF isRegistered(p) THEN "remove" ELSE "create", p.item, p.item, 0)}
    /\ sends' = sends + 1
    /\ page' = [page EXCEPT ![c].submitting = TRUE]
    /\ ServerUnchanged /\ UNCHANGED <<forms, lost, left, taken>>

(* useEvent: the server reads whether the user is registered, and the       *)
(* answer arrives, if the page still asks for that event.                   *)
ServeLoad(c) ==
    /\ page[c].view = "EventDetailView" /\ page[c].loaded = "asked"
    /\ page' = [page EXCEPT ![c].loaded =
                   IF Matching("registrations", page[c].item, c) # {} THEN "isYes" ELSE "isNo"]
    /\ ServerUnchanged /\ UNCHANGED <<requests, forms, sends, lost, left, taken>>
LoadArrives(c) ==
    /\ page[c].loaded \in {"isYes", "isNo"}
    /\ page' = [page EXCEPT ![c].loaded = IF @ = "isYes" THEN "yes" ELSE "no"]
    /\ ServerUnchanged /\ UNCHANGED <<requests, forms, sends, lost, left, taken>>
-----------------------------------------------------------------------------
(* The services.  What each reads before it writes: existsByEmail, the work *)
(* of a comment, the row to edit or to delete; create of a filter and of an *)
(* event read nothing of their tables.  A service also refuses for reasons  *)
(* that are left out here: invalid fields, a full event.                    *)
Admits(r) ==
    IF r.op # "create" THEN Matching(r.table, r.old, r.by) # {}
    ELSE /\ r.table \in {"users", "registrations"} => Matching(r.table, r.key, r.by) = {}
         /\ r.table = "comments" => r.key \in works

(* What the keys of the tables refuse at the commit.                        *)
Violates(r) ==
    \/ r.op = "create" /\ Screen[r.view].unique /\ Matching(r.table, r.key, r.by) # {}
    \/ r.op = "update" /\ r.key # r.old /\ Matching(r.table, r.key, r.by) # {}
    \/ r.op # "create" /\ Matching(r.table, r.old, r.by) = {}
    \/ r.table = "comments" /\ r.key \notin works

Stage(r, stage) == requests' = (requests \ {r}) \cup {[r EXCEPT !.stage = stage]}
Forget(r) == requests' = requests \ {r}

Check(r) ==
    /\ r.stage = "sent" /\ Admits(r)
    /\ Stage(r, "checked")
    /\ ServerUnchanged /\ UNCHANGED <<page, forms, sends, lost, left, taken>>

(* The row of a comment stands for the interaction written with it as well. *)
Commit(r) ==
    LET row == [table |-> r.table, key |-> r.key, by |-> User(r.by), form |-> r.form, n |-> r.n]
        kept == IF r.op = "create" THEN rows ELSE rows \ Matching(r.table, r.old, r.by)
    IN  /\ r.stage = "checked" /\ ~Violates(r)
        /\ rows' = IF r.op = "remove" THEN kept ELSE kept \cup {row}
        /\ IF r.lost THEN Forget(r) ELSE Stage(r, "done")
        /\ UNCHANGED <<setting, works, deletion, page, forms, sends, lost, left, taken>>

(* deleteWork: it deletes the comments it finds and then the work, in one   *)
(* transaction that the foreign key of a later comment rolls back.          *)
CommentsOf(w) == {r \in rows : r.table = "comments" /\ r.key = w}
deleteWork(w) ==
    /\ "WorkDetailView" \in views
    /\ deletion = {} /\ w \in works
    /\ deletion' = {[work |-> w, comments |-> CommentsOf(w)]}
    /\ UNCHANGED <<setting, rows, works, requests, page, forms, sends, lost, left, taken>>
DeletedInTwo(d) ==
    /\ deletion' = {}
    /\ rows' = rows \ d.comments
    /\ works' = IF CommentsOf(d.work) \subseteq d.comments THEN works \ {d.work} ELSE works
    /\ UNCHANGED <<setting, requests, page, forms, sends, lost, left, taken>>
WorkDeleted(d) ==
    /\ deletion' = {}
    /\ IF CommentsOf(d.work) \subseteq d.comments
       THEN rows' = rows \ d.comments /\ works' = works \ {d.work}
       ELSE UNCHANGED <<rows, works>>
    /\ UNCHANGED <<setting, requests, page, forms, sends, lost, left, taken>>
-----------------------------------------------------------------------------
(* The answers.  A state setter of a page that closed does nothing, but its *)
(* navigate still acts.                                                     *)
Mounted(r) == page[r.by].mount = r.mount

(* What a success does to the form that its page shows by then.             *)
Closes(r, p) ==
    /\ r.table # "registrations" /\ p.form # NoForm
    /\ r.table = "filters" => (p.form.op = "remove" <=> r.op = "remove")

Succeed(r) ==
    LET c == r.by
        p == page[c]
        here == Mounted(r)
        goes == Screen[r.view].navigates
        closes == (here \/ goes) /\ Closes(r, p)
    IN  /\ r.stage = "done" /\ ~r.lost
        /\ Forget(r)
        /\ page' = [page EXCEPT ![c] =
              IF goes THEN Opened("Home", "none", 0)
              ELSE IF ~here THEN p
              ELSE CASE r.table = "registrations" ->
                          [p EXCEPT !.submitting = FALSE,
                                    !.override = [item |-> r.key, value |-> r.op = "create"]]
                     [] r.table = "comments" ->
                          [p EXCEPT !.submitting = FALSE, !.form = Form("create", forms + 1)]
                     [] r.table \notin {"registrations", "comments"} ->
                          [p EXCEPT !.submitting = FALSE,
                                    !.form = IF closes THEN NoForm ELSE @]]
        /\ forms' = IF here /\ r.table = "comments" THEN forms + 1 ELSE forms
        /\ taken' = IF closes /\ p.form.form # r.form THEN taken \cup {<<c, r.form>>} ELSE taken
        /\ IF goes /\ ~here THEN Leaves(c) ELSE UNCHANGED left
        /\ ServerUnchanged /\ UNCHANGED <<sends, lost>>

Fails(r) == page' = IF Mounted(r) THEN [page EXCEPT ![r.by].submitting = FALSE] ELSE page

(* 404, 409 or 500 before the commit: the form shows the error and stays.   *)
Refuse(r) ==
    /\ r.stage # "done" /\ ~r.lost
    /\ Forget(r)
    /\ Fails(r)
    /\ ServerUnchanged /\ UNCHANGED <<forms, sends, lost, left, taken>>

(* The network fails; the request may be with the server, or over, or gone. *)
Lose(r) ==
    /\ ~r.lost /\ Cardinality(lost) < MaxLosses
    /\ Fails(r)
    /\ lost' = lost \cup {<<r.by, r.form>>}
    /\ \/ Forget(r)
       \/ r.stage # "done" /\ requests' = (requests \ {r}) \cup {[r EXCEPT !.lost = TRUE]}
    /\ ServerUnchanged /\ UNCHANGED <<forms, sends, left, taken>>

Next ==
    \/ \E c \in Clients :
         \/ \E view \in views, item \in Keys \cup {"none"} : Visit(c, view, item)
         \/ \E op \in {"create", "update", "remove"} : OpenDialog(c, op)
         \/ \E k, old \in Keys \cup {"none"} : Submit(c, k, old)
         \/ CloseDialog(c) \/ Toggle(c) \/ ServeLoad(c) \/ LoadArrives(c)
    \/ \E r \in requests : Check(r) \/ Commit(r) \/ Succeed(r) \/ Refuse(r) \/ Lose(r)
    \/ \E w \in works : deleteWork(w)
    \/ \E d \in deletion : WorkDeleted(d)

Spec == Init /\ [][Next]_vars
-----------------------------------------------------------------------------
(* One form adds one row, an event or a comment too, which have no key of   *)
(* their own, unless the network failed under it and its user sent it again *)
(* without knowing that the first request had been done.  Where there is a  *)
(* key, requests that all found it free still leave it one row: the check   *)
(* of the service is not what keeps it.                                     *)
DuplicatesNeedLostReply ==
    \A r, s \in rows :
        r # s /\ r.table = s.table =>
            /\ r.table \in {"events", "comments"} /\ r.form = s.form
                  => \E c \in Clients : <<c, r.form>> \in lost
            /\ r.table = "users" => r.key # s.key
            /\ r.table \in {"filters", "registrations"} /\ r.by = s.by => r.key # s.key

(* The success of one form closes, or navigates away from, another form     *)
(* that its user has since opened only if he left that first form while it  *)
(* was being sent.                                                          *)
FormClosesByItself == taken \subseteq left

(* The page of an event shows whether its user is registered, in any order  *)
(* of loading, registering, cancelling and going to other events, unless    *)
(* the network failed under him or he left such a page while it wrote.      *)
(* Form 0 stands for the page of an event, which has none.                  *)
ShownRegistration ==
    \A c \in Clients :
        LET p == page[c] IN
        /\ p.view = "EventDetailView" /\ p.loaded \in {"yes", "no"}
        /\ ~p.submitting
        /\ <<c, 0>> \notin left \cup lost
        /\ oneUser => Clients = {c}
        => (isRegistered(p) <=> Matching("registrations", p.item, c) # {})

(* A comment is created for a work that exists and disappears together with *)
(* it, never before, after or alone: a deletion that a later comment makes  *)
(* the foreign key refuse deletes none of the comments it saw either.  That *)
(* a user deletes a comment of his, which no screen asks for, is left out.  *)
CommentsGoWithTheirWork ==
    [][\A r \in rows \cup rows' :
          r.table = "comments" => (r \in rows' <=> r.key \in works')]_vars
=============================================================================
