-------------------------- MODULE FormScreensProofs --------------------------
(***************************************************************************)
(* What the forms keep for every number of tabs, keys, screens, forms and  *)
(* requests: one row for one form, no other form closed, no comment        *)
(* without its work, and the page of an event that shows what its user has *)
(* registered.                                                             *)
(***************************************************************************)
EXTENDS FormScreens, TLAPS

USE FormAssumption, ViewsAssumption

Table == {"none", "users", "events", "filters", "comments", "registrations"}
Unkeyed == {"events", "comments"}
Op == {"create", "update", "remove"}
Item == Keys \cup {"none"}
Page == [view : DOMAIN Screen, item : Item, mount : Nat, submitting : BOOLEAN,
         form : [op : Op \cup {"none"}, form : Nat],
         loaded : {"asked", "isYes", "isNo", "yes", "no"},
         override : [item : Item, value : BOOLEAN]]
Sent == [n : Nat, by : Clients, mount : Nat, view : DOMAIN Screen, table : Table,
         op : Op \cup {"none"}, key : Item, old : Item, form : Nat,
         stage : {"sent", "checked", "done"}, lost : BOOLEAN]
Row == [table : Table, key : Item, by : Clients \cup {"user"}, form : Nat, n : Nat]

Types ==
    /\ page \in [Clients -> Page]
    /\ requests \subseteq Sent
    /\ rows \subseteq Row
    /\ forms \in Nat /\ sends \in Nat
    /\ views \subseteq DOMAIN Screen

(* Numbers of forms and of mounts are taken in order, and a form is of one  *)
(* page.                                                                    *)
PagesNumbered ==
    /\ \A c \in Clients :
         /\ page[c].form.form <= forms /\ page[c].mount <= forms
         /\ page[c].form # NoForm => page[c].form.form > 0
         /\ page[c].mount = 0 => page[c].view = "Home" /\ page[c].form = NoForm
         /\ page[c].view = "EventDetailView" => page[c].form = NoForm
    /\ \A c, d \in Clients :
         c # d /\ page[c].form.form > 0 => page[c].form.form # page[d].form.form
WritesNumbered ==
    /\ \A r \in requests :
         /\ r.mount > 0 /\ r.mount <= forms /\ r.form <= forms
         /\ r.table = Screen[r.view].table
         /\ r.table \in Unkeyed => r.form > 0
         /\ r.form = 0 => r.view = "EventDetailView"
         /\ Mounted(r) => page[r.by].view = r.view
         /\ r.lost => <<r.by, r.form>> \in lost
    /\ \A r \in rows : r.form <= forms /\ (r.table \in Unkeyed => r.form > 0)

(* A page waits for one request at most.                                    *)
OneAtATime ==
    \A r \in requests : ~r.lost /\ Mounted(r) =>
        /\ page[r.by].submitting
        /\ \A q \in requests : ~q.lost /\ q.by = r.by /\ q.mount = r.mount => q = r

(* A request is of the form that its user sees, if he did not leave it.    *)
StayedWithForm ==
    \A r \in requests : ~r.lost =>
        <<r.by, r.form>> \in left \/ (Mounted(r) /\ page[r.by].form.form = r.form)

LostForm(f) == \E c \in Clients : <<c, f>> \in lost

(* What was written from the form of a page is still waited for by it.      *)
OpenFormIsWaiting ==
    \A c \in Clients :
        /\ \A r \in requests :
             r.table \in Unkeyed /\ r.form = page[c].form.form =>
                LostForm(r.form) \/ (r.by = c /\ Mounted(r))
        /\ \A s \in rows :
             s.table \in Unkeyed /\ s.form = page[c].form.form =>
                \/ LostForm(s.form)
                \/ \E q \in requests :
                     /\ q.stage = "done" /\ ~q.lost /\ q.by = c /\ Mounted(q)
                     /\ q.table \in Unkeyed /\ q.form = s.form

Pending == {r \in requests : r.stage # "done"}

(* Two writes of one form need a lost reply.                                *)
OneWritePerForm ==
    /\ \A r, s \in rows : r # s /\ r.table \in Unkeyed /\ s.table \in Unkeyed /\ r.form = s.form
                          => LostForm(r.form)
    /\ \A r \in rows, q \in Pending :
         r.table \in Unkeyed /\ q.table \in Unkeyed /\ r.form = q.form => LostForm(r.form)
    /\ \A p, q \in Pending :
         p # q /\ p.table \in Unkeyed /\ q.table \in Unkeyed /\ p.form = q.form => LostForm(p.form)

FormInv ==
    /\ Types /\ PagesNumbered /\ WritesNumbered
    /\ OneAtATime /\ StayedWithForm /\ OpenFormIsWaiting /\ OneWritePerForm

(* Registrations: what the server has, and the writes that will change it.  *)
Registered(c, k) ==
    \E s \in rows : s.table = "registrations" /\ s.key = k /\ s.by = User(c)
Registering(c) == {r \in requests : r.by = c /\ r.table = "registrations"}
Unanswered(c) == {r \in Registering(c) : r.stage = "done"}

(* A tab that is the only one of its user, that saw no registration fail    *)
(* and left no page of an event while it wrote.                             *)
Steady(c) == <<c, 0>> \notin left \cup lost /\ (oneUser => Clients = {c})

RegistrationShape ==
    /\ \A c \in Clients :
         /\ page[c].view = "EventDetailView" => page[c].item \in Keys
         /\ page[c].override = NoOverride \/ page[c].override.item \in Keys
    /\ \A r \in requests :
         r.table = "registrations" =>
            r.form = 0 /\ r.op \in {"create", "remove"} /\ r.old = r.key /\ r.key \in Keys
    /\ \A d \in deletion : \A s \in d.comments : s.table = "comments"

(* A write that was done and not yet answered left the row as it asked.     *)
WritesDone(c) ==
    \A r \in Unanswered(c) : r.op = "create" <=> Registered(c, r.key)

(* What the page remembers of its own writes is true, or about to be        *)
(* replaced.                                                                *)
OverrideHolds(p, c) ==
    \/ p.override = NoOverride
    \/ p.override.value <=> Registered(c, p.override.item)
    \/ \E r \in Unanswered(c) : r.key = p.override.item

(* What it loaded is true, or something of its own will have the last word. *)
LoadHolds(p, c) ==
    \/ p.loaded = "asked"
    \/ p.loaded \in {"isYes", "yes"} <=> Registered(c, p.item)
    \/ \E r \in Unanswered(c) : r.key = p.item
    \/ p.override.item = p.item /\ \A r \in Registering(c) : r.key = p.item

Known(c) ==
    /\ WritesDone(c)
    /\ page[c].view = "EventDetailView" => OverrideHolds(page[c], c) /\ LoadHolds(page[c], c)

RegistrationKnown == \A c \in Clients : Steady(c) => Known(c)
-----------------------------------------------------------------------------
LEMMA ScreenFacts ==
    /\ DOMAIN Screen = {"Home", "RegisterView", "EventFormView", "SavedFiltersView",
                        "EventsListView", "WorkDetailView", "EventDetailView"}
    /\ \A v \in DOMAIN Screen :
         /\ Screen[v].table \in Table
         /\ Screen[v].table = "events" => Screen[v].navigates
         /\ Screen[v].table = "comments" => ~Screen[v].navigates
    /\ Screen["Home"].dialog /\ ~Screen["EventDetailView"].navigates
    /\ Screen["EventDetailView"].table = "registrations" /\ Screen["EventDetailView"].dialog
<1>1. DOMAIN Screen = {"Home", "RegisterView", "EventFormView", "SavedFiltersView",
                       "EventsListView", "WorkDetailView", "EventDetailView"}
  BY DEF Screen
<1>2. /\ Screen["Home"].table = "none"
      /\ Screen["RegisterView"].table = "users"
      /\ Screen["EventFormView"].table = "events"
      /\ Screen["SavedFiltersView"].table = "filters"
      /\ Screen["EventsListView"].table = "filters"
      /\ Screen["WorkDetailView"].table = "comments"
      /\ Screen["EventDetailView"].table = "registrations"
  BY DEF Screen, Written
<1>3. /\ Screen["Home"].dialog = TRUE
      /\ Screen["RegisterView"].dialog = FALSE
      /\ Screen["EventFormView"].dialog = FALSE
      /\ Screen["SavedFiltersView"].dialog = TRUE
      /\ Screen["EventsListView"].dialog = TRUE
      /\ Screen["WorkDetailView"].dialog = FALSE
      /\ Screen["EventDetailView"].dialog = TRUE
  BY DEF Screen, Written
<1>4. /\ Screen["Home"].navigates = FALSE
      /\ Screen["RegisterView"].navigates = TRUE
      /\ Screen["EventFormView"].navigates = TRUE
      /\ Screen["SavedFiltersView"].navigates = FALSE
      /\ Screen["EventsListView"].navigates = FALSE
      /\ Screen["WorkDetailView"].navigates = FALSE
      /\ Screen["EventDetailView"].navigates = FALSE
  BY DEF Screen, Written
<1>5. \A v \in DOMAIN Screen : Screen[v].table \in Table
  BY <1>1, <1>2 DEF Table
<1>6. \A v \in DOMAIN Screen : Screen[v].table = "events" => Screen[v].navigates = TRUE
  BY <1>1, <1>2, <1>3, <1>4
<1>7. \A v \in DOMAIN Screen : Screen[v].table = "comments" => Screen[v].navigates = FALSE
  BY <1>1, <1>2, <1>3, <1>4
<1>8. /\ Screen["Home"].dialog = TRUE /\ Screen["EventDetailView"].navigates = FALSE
      /\ Screen["EventDetailView"].table = "registrations"
      /\ Screen["EventDetailView"].dialog = TRUE
  BY <1>1, <1>2, <1>3, <1>4
<1> QED
  BY <1>1, <1>5, <1>6, <1>7, <1>8

LEMMA OpenedFacts ==
    ASSUME NEW v \in DOMAIN Screen, NEW i \in Item, NEW n \in Nat
    PROVE  /\ Opened(v, i, n) \in Page
           /\ Opened(v, i, n).view = v /\ Opened(v, i, n).mount = n
           /\ ~Opened(v, i, n).submitting
           /\ \/ ~Screen[v].dialog /\ Opened(v, i, n).form = Form("create", n)
              \/ Screen[v].dialog /\ Opened(v, i, n).form = NoForm
BY ScreenFacts DEF Opened, Page, Form, NoForm, NoOverride, Op, Item

LEMMA FormFacts ==
    /\ NoForm.form = 0 /\ NoForm \in [op : Op \cup {"none"}, form : Nat]
    /\ \A op \in Op, n \in Nat : /\ Form(op, n) \in [op : Op \cup {"none"}, form : Nat]
                                /\ Form(op, n).form = n /\ Form(op, n) # NoForm
BY DEF NoForm, Form, Op

LEMMA FormInvInit == Init => FormInv
<1> SUFFICES ASSUME Init PROVE FormInv
  OBVIOUS
<1>1. views \subseteq DOMAIN Screen
  BY DEF Init, kSubset
<1>2. \A c \in Clients : page[c] = Opened("Home", "none", 0)
  BY DEF Init
<1>3. \A c \in Clients : /\ page[c] \in Page /\ page[c].mount = 0 /\ page[c].view = "Home"
                         /\ page[c].form = NoForm
  BY <1>2, ScreenFacts, OpenedFacts DEF Item
<1>4. page \in [Clients -> Page]
  BY <1>3 DEF Init
<1> QED
  BY <1>1, <1>3, <1>4, FormFacts DEF Init, FormInv, Types, PagesNumbered, WritesNumbered,
     OneAtATime, StayedWithForm, OpenFormIsWaiting, OneWritePerForm, Pending

(* A step that sends and answers nothing, and leaves the pages with the     *)
(* forms they had.                                                          *)
LEMMA FormsStay ==
    ASSUME FormInv, Types',
           requests' = requests, rows' \subseteq rows, lost' = lost, left' = left,
           forms' >= forms,
           \A c \in Clients : /\ page'[c].view = page[c].view
                              /\ page'[c].mount = page[c].mount
                              /\ page'[c].submitting = page[c].submitting
                              /\ page'[c].form = page[c].form
    PROVE  FormInv'
<1> USE DEF FormInv, Mounted, LostForm
<1>0. /\ \A r \in requests : r.by \in Clients /\ r.mount \in Nat /\ r.form \in Nat
      /\ \A r \in rows : r.form \in Nat
      /\ \A c \in Clients : page[c].mount \in Nat /\ page[c].form.form \in Nat
      /\ forms \in Nat /\ forms' \in Nat
  BY DEF Types, Sent, Row, Page
<1>1. PagesNumbered'
  BY <1>0 DEF PagesNumbered
<1>2. WritesNumbered'
  BY <1>0 DEF WritesNumbered
<1>3. OneAtATime'
  BY <1>0 DEF OneAtATime
<1>4. StayedWithForm'
  BY <1>0 DEF StayedWithForm
<1>5. OpenFormIsWaiting'
  BY <1>0 DEF OpenFormIsWaiting
<1>6. OneWritePerForm'
  BY <1>0 DEF OneWritePerForm, Pending
<1> QED
  BY <1>1, <1>2, <1>3, <1>4, <1>5, <1>6
(* A step in which the page of one tab changes: another form, another page, *)
(* or the end of its waiting; of the requests, its own may go or be lost.   *)
LEMMA PageChanges ==
    ASSUME FormInv, Types', NEW c \in Clients,
           lost \subseteq lost', left \subseteq left', rows' \subseteq rows,
           forms' = forms \/ forms' = forms + 1,
           \A q \in requests' : \/ q \in requests
                                \/ /\ q.lost /\ <<q.by, q.form>> \in lost'
                                   /\ \E r \in requests :
                                        /\ r.by = q.by /\ r.mount = q.mount /\ r.view = q.view
                                        /\ r.table = q.table /\ r.form = q.form,
           \A q \in requests : q \notin requests' =>
                /\ q.by = c
                /\ \/ page'[c].form # page[c].form \/ page'[c].form = NoForm
                   \/ <<q.by, q.form>> \in lost'
                   \/ ~(q.stage = "done" /\ Mounted(q) /\ q.table \in Unkeyed),
           \A d \in Clients : d # c => page'[d] = page[d],
           \/ page'[c].form = page[c].form
           \/ page'[c].form = NoForm
           \/ forms' = forms + 1 /\ page'[c].form.form = forms',
           \/ page'[c].mount = page[c].mount /\ page'[c].view = page[c].view
           \/ page'[c].mount = 0 /\ page'[c].form = NoForm
           \/ /\ forms' = forms + 1 /\ page'[c].mount = forms'
              /\ page'[c].form = NoForm \/ page'[c].form.form = forms',
           page'[c].mount = 0 => page'[c].view = "Home" /\ page'[c].form = NoForm,
           page'[c].view = "EventDetailView" => page'[c].form = NoForm,
           \/ page'[c].submitting = page[c].submitting
           \/ \A q \in requests' : ~q.lost /\ q.by = c => q.mount # page'[c].mount,
           \A q \in requests' : ~q.lost /\ q.by = c =>
                \/ <<c, q.form>> \in left'
                \/ page'[c].form = page[c].form /\ page'[c].mount = page[c].mount
    PROVE  FormInv'
<1> USE DEF FormInv, Mounted, LostForm
<1>0. /\ \A r \in requests : r.by \in Clients /\ r.mount \in Nat /\ r.form \in Nat
      /\ \A r \in requests' : r.by \in Clients /\ r.mount \in Nat /\ r.form \in Nat
      /\ \A r \in rows : r.form \in Nat
      /\ \A d \in Clients : page[d].mount \in Nat /\ page[d].form.form \in Nat
      /\ forms \in Nat /\ NoForm.form = 0
  BY FormFacts DEF Types, Sent, Row, Page
<1>1. PagesNumbered'
  BY <1>0 DEF PagesNumbered
<1>2. WritesNumbered'
  BY <1>0 DEF WritesNumbered
<1>7. \A r \in requests' : ~r.lost => r \in requests
  OBVIOUS
<1>3. OneAtATime'
  <2> SUFFICES ASSUME NEW r \in requests', ~r.lost, page'[r.by].mount = r.mount
               PROVE  /\ page'[r.by].submitting
                      /\ \A q \in requests' : ~q.lost /\ q.by = r.by /\ q.mount = r.mount => q = r
    BY DEF OneAtATime
  <2>1. r \in requests /\ r.mount > 0 /\ r.mount <= forms
    BY <1>7 DEF WritesNumbered
  <2>2. page[r.by].mount = r.mount
    BY <1>0, <2>1
  <2>3. page[r.by].submitting /\ \A q \in requests : ~q.lost /\ q.by = r.by /\ q.mount = r.mount => q = r
    BY <2>1, <2>2 DEF OneAtATime
  <2>4. page'[r.by].submitting = page[r.by].submitting
    BY <1>0, <2>1
  <2> QED
    BY <1>7, <2>3, <2>4
<1>4. StayedWithForm'
  <2> SUFFICES ASSUME NEW r \in requests', ~r.lost, <<r.by, r.form>> \notin left'
               PROVE  page'[r.by].mount = r.mount /\ page'[r.by].form.form = r.form
    BY DEF StayedWithForm
  <2>1. page[r.by].mount = r.mount /\ page[r.by].form.form = r.form
    BY <1>7 DEF StayedWithForm
  <2>2. page'[r.by].mount = page[r.by].mount /\ page'[r.by].form = page[r.by].form
    BY <1>0
  <2> QED
    BY <2>1, <2>2
<1>5. OpenFormIsWaiting'
  BY <1>0, SMTT(30) DEF OpenFormIsWaiting, WritesNumbered
<1>6. OneWritePerForm'
  BY <1>0 DEF OneWritePerForm, Pending
<1> QED
  BY <1>1, <1>2, <1>3, <1>4, <1>5, <1>6

(* A page sends: the form it shows, or the registration of its event.       *)
LEMMA PageSends ==
    ASSUME FormInv, Types', NEW c \in Clients, NEW w \in Sent,
           ~page[c].submitting,
           requests' = requests \cup {w}, rows' = rows, lost' = lost, left' = left,
           forms' = forms,
           \A d \in Clients : /\ page'[d].view = page[d].view
                              /\ page'[d].mount = page[d].mount
                              /\ page'[d].form = page[d].form
                              /\ d # c => page'[d].submitting = page[d].submitting,
           page'[c].submitting = TRUE,
           w.by = c /\ w.mount = page[c].mount /\ w.view = page[c].view,
           w.table = Screen[w.view].table, w.form = page[c].form.form, w.lost = FALSE,
           w.form > 0 \/ w.view = "EventDetailView"
    PROVE  FormInv'
<1> USE DEF FormInv, Mounted, LostForm
<1>0. /\ \A r \in requests : r.by \in Clients /\ r.mount \in Nat /\ r.form \in Nat
      /\ \A r \in rows : r.form \in Nat
      /\ \A d \in Clients : page[d].mount \in Nat /\ page[d].form.form \in Nat
      /\ forms \in Nat /\ NoForm.form = 0
  BY FormFacts DEF Types, Sent, Row, Page
<1>1. PagesNumbered'
  BY <1>0 DEF PagesNumbered
<1>2. w.table \in Unkeyed => w.form > 0
  BY ScreenFacts DEF Unkeyed
<1>3. w.mount > 0 /\ w.mount <= forms /\ w.form <= forms
  BY <1>0, ScreenFacts DEF PagesNumbered
<1>4. WritesNumbered'
  BY <1>0, <1>2, <1>3 DEF WritesNumbered
<1>5. \A q \in requests : q.by = c /\ Mounted(q) => q.lost
  BY DEF OneAtATime
<1>6. OneAtATime'
  BY <1>0, <1>5 DEF OneAtATime
<1>7. StayedWithForm'
  BY <1>0 DEF StayedWithForm
<1>8. \A d \in Clients : w.table \in Unkeyed /\ page[d].form.form = w.form => d = c
  BY <1>0, <1>2 DEF PagesNumbered
<1>9. OpenFormIsWaiting'
  BY <1>0, <1>8 DEF OpenFormIsWaiting
<1>10. w.table \in Unkeyed =>
         /\ \A s \in rows : s.table \in Unkeyed /\ s.form = w.form => LostForm(w.form)
         /\ \A q \in requests : q.table \in Unkeyed /\ q.form = w.form => LostForm(w.form)
  <2>1. \A s \in rows : s.table \in Unkeyed /\ s.form = w.form => LostForm(w.form)
    BY <1>0, <1>5 DEF OpenFormIsWaiting
  <2>2. ASSUME NEW q \in requests, q.table \in Unkeyed, q.form = w.form
        PROVE  LostForm(w.form)
    <3>1. LostForm(q.form) \/ (q.by = c /\ Mounted(q))
      BY <2>2 DEF OpenFormIsWaiting
    <3>2. q.lost => <<q.by, q.form>> \in lost
      BY DEF WritesNumbered
    <3> QED
      BY <1>0, <1>5, <2>2, <3>1, <3>2
  <2> QED
    BY <2>1, <2>2
<1>11. OneWritePerForm'
  BY <1>0, <1>10 DEF OneWritePerForm, Pending
<1> QED
  BY <1>1, <1>4, <1>6, <1>7, <1>9, <1>11

LEMMA StagedFacts ==
    ASSUME NEW r \in Sent, NEW stage \in {"sent", "checked", "done"}
    PROVE  LET w == [r EXCEPT !.stage = stage] IN
           /\ w \in Sent /\ w.stage = stage
           /\ w.by = r.by /\ w.mount = r.mount /\ w.view = r.view /\ w.table = r.table
           /\ w.form = r.form /\ w.lost = r.lost
BY DEF Sent

(* A step of a service: a request goes on, and its row may be written when  *)
(* it is done.                                                              *)
LEMMA ServiceSteps ==
    ASSUME FormInv, Types', NEW r \in requests, NEW w,
           r.stage # "done",
           w.by = r.by /\ w.mount = r.mount /\ w.view = r.view /\ w.table = r.table,
           w.form = r.form /\ w.lost = r.lost,
           \/ requests' = (requests \ {r}) \cup {w}
           \/ r.lost /\ requests' = requests \ {r},
           \A s \in rows' : \/ s \in rows
                            \/ s.table = r.table /\ s.form = r.form,
           \/ rows' \subseteq rows
           \/ w.stage = "done" /\ \A s, t \in rows' : s \notin rows /\ t \notin rows => s = t,
           page' = page, lost' = lost, left' = left, forms' = forms
    PROVE  FormInv'
<1> USE DEF FormInv, Mounted, LostForm
<1>0. /\ \A q \in requests : q.by \in Clients /\ q.mount \in Nat /\ q.form \in Nat
      /\ \A s \in rows : s.form \in Nat
      /\ \A d \in Clients : page[d].mount \in Nat /\ page[d].form.form \in Nat
      /\ forms \in Nat
  BY DEF Types, Sent, Row, Page
<1>1. PagesNumbered'
  BY DEF PagesNumbered
<1>2. WritesNumbered'
  <2>1. \A q \in requests' : \E p \in requests :
           /\ q.by = p.by /\ q.mount = p.mount /\ q.view = p.view /\ q.table = p.table
           /\ q.form = p.form /\ q.lost = p.lost
    OBVIOUS
  <2>2. \A q \in requests' :
           /\ q.mount > 0 /\ q.mount <= forms /\ q.form <= forms
           /\ q.table = Screen[q.view].table
           /\ q.table \in Unkeyed => q.form > 0
           /\ q.form = 0 => q.view = "EventDetailView"
           /\ page[q.by].mount = q.mount => page[q.by].view = q.view
           /\ q.lost => <<q.by, q.form>> \in lost
    <3> TAKE q \in requests'
    <3>1. PICK p \in requests :
             /\ q.by = p.by /\ q.mount = p.mount /\ q.view = p.view /\ q.table = p.table
             /\ q.form = p.form /\ q.lost = p.lost
      BY <2>1
    <3>2. /\ p.mount > 0 /\ p.mount <= forms /\ p.form <= forms
          /\ p.table = Screen[p.view].table
          /\ p.table \in Unkeyed => p.form > 0
          /\ p.form = 0 => p.view = "EventDetailView"
          /\ page[p.by].mount = p.mount => page[p.by].view = p.view
          /\ p.lost => <<p.by, p.form>> \in lost
      BY DEF WritesNumbered
    <3> QED
      BY <3>1, <3>2
  <2>3. \A s \in rows' : s.form <= forms /\ (s.table \in Unkeyed => s.form > 0)
    BY <1>0 DEF WritesNumbered
  <2> QED
    BY <2>2, <2>3 DEF WritesNumbered
<1>3. OneAtATime'
  BY <1>0 DEF OneAtATime
<1>4. StayedWithForm'
  BY <1>0 DEF StayedWithForm
<1>5. r.lost => LostForm(r.form)
  BY <1>0 DEF WritesNumbered
<1>6. OpenFormIsWaiting'
  <2> SUFFICES ASSUME NEW c \in Clients
               PROVE  /\ \A q \in requests' :
                           q.table \in Unkeyed /\ q.form = page[c].form.form =>
                              LostForm(q.form) \/ (q.by = c /\ Mounted(q))
                      /\ \A s \in rows' :
                           s.table \in Unkeyed /\ s.form = page[c].form.form =>
                              \/ LostForm(s.form)
                              \/ \E q \in requests' :
                                   /\ q.stage = "done" /\ ~q.lost /\ q.by = c /\ Mounted(q)
                                   /\ q.table \in Unkeyed /\ q.form = s.form
    BY DEF OpenFormIsWaiting
  <2>1. \A q \in requests' :
           q.table \in Unkeyed /\ q.form = page[c].form.form =>
              LostForm(q.form) \/ (q.by = c /\ Mounted(q))
    BY DEF OpenFormIsWaiting
  <2>2. ASSUME NEW s \in rows', s.table \in Unkeyed, s.form = page[c].form.form, ~LostForm(s.form)
        PROVE  \E q \in requests' :
                   /\ q.stage = "done" /\ ~q.lost /\ q.by = c /\ Mounted(q)
                   /\ q.table \in Unkeyed /\ q.form = s.form
    <3>1. CASE s \in rows
      BY <2>2, <3>1, SMTT(30) DEF OpenFormIsWaiting
    <3>2. CASE s \notin rows
      BY <1>5, <2>2, <3>2, SMTT(30) DEF OpenFormIsWaiting
    <3> QED
      BY <3>1, <3>2
  <2> QED
    BY <2>1, <2>2
<1>7. r \in Pending
  BY DEF Pending
<1>8. OneWritePerForm'
  <2>1. \A s, t \in rows' : s # t /\ s.table \in Unkeyed /\ t.table \in Unkeyed /\ s.form = t.form
                            => LostForm(s.form)
    BY <1>7 DEF OneWritePerForm
  <2>2. \A q \in Pending' : \/ q \in Pending /\ q # r
                            \/ q = w /\ w.stage # "done" /\ rows' \subseteq rows
    BY DEF Pending
  <2>3. \A s \in rows', q \in Pending' :
           s.table \in Unkeyed /\ q.table \in Unkeyed /\ s.form = q.form => LostForm(s.form)
    <3> SUFFICES ASSUME NEW s \in rows', NEW q \in Pending',
                        s.table \in Unkeyed, q.table \in Unkeyed, s.form = q.form
                 PROVE  LostForm(s.form)
      OBVIOUS
    <3> USE DEF OneWritePerForm
    <3>1. CASE q \in Pending /\ q # r /\ s \in rows
      BY <3>1
    <3>2. CASE q \in Pending /\ q # r /\ s.table = r.table /\ s.form = r.form
      BY <1>7, <3>2
    <3>3. CASE q = w /\ rows' \subseteq rows
      BY <1>7, <3>3
    <3> QED
      BY <2>2, <3>1, <3>2, <3>3
  <2>4. \A p, q \in Pending' :
           p # q /\ p.table \in Unkeyed /\ q.table \in Unkeyed /\ p.form = q.form => LostForm(p.form)
    BY <1>7, <2>2, SMTT(30) DEF OneWritePerForm
  <2> QED
    BY <2>1, <2>3, <2>4 DEF OneWritePerForm
<1> QED
  BY <1>1, <1>2, <1>3, <1>4, <1>6, <1>8
-----------------------------------------------------------------------------
(* What each change of a page keeps of it.                                  *)
LEMMA PageAsks ==
    ASSUME NEW p \in Page, NEW i \in Item
    PROVE  LET q == [p EXCEPT !.item = i, !.loaded = "asked"] IN
           /\ q \in Page
           /\ q.view = p.view
           /\ q.mount = p.mount
           /\ q.form = p.form
           /\ q.submitting = p.submitting
BY DEF Page

LEMMA PageLoads ==
    ASSUME NEW p \in Page, NEW l \in {"isYes", "isNo", "yes", "no"}
    PROVE  LET q == [p EXCEPT !.loaded = l] IN
           /\ q \in Page
           /\ q.view = p.view
           /\ q.mount = p.mount
           /\ q.form = p.form
           /\ q.submitting = p.submitting
BY DEF Page

LEMMA PageShows ==
    ASSUME NEW p \in Page, NEW f \in [op : Op \cup {"none"}, form : Nat]
    PROVE  LET q == [p EXCEPT !.form = f] IN
           /\ q \in Page
           /\ q.view = p.view
           /\ q.mount = p.mount
           /\ q.submitting = p.submitting
           /\ q.form = f
BY DEF Page

Answered(p, f) == [p EXCEPT !.submitting = FALSE, !.form = f]

LEMMA PageAnswers ==
    ASSUME NEW p \in Page, NEW f \in [op : Op \cup {"none"}, form : Nat]
    PROVE  /\ Answered(p, f) \in Page
           /\ Answered(p, f).view = p.view
           /\ Answered(p, f).mount = p.mount
           /\ Answered(p, f).form = f
BY DEF Page, Answered

LEMMA PageOverrides ==
    ASSUME NEW p \in Page, NEW o \in [item : Item, value : BOOLEAN]
    PROVE  LET q == [p EXCEPT !.submitting = FALSE, !.override = o] IN
           /\ q \in Page
           /\ q.view = p.view
           /\ q.mount = p.mount
           /\ q.form = p.form
BY DEF Page

LEMMA PageWaits ==
    ASSUME NEW p \in Page, NEW b \in BOOLEAN
    PROVE  LET q == [p EXCEPT !.submitting = b] IN
           /\ q \in Page
           /\ q.view = p.view
           /\ q.mount = p.mount
           /\ q.form = p.form
           /\ q.submitting = b
BY DEF Page

LEMMA OnePage ==
    ASSUME page \in [Clients -> Page], NEW c \in Clients, NEW p \in Page,
           page' = [page EXCEPT ![c] = p]
    PROVE  /\ page' \in [Clients -> Page] /\ page'[c] = p
           /\ \A d \in Clients : d # c => page'[d] = page[d]
OBVIOUS

LEMMA VisitKeeps ==
    ASSUME FormInv, NEW c \in Clients, NEW view \in views, NEW item \in Item, Visit(c, view, item)
    PROVE  FormInv'
<1> USE DEF FormInv
<1>1. page[c] \in Page /\ forms \in Nat /\ view \in DOMAIN Screen
  BY DEF Types
<1>2. UNCHANGED <<views, rows, requests, sends, lost>> /\ forms' = forms + 1
  BY DEF Visit, ServerUnchanged, setting
<1>3. CASE view = "EventDetailView" /\ page[c].view = view
  <2>1. page' = [page EXCEPT ![c] = [page[c] EXCEPT !.item = item, !.loaded = "asked"]] /\ left' = left
    BY <1>1, <1>3 DEF Visit, Types
  <2> DEFINE p == [page[c] EXCEPT !.item = item, !.loaded = "asked"]
  <2>2. /\ p \in Page
        /\ p.view = page[c].view /\ p.mount = page[c].mount
        /\ p.form = page[c].form /\ p.submitting = page[c].submitting
    BY <1>1, PageAsks
  <2> HIDE DEF p
  <2>3. /\ page' \in [Clients -> Page] /\ page'[c] = p
        /\ \A d \in Clients : d # c => page'[d] = page[d]
    BY <2>1, <2>2, OnePage DEF Types, p
  <2>4. Types'
    BY <1>1, <1>2, <2>3 DEF Types
  <2> HIDE DEF FormInv
  <2> QED
    BY <1>1, <1>2, <2>1, <2>2, <2>3, <2>4, FormsStay
<1>4. CASE ~(view = "EventDetailView" /\ page[c].view = view)
  <2>1. page' = [page EXCEPT ![c] = Opened(view, item, forms + 1)] /\ Leaves(c)
    BY <1>4 DEF Visit
  <2>2. /\ page'[c] = Opened(view, item, forms + 1)
        /\ \A d \in Clients : d # c => page'[d] = page[d]
    BY <2>1 DEF Types
  <2>3. Types'
    BY <1>1, <1>2, <2>1, OpenedFacts DEF Types
  <2>4. /\ page'[c].view = view /\ page'[c].mount = forms + 1
        /\ page'[c].form = NoForm \/ page'[c].form.form = forms + 1
        /\ view = "EventDetailView" => page'[c].form = NoForm
    BY <1>1, <2>2, OpenedFacts, FormFacts, ScreenFacts DEF Op
  <2>5. \A q \in requests : ~q.lost /\ q.by = c => <<c, q.form>> \in left'
    BY <2>1 DEF Leaves, StayedWithForm, OneAtATime
  <2>6. \A q \in requests : q.mount # page'[c].mount
    <3>1. \A q \in requests : q.mount \in Nat /\ q.mount <= forms
      BY DEF WritesNumbered, Types, Sent
    <3> QED
      BY <1>1, <2>4, <3>1
  <2>7. left \subseteq left'
    BY <2>1 DEF Leaves
  <2> HIDE DEF FormInv
  <2> QED
    BY <1>1, <1>2, <2>2, <2>3, <2>4, <2>5, <2>6, <2>7, PageChanges
<1> QED
  BY <1>3, <1>4

LEMMA OpenDialogKeeps ==
    ASSUME FormInv, NEW c \in Clients, NEW op \in Op, OpenDialog(c, op)
    PROVE  FormInv'
<1> USE DEF FormInv
<1>1. page[c] \in Page /\ forms \in Nat
  BY DEF Types
<1>2. /\ UNCHANGED <<views, rows, requests, sends, lost, left>> /\ forms' = forms + 1
      /\ page[c].view \in {"SavedFiltersView", "EventsListView"} /\ page[c].form = NoForm
      /\ page' = [page EXCEPT ![c] = [page[c] EXCEPT !.form = Form(op, forms + 1)]]
  BY DEF OpenDialog, ServerUnchanged, setting
<1> DEFINE p == [page[c] EXCEPT !.form = Form(op, forms + 1)]
<1>7. /\ p \in Page /\ p.form.form = forms + 1
      /\ p.view = page[c].view /\ p.mount = page[c].mount /\ p.submitting = page[c].submitting
  BY <1>1, FormFacts, PageShows
<1> HIDE DEF p
<1>3. /\ page' \in [Clients -> Page] /\ page'[c] = p
      /\ \A d \in Clients : d # c => page'[d] = page[d]
  BY <1>2, <1>7, OnePage DEF Types, p
<1>4. Types'
  BY <1>1, <1>2, <1>3 DEF Types
<1>5. \A q \in requests : ~q.lost /\ q.by = c => <<c, q.form>> \in left'
  <2> SUFFICES ASSUME NEW q \in requests, ~q.lost, q.by = c, <<c, q.form>> \notin left PROVE FALSE
    BY <1>2
  <2>1. Mounted(q) /\ q.form = 0
    BY <1>2, FormFacts DEF StayedWithForm
  <2>2. q.view = "EventDetailView" /\ page[c].view = q.view
    BY <2>1 DEF WritesNumbered
  <2> QED
    BY <1>2, <2>2
<1>6. page[c].mount # 0
  BY <1>2 DEF PagesNumbered
<1> HIDE DEF FormInv
<1> QED
  BY <1>1, <1>2, <1>3, <1>4, <1>5, <1>6, <1>7, PageChanges

LEMMA CloseDialogKeeps ==
    ASSUME FormInv, NEW c \in Clients, CloseDialog(c)
    PROVE  FormInv'
<1> USE DEF FormInv
<1>1. page[c] \in Page /\ forms \in Nat
  BY DEF Types
<1>2. /\ UNCHANGED <<views, rows, requests, forms, sends, lost>> /\ Leaves(c)
      /\ page[c].view \in {"SavedFiltersView", "EventsListView"}
      /\ page' = [page EXCEPT ![c] = [page[c] EXCEPT !.form = NoForm]]
  BY DEF CloseDialog, ServerUnchanged, setting
<1> DEFINE p == [page[c] EXCEPT !.form = NoForm]
<1>7. /\ p \in Page /\ p.form = NoForm
      /\ p.view = page[c].view /\ p.mount = page[c].mount /\ p.submitting = page[c].submitting
  BY <1>1, FormFacts, PageShows
<1> HIDE DEF p
<1>3. /\ page' \in [Clients -> Page] /\ page'[c] = p
      /\ \A d \in Clients : d # c => page'[d] = page[d]
  BY <1>2, <1>7, OnePage DEF Types, p
<1>4. Types'
  BY <1>1, <1>2, <1>3 DEF Types
<1>5. \A q \in requests : ~q.lost /\ q.by = c => <<c, q.form>> \in left'
  BY <1>2 DEF Leaves, StayedWithForm, OneAtATime
<1>6. page[c].mount # 0 /\ left \subseteq left'
  BY <1>2 DEF PagesNumbered, Leaves
<1> HIDE DEF FormInv
<1> QED
  BY <1>1, <1>2, <1>3, <1>4, <1>5, <1>6, <1>7, PageChanges

LEMMA SubmitKeeps ==
    ASSUME FormInv, NEW c \in Clients, NEW k \in Item, NEW old \in Item, Submit(c, k, old)
    PROVE  FormInv'
<1> USE DEF FormInv
<1>0. PICK w : w = Write(c, page[c].form.op, k, old, page[c].form.form)
  OBVIOUS
<1> DEFINE p == [page[c] EXCEPT !.submitting = TRUE]
<1>1. page[c] \in Page /\ forms \in Nat /\ sends \in Nat
  BY DEF Types
<1>2. /\ UNCHANGED <<views, rows, forms, lost, left>> /\ sends' = sends + 1
      /\ page[c].form # NoForm /\ ~page[c].submitting
      /\ requests' = requests \cup {w} /\ page' = [page EXCEPT ![c] = p]
  BY <1>0 DEF Submit, ServerUnchanged, setting, enabled
<1>3. /\ p \in Page /\ p.view = page[c].view /\ p.mount = page[c].mount
      /\ p.form = page[c].form /\ p.submitting = TRUE
  BY <1>1, PageWaits
<1>4. /\ page' \in [Clients -> Page] /\ page'[c] = p
      /\ \A d \in Clients : d # c => page'[d] = page[d]
  BY <1>2, <1>3, OnePage DEF Types
<1> HIDE DEF p
<1>5. page[c].form.op \in Op \cup {"none"}
  BY <1>1 DEF Page
<1>6. /\ w.by = c /\ w.mount = page[c].mount /\ w.view = page[c].view
      /\ w.table = Screen[w.view].table /\ w.form = page[c].form.form /\ w.lost = FALSE
      /\ w \in Sent
  BY <1>0, <1>1, <1>5, ScreenFacts DEF Write, Sent, Page
<1>7. Types'
  BY <1>1, <1>2, <1>4, <1>6 DEF Types
<1>8. w.form > 0
  BY <1>2, <1>6 DEF PagesNumbered
<1>9. \A d \in Clients :
        /\ page'[d].view = page[d].view
        /\ page'[d].mount = page[d].mount
        /\ page'[d].form = page[d].form
        /\ d # c => page'[d].submitting = page[d].submitting
  BY <1>3, <1>4
<1>10. /\ page'[c].submitting = TRUE /\ w.form = page[c].form.form
       /\ w.form > 0 \/ w.view = "EventDetailView"
  BY <1>2, <1>3, <1>4, <1>6, <1>8
<1> HIDE DEF FormInv
<1> QED
  BY <1>2, <1>6, <1>7, <1>9, <1>10, PageSends

LEMMA ToggleKeeps ==
    ASSUME FormInv, NEW c \in Clients, Toggle(c)
    PROVE  FormInv'
<1> USE DEF FormInv
<1> DEFINE op == IF isRegistered(page[c]) THEN "remove" ELSE "create"
<1>0. PICK w : w = Write(c, op, page[c].item, page[c].item, 0)
  OBVIOUS
<1> DEFINE p == [page[c] EXCEPT !.submitting = TRUE]
<1>1. page[c] \in Page /\ forms \in Nat /\ sends \in Nat
  BY DEF Types
<1>2. /\ UNCHANGED <<views, rows, forms, lost, left>> /\ sends' = sends + 1
      /\ page[c].view = "EventDetailView" /\ ~page[c].submitting
      /\ requests' = requests \cup {w} /\ page' = [page EXCEPT ![c] = p]
  BY <1>0 DEF Toggle, ServerUnchanged, setting, enabled
<1>3. /\ p \in Page /\ p.view = page[c].view /\ p.mount = page[c].mount
      /\ p.form = page[c].form /\ p.submitting = TRUE
  BY <1>1, PageWaits
<1>4. /\ page' \in [Clients -> Page] /\ page'[c] = p
      /\ \A d \in Clients : d # c => page'[d] = page[d]
  BY <1>2, <1>3, OnePage DEF Types
<1> HIDE DEF p
<1>5. op \in Op
  BY DEF Op
<1> HIDE DEF op
<1>6. /\ w.by = c /\ w.mount = page[c].mount /\ w.view = page[c].view
      /\ w.table = Screen[w.view].table /\ w.form = 0 /\ w.lost = FALSE
      /\ w \in Sent
  BY <1>0, <1>1, <1>5, ScreenFacts DEF Write, Sent, Page
<1>7. Types'
  BY <1>1, <1>2, <1>4, <1>6 DEF Types
<1>8. page[c].form.form = 0
  BY <1>2, FormFacts DEF PagesNumbered
<1>9. \A d \in Clients :
        /\ page'[d].view = page[d].view
        /\ page'[d].mount = page[d].mount
        /\ page'[d].form = page[d].form
        /\ d # c => page'[d].submitting = page[d].submitting
  BY <1>3, <1>4
<1>10. /\ page'[c].submitting = TRUE /\ w.form = page[c].form.form
       /\ w.form > 0 \/ w.view = "EventDetailView"
  BY <1>2, <1>3, <1>4, <1>6, <1>8
<1> HIDE DEF FormInv
<1> QED
  BY <1>2, <1>6, <1>7, <1>9, <1>10, PageSends

LEMMA LoadKeeps ==
    ASSUME FormInv, NEW c \in Clients, ServeLoad(c) \/ LoadArrives(c)
    PROVE  FormInv'
<1> USE DEF FormInv
<1>1. page[c] \in Page /\ forms \in Nat
  BY DEF Types
<1>2. UNCHANGED <<views, rows, requests, forms, sends, lost, left>>
  BY DEF ServeLoad, LoadArrives, ServerUnchanged, setting
<1>3. PICK l \in {"isYes", "isNo", "yes", "no"} :
        page' = [page EXCEPT ![c] = [page[c] EXCEPT !.loaded = l]]
  BY DEF ServeLoad, LoadArrives
<1> DEFINE p == [page[c] EXCEPT !.loaded = l]
<1>4. /\ p \in Page /\ p.view = page[c].view /\ p.mount = page[c].mount
      /\ p.form = page[c].form /\ p.submitting = page[c].submitting
  BY <1>1, PageLoads
<1> HIDE DEF p
<1>5. /\ page' \in [Clients -> Page] /\ page'[c] = p
      /\ \A d \in Clients : d # c => page'[d] = page[d]
  BY <1>3, <1>4, OnePage DEF Types, p
<1>6. Types'
  BY <1>1, <1>2, <1>5 DEF Types
<1> HIDE DEF FormInv
<1> QED
  BY <1>1, <1>2, <1>4, <1>5, <1>6, FormsStay

LEMMA CheckKeeps ==
    ASSUME FormInv, NEW r \in requests, Check(r)
    PROVE  FormInv'
<1> DEFINE w == [r EXCEPT !.stage = "checked"]
<1>1. r \in Sent
  BY DEF FormInv, Types
<1>2. /\ UNCHANGED <<views, rows, page, forms, sends, lost, left>> /\ r.stage # "done"
      /\ requests' = (requests \ {r}) \cup {w}
  BY DEF Check, Stage, ServerUnchanged, setting
<1>3. /\ w \in Sent /\ w.by = r.by /\ w.mount = r.mount /\ w.view = r.view
      /\ w.table = r.table /\ w.form = r.form /\ w.lost = r.lost
  BY <1>1, StagedFacts
<1> HIDE DEF w
<1>4. Types'
  BY <1>2, <1>3 DEF FormInv, Types
<1> QED
  BY <1>2, <1>3, <1>4, ServiceSteps

LEMMA CommitKeeps ==
    ASSUME FormInv, NEW r \in requests, Commit(r)
    PROVE  FormInv'
<1> DEFINE w == [r EXCEPT !.stage = "done"]
           row == [table |-> r.table, key |-> r.key, by |-> User(r.by), form |-> r.form, n |-> r.n]
<1>1. r \in Sent
  BY DEF FormInv, Types
<1>2. /\ UNCHANGED <<views, page, forms, sends, lost, left>> /\ r.stage # "done"
      /\ rows' \subseteq rows \cup {row}
      /\ \/ requests' = (requests \ {r}) \cup {w}
         \/ r.lost /\ requests' = requests \ {r}
  BY DEF Commit, Stage, Forget, setting
<1>3. /\ w \in Sent /\ w.stage = "done" /\ w.by = r.by /\ w.mount = r.mount /\ w.view = r.view
      /\ w.table = r.table /\ w.form = r.form /\ w.lost = r.lost
  BY <1>1, StagedFacts
<1>4. row \in Row /\ row.table = r.table /\ row.form = r.form
  BY <1>1 DEF Sent, Row, User
<1> HIDE DEF w, row
<1>5. Types'
  BY <1>2, <1>3, <1>4 DEF FormInv, Types
<1> QED
  BY <1>2, <1>3, <1>4, <1>5, ServiceSteps

LEMMA DeletionKeeps ==
    ASSUME FormInv, (\E w \in works : deleteWork(w)) \/ (\E d \in deletion : WorkDeleted(d))
    PROVE  FormInv'
<1>1. /\ UNCHANGED <<views, page, requests, forms, sends, lost, left>> /\ rows' \subseteq rows
  BY DEF deleteWork, WorkDeleted, setting
<1>2. Types' /\ forms \in Nat
  BY <1>1 DEF FormInv, Types
<1> QED
  BY <1>1, <1>2, FormsStay

LEMMA AnswerFacts ==
    ASSUME FormInv, NEW r \in requests, ~r.lost
    PROVE  /\ r.by \in Clients /\ page[r.by] \in Page /\ page[r.by].mount \in Nat
           /\ page[r.by].form.form \in Nat /\ page[r.by].form.form <= forms
           /\ r.mount \in Nat /\ r.mount > 0 /\ r.view \in DOMAIN Screen
           /\ forms \in Nat /\ r.key \in Item
           /\ r.table = Screen[r.view].table
           /\ Mounted(r) => page[r.by].view = r.view /\ page[r.by].mount # 0
           /\ \A q \in requests : q.mount \in Nat /\ q.mount > 0
           /\ \A q \in requests : ~q.lost /\ q # r /\ q.by = r.by =>
                \/ <<q.by, q.form>> \in left
                \/ ~Mounted(r) /\ page[r.by].submitting /\ page[r.by].form.form = q.form
           /\ \A q \in requests :
                ~q.lost /\ q # r /\ q.by = r.by /\ Mounted(r) => q.mount # page[r.by].mount
<1>1. /\ r.by \in Clients /\ r.mount \in Nat /\ r.view \in DOMAIN Screen /\ r.key \in Item
      /\ forms \in Nat
      /\ \A q \in requests : q.mount \in Nat
  BY DEF FormInv, Types, Sent
<1>2. page[r.by] \in Page /\ page[r.by].mount \in Nat /\ page[r.by].form.form \in Nat
  BY <1>1 DEF FormInv, Types, Page
<1>3. page[r.by].form.form <= forms
  BY <1>1 DEF FormInv, PagesNumbered
<1>4. /\ r.mount > 0 /\ r.table = Screen[r.view].table
      /\ Mounted(r) => page[r.by].view = r.view
      /\ \A q \in requests : q.mount > 0
  BY DEF FormInv, WritesNumbered
<1>5. Mounted(r) => page[r.by].mount # 0
  BY <1>1, <1>4 DEF Mounted
<1>6. \A q \in requests : ~q.lost /\ q # r /\ q.by = r.by =>
        \/ <<q.by, q.form>> \in left
        \/ ~Mounted(r) /\ page[r.by].submitting /\ page[r.by].form.form = q.form
  BY DEF FormInv, StayedWithForm, OneAtATime, Mounted
<1>7. \A q \in requests :
        ~q.lost /\ q # r /\ q.by = r.by /\ Mounted(r) => q.mount # page[r.by].mount
  BY DEF FormInv, OneAtATime, Mounted
<1> QED
  BY <1>1, <1>2, <1>3, <1>4, <1>5, <1>6, <1>7

(* What a success leaves of the page: Home, the page as it is, or the same  *)
(* page with an override, with a new form, or with no form.                 *)
LEMMA SuccessPage ==
    ASSUME FormInv, NEW r \in requests, Succeed(r)
    PROVE  \E p \in Page :
              /\ page' = [page EXCEPT ![r.by] = p]
              /\ \/ Screen[r.view].navigates /\ p = Opened("Home", "none", 0)
                 \/ ~Mounted(r) /\ p = page[r.by]
                 \/ /\ ~Screen[r.view].navigates /\ Mounted(r)
                    /\ p.mount = page[r.by].mount /\ p.view = page[r.by].view
                    /\ \/ p.form = page[r.by].form /\ r.table # "comments"
                       \/ p.form = Form("create", forms + 1) /\ r.table = "comments"
                       \/ p.form = NoForm
<1> DEFINE c == r.by
<1>1. ~r.lost
  BY DEF Succeed
<1> DEFINE here == Mounted(r)
           goes == Screen[r.view].navigates
           override == [page[c] EXCEPT !.submitting = FALSE,
                          !.override = [item |-> r.key, value |-> r.op = "create"]]
           next == [page[c] EXCEPT !.submitting = FALSE, !.form = Form("create", forms + 1)]
           close == [page[c] EXCEPT !.submitting = FALSE, !.form = NoForm]
           stay == [page[c] EXCEPT !.submitting = FALSE, !.form = page[c].form]
<1>0. page[c] \in Page /\ forms \in Nat
  BY <1>1, AnswerFacts
<1>3. PICK p : /\ page' = [page EXCEPT ![c] = p]
               /\ \/ goes /\ p = Opened("Home", "none", 0)
                  \/ ~goes /\ ~here /\ p = page[c]
                  \/ ~goes /\ here /\ r.table = "registrations" /\ p = override
                  \/ ~goes /\ here /\ r.table = "comments" /\ p = next
                  \/ /\ ~goes /\ here /\ r.table \notin {"registrations", "comments"}
                     /\ p = close \/ p = stay
  <2> DEFINE closes == (here \/ goes) /\ Closes(r, page[c])
             other == [page[c] EXCEPT !.submitting = FALSE,
                                      !.form = IF closes THEN NoForm ELSE page[c].form]
  <2>1. page' = [page EXCEPT ![c] =
           IF goes THEN Opened("Home", "none", 0)
           ELSE IF ~here THEN page[c]
           ELSE CASE r.table = "registrations" -> override
                  [] r.table = "comments" -> next
                  [] r.table \notin {"registrations", "comments"} -> other]
    BY DEF Succeed
  <2>2. other = close \/ other = stay
    BY Zenon
  <2> HIDE DEF here, goes, override, next, close, stay, other
  <2>3. CASE goes
    <3>1. page' = [page EXCEPT ![c] = Opened("Home", "none", 0)]
      BY <2>1, <2>3
    <3> QED
      BY <2>3, <3>1, Zenon
  <2>4. CASE ~goes /\ ~here
    <3>1. page' = [page EXCEPT ![c] = page[c]]
      BY <2>1, <2>4
    <3> QED
      BY <2>4, <3>1, Zenon
  <2>5. CASE ~goes /\ here /\ r.table = "registrations"
    BY <2>1, <2>5
  <2>6. CASE ~goes /\ here /\ r.table = "comments"
    BY <2>1, <2>6
  <2>7. CASE ~goes /\ here /\ r.table \notin {"registrations", "comments"}
    BY <2>1, <2>2, <2>7
  <2> QED
    BY <2>3, <2>4, <2>5, <2>6, <2>7
<1>14. /\ override \in Page /\ override.mount = page[c].mount /\ override.view = page[c].view
       /\ override.form = page[c].form
  <2>1. PICK o : o = [item |-> r.key, value |-> r.op = "create"]
    OBVIOUS
  <2>2. o \in [item : Item, value : BOOLEAN]
    BY <1>1, <2>1, AnswerFacts, Zenon
  <2>3. override = [page[c] EXCEPT !.submitting = FALSE, !.override = o]
    BY <2>1, Zenon
  <2> DEFINE q == [page[c] EXCEPT !.submitting = FALSE, !.override = o]
  <2>4. q \in Page /\ q.mount = page[c].mount /\ q.view = page[c].view /\ q.form = page[c].form
    BY <1>0, <2>2, PageOverrides
  <2> HIDE DEF q, override
  <2> QED
    BY <2>3, <2>4 DEF q
<1>15. /\ next \in Page /\ next.mount = page[c].mount /\ next.view = page[c].view
       /\ next.form = Form("create", forms + 1)
  <2>1. Form("create", forms + 1) \in [op : Op \cup {"none"}, form : Nat]
    BY <1>0, FormFacts DEF Op
  <2>2. next = Answered(page[c], Form("create", forms + 1))
    BY Zenon DEF Answered
  <2> HIDE DEF next
  <2> QED
    BY <1>0, <2>1, <2>2, PageAnswers
<1>16. /\ close \in Page /\ close.mount = page[c].mount /\ close.view = page[c].view
       /\ close.form = NoForm
  <2>1. NoForm \in [op : Op \cup {"none"}, form : Nat]
    BY FormFacts
  <2>2. close = Answered(page[c], NoForm)
    BY Zenon DEF Answered
  <2> HIDE DEF close
  <2> QED
    BY <1>0, <2>1, <2>2, PageAnswers
<1>17. /\ stay \in Page /\ stay.mount = page[c].mount /\ stay.view = page[c].view
       /\ stay.form = page[c].form
  <2>1. page[c].form \in [op : Op \cup {"none"}, form : Nat]
    BY <1>0 DEF Page
  <2>2. stay = Answered(page[c], page[c].form)
    BY Zenon DEF Answered
  <2> HIDE DEF stay
  <2> QED
    BY <1>0, <2>1, <2>2, PageAnswers
<1>18. Opened("Home", "none", 0) \in Page
  BY OpenedFacts, ScreenFacts DEF Item
<1> HIDE DEF override, next, close, stay
<1>4. p \in Page
  BY <1>0, <1>3, <1>14, <1>15, <1>16, <1>17, <1>18
<1> QED
  BY <1>3, <1>4, <1>14, <1>15, <1>16, <1>17

LEMMA SucceedKeeps ==
    ASSUME FormInv, NEW r \in requests, Succeed(r)
    PROVE  FormInv'
<1> DEFINE c == r.by
           here == Mounted(r)
           goes == Screen[r.view].navigates
<1>1. ~r.lost /\ r.stage = "done"
  BY DEF Succeed
<1>2. /\ UNCHANGED <<views, rows, sends, lost>> /\ left \subseteq left'
      /\ Screen[r.view].navigates /\ ~Mounted(r) => Leaves(c)
      /\ requests' = requests \ {r}
      /\ forms' = IF Mounted(r) /\ r.table = "comments" THEN forms + 1 ELSE forms
  BY DEF Succeed, Forget, Leaves, ServerUnchanged, setting
<1>0. page[c] \in Page /\ forms \in Nat
  BY <1>1, AnswerFacts
<1>3. PICK p \in Page :
        /\ page' = [page EXCEPT ![c] = p]
        /\ \/ goes /\ p = Opened("Home", "none", 0)
           \/ ~here /\ p = page[c]
           \/ /\ ~goes /\ here /\ p.mount = page[c].mount /\ p.view = page[c].view
              /\ \/ p.form = page[c].form /\ r.table # "comments"
                 \/ p.form = Form("create", forms + 1) /\ r.table = "comments"
                 \/ p.form = NoForm
  BY SuccessPage
<1>18. Form("create", forms + 1).form = forms + 1
  BY <1>0, FormFacts DEF Op
<1>19. LET q == Opened("Home", "none", 0) IN
       q.mount = 0 /\ q.form = NoForm /\ q.view = "Home"
  BY OpenedFacts, ScreenFacts DEF Item
<1>4. \/ p.mount = 0 /\ p.form = NoForm /\ p.view = "Home"
      \/ /\ p.mount = page[c].mount /\ p.view = page[c].view
         /\ \/ p = page[c] /\ ~here
            \/ ~goes /\ here /\ r.table # "comments" /\ p.form = page[c].form
            \/ ~goes /\ here /\ r.table = "comments" /\ p.form.form = forms + 1
            \/ ~goes /\ here /\ p.form = NoForm
  BY <1>0, <1>3, <1>18, <1>19
<1>5. /\ page' \in [Clients -> Page] /\ page'[c] = p
      /\ \A d \in Clients : d # c => page'[d] = page[d]
  BY <1>1, <1>3, <1>4, AnswerFacts, OnePage DEF FormInv, Types
<1>6. Types'
  BY <1>1, <1>2, <1>5, AnswerFacts DEF FormInv, Types
<1>7. forms' = forms \/ forms' = forms + 1
  BY <1>2
<1>8. \/ p.form # page[c].form \/ p.form = NoForm
      \/ ~(Mounted(r) /\ r.table \in Unkeyed)
  BY <1>1, <1>4, AnswerFacts, ScreenFacts DEF Unkeyed
<1>9. \/ p.form = page[c].form \/ p.form = NoForm
      \/ forms' = forms + 1 /\ p.form.form = forms'
  BY <1>2, <1>4
<1>10. /\ \/ p.mount = page[c].mount /\ p.view = page[c].view
          \/ p.mount = 0 /\ p.form = NoForm
       /\ p.mount = 0 => p.view = "Home" /\ p.form = NoForm
       /\ p.view = "EventDetailView" => p.form = NoForm
  <2>1. /\ page[c].mount = 0 => page[c].view = "Home" /\ page[c].form = NoForm
        /\ page[c].view = "EventDetailView" => page[c].form = NoForm
    BY <1>1, AnswerFacts DEF FormInv, PagesNumbered
  <2> QED
    BY <1>1, <1>4, <2>1, AnswerFacts, ScreenFacts
<1>11. \/ p.submitting = page[c].submitting
       \/ \A q \in requests' : ~q.lost /\ q.by = c => q.mount # p.mount
  BY <1>1, <1>2, <1>4, AnswerFacts
<1>12. \A q \in requests' : ~q.lost /\ q.by = c =>
          \/ <<c, q.form>> \in left'
          \/ p.form = page[c].form /\ p.mount = page[c].mount
  <2>1. \/ p = page[c] \/ here \/ Leaves(c)
    BY <1>2, <1>3
  <2> QED
    BY <1>1, <1>2, <2>1, AnswerFacts DEF Leaves
<1>13. c \in Clients
  BY <1>1, AnswerFacts
<1> HIDE DEF c
<1> QED
  BY <1>2, <1>5, <1>6, <1>7, <1>8, <1>9, <1>10, <1>11, <1>12, <1>13, PageChanges DEF c

LEMMA FailureKeeps ==
    ASSUME FormInv, NEW r \in requests, Refuse(r) \/ Lose(r)
    PROVE  FormInv'
<1> DEFINE c == r.by
<1>1. ~r.lost
  BY DEF Refuse, Lose
<1>2. UNCHANGED <<views, rows, forms, sends, left>> /\ lost \subseteq lost'
  BY DEF Refuse, Lose, ServerUnchanged, setting
<1>3. PICK p : /\ page' = [page EXCEPT ![c] = p]
               /\ \/ Mounted(r) /\ p = [page[c] EXCEPT !.submitting = FALSE]
                  \/ ~Mounted(r) /\ p = page[c]
  <2>1. page = [page EXCEPT ![c] = page[c]]
    BY <1>1, AnswerFacts DEF FormInv, Types
  <2>2. Fails(r)
    BY DEF Refuse, Lose
  <2> QED
    BY <2>1, <2>2 DEF Fails
<1>4. /\ p \in Page /\ p.mount = page[c].mount /\ p.view = page[c].view /\ p.form = page[c].form
      /\ Mounted(r) \/ p.submitting = page[c].submitting
  <2> DEFINE q == [page[c] EXCEPT !.submitting = FALSE]
  <2>1. page[c] \in Page
    BY <1>1, AnswerFacts
  <2>2. q \in Page /\ q.mount = page[c].mount /\ q.view = page[c].view /\ q.form = page[c].form
    BY <2>1, PageWaits
  <2>3. (p = q /\ Mounted(r)) \/ p = page[c]
    BY <1>3
  <2> HIDE DEF q
  <2> QED
    BY <2>1, <2>2, <2>3
<1>5. /\ page' \in [Clients -> Page] /\ page'[c] = p
      /\ \A d \in Clients : d # c => page'[d] = page[d]
  BY <1>1, <1>3, <1>4, AnswerFacts, OnePage DEF FormInv, Types
<1>6. \/ requests' = requests \ {r} /\ r.stage # "done"
      \/ requests' = requests \ {r} /\ lost' = lost \cup {<<r.by, r.form>>}
      \/ requests' = (requests \ {r}) \cup {[r EXCEPT !.lost = TRUE]}
            /\ lost' = lost \cup {<<r.by, r.form>>}
  BY DEF Refuse, Lose, Forget
<1>7. /\ [r EXCEPT !.lost = TRUE] \in Sent /\ [r EXCEPT !.lost = TRUE].lost = TRUE
      /\ [r EXCEPT !.lost = TRUE].by = r.by /\ [r EXCEPT !.lost = TRUE].mount = r.mount
      /\ [r EXCEPT !.lost = TRUE].view = r.view /\ [r EXCEPT !.lost = TRUE].table = r.table
      /\ [r EXCEPT !.lost = TRUE].form = r.form
  <2>1. r \in Sent
    BY DEF FormInv, Types
  <2> QED
    BY <2>1 DEF Sent
<1>8. Types'
  BY <1>1, <1>2, <1>5, <1>6, <1>7, AnswerFacts DEF FormInv, Types
<1>9. \A q \in requests' : \/ q \in requests
                           \/ /\ q.lost /\ <<q.by, q.form>> \in lost'
                              /\ \E s \in requests :
                                   /\ s.by = q.by /\ s.mount = q.mount /\ s.view = q.view
                                   /\ s.table = q.table /\ s.form = q.form
  BY <1>6, <1>7
<1>10. \A q \in requests : q \notin requests' =>
          q.by = c /\ (<<q.by, q.form>> \in lost' \/ q.stage # "done")
  BY <1>6
<1>11. \A q \in requests' : ~q.lost => q \in requests /\ q # r
  BY <1>6, <1>7, <1>1
<1>12. \/ p.submitting = page[c].submitting
       \/ \A q \in requests' : ~q.lost /\ q.by = c => q.mount # p.mount
  BY <1>1, <1>4, <1>11, AnswerFacts
<1>13. p.form = page[c].form /\ p.mount = page[c].mount
  BY <1>4
<1>14. /\ p.mount = 0 => p.view = "Home" /\ p.form = NoForm
       /\ p.view = "EventDetailView" => p.form = NoForm
  BY <1>1, <1>4, AnswerFacts DEF FormInv, PagesNumbered
<1>15. c \in Clients
  BY <1>1, AnswerFacts
<1> HIDE DEF c
<1> QED
  BY <1>2, <1>4, <1>5, <1>8, <1>9, <1>10, <1>12, <1>13, <1>14, <1>15, PageChanges DEF c
-----------------------------------------------------------------------------
LEMMA FormInvNext == FormInv /\ [Next]_vars => FormInv'
<1> SUFFICES ASSUME FormInv, [Next]_vars PROVE FormInv'
  OBVIOUS
<1>1. ASSUME NEW c \in Clients, NEW view \in views, NEW item \in Item, Visit(c, view, item)
      PROVE  FormInv'
  BY <1>1, VisitKeeps
<1>2. ASSUME NEW c \in Clients, NEW op \in Op, OpenDialog(c, op)
      PROVE  FormInv'
  BY <1>2, OpenDialogKeeps
<1>3. ASSUME NEW c \in Clients, NEW k \in Item, NEW old \in Item, Submit(c, k, old)
      PROVE  FormInv'
  BY <1>3, SubmitKeeps
<1>4. ASSUME NEW c \in Clients, CloseDialog(c) PROVE FormInv'
  BY <1>4, CloseDialogKeeps
<1>5. ASSUME NEW c \in Clients, Toggle(c) PROVE FormInv'
  BY <1>5, ToggleKeeps
<1>6. ASSUME NEW c \in Clients, ServeLoad(c) \/ LoadArrives(c) PROVE FormInv'
  BY <1>6, LoadKeeps
<1>7. ASSUME NEW r \in requests, Check(r) PROVE FormInv'
  BY <1>7, CheckKeeps
<1>8. ASSUME NEW r \in requests, Commit(r) PROVE FormInv'
  BY <1>8, CommitKeeps
<1>9. ASSUME NEW r \in requests, Succeed(r) PROVE FormInv'
  BY <1>9, SucceedKeeps
<1>10. ASSUME NEW r \in requests, Refuse(r) \/ Lose(r) PROVE FormInv'
  BY <1>10, FailureKeeps
<1>11. ASSUME (\E w \in works : deleteWork(w)) \/ (\E d \in deletion : WorkDeleted(d))
       PROVE  FormInv'
  BY <1>11, DeletionKeeps
<1>12. CASE UNCHANGED vars
  <2>1. /\ UNCHANGED <<views, rows, requests, page, forms, sends, lost, left>>
        /\ forms \in Nat
    BY <1>12 DEF vars, setting, FormInv, Types
  <2>2. Types'
    BY <2>1 DEF FormInv, Types
  <2> QED
    BY <2>1, <2>2, FormsStay
<1> QED
  BY <1>1, <1>2, <1>3, <1>4, <1>5, <1>6, <1>7, <1>8, <1>9, <1>10, <1>11, <1>12
     DEF Next, Item, Op

LEMMA SpecFormInv == Spec => []FormInv
BY FormInvInit, FormInvNext, PTL DEF Spec

-----------------------------------------------------------------------------
(* What a form asks: only the page of the filters has forms that edit or    *)
(* delete, and only filters and registrations are asked to change.          *)
FormOp(p) ==
    p.form = NoForm \/ p.form.op = "create" \/ (p.form.op \in Op /\ p.view = "SavedFiltersView")
WriteOp(r) ==
    r.op = "create" \/ (r.op \in {"update", "remove"} /\ r.table \in {"filters", "registrations"})
OpsInv == (\A c \in Clients : FormOp(page[c])) /\ \A r \in requests : WriteOp(r)

LEMMA OpsInvInit == Init => OpsInv
<1> SUFFICES ASSUME Init PROVE OpsInv
  OBVIOUS
<1>1. \A c \in Clients : page[c].form = NoForm
  BY OpenedFacts, ScreenFacts DEF Init, Item
<1> QED
  BY <1>1 DEF Init, OpsInv, FormOp

LEMMA OpsStay ==
    ASSUME OpsInv, NEW c \in Clients, FormOp(page'[c]),
           \A d \in Clients : d # c => page'[d] = page[d],
           \A q \in requests' : \/ q \in requests
                                \/ \E r \in requests : q.op = r.op /\ q.table = r.table
                                \/ WriteOp(q)
    PROVE  OpsInv'
<1>1. \A d \in Clients : FormOp(page'[d])
  BY DEF OpsInv
<1>2. \A q \in requests' : WriteOp(q)
  BY DEF OpsInv, WriteOp
<1> QED
  BY <1>1, <1>2 DEF OpsInv, FormOp, WriteOp

LEMMA OpsOfVisits ==
    ASSUME FormInv, OpsInv, NEW c \in Clients, NEW view \in views, NEW item \in Item,
           Visit(c, view, item)
    PROVE  OpsInv'
<1>1. /\ page \in [Clients -> Page] /\ page[c] \in Page /\ view \in DOMAIN Screen
      /\ forms \in Nat /\ requests' = requests /\ FormOp(page[c])
  BY DEF FormInv, Types, Visit, ServerUnchanged, OpsInv
<1>2. CASE view = "EventDetailView" /\ page[c].view = view
  <2> DEFINE p == [page[c] EXCEPT !.item = item, !.loaded = "asked"]
  <2>1. page' = [page EXCEPT ![c] = p]
    BY <1>1, <1>2 DEF Visit
  <2>2. p.form = page[c].form /\ p.view = page[c].view
    BY <1>1, PageAsks
  <2> HIDE DEF p
  <2>3. page'[c] = p /\ \A d \in Clients : d # c => page'[d] = page[d]
    BY <1>1, <2>1
  <2> QED
    BY <1>1, <2>2, <2>3, OpsStay DEF FormOp
<1>3. CASE ~(view = "EventDetailView" /\ page[c].view = view)
  <2> DEFINE p == Opened(view, item, forms + 1)
  <2>1. page' = [page EXCEPT ![c] = p]
    BY <1>3 DEF Visit
  <2>2. p.form = NoForm \/ p.form.op = "create"
    BY DEF Opened, Form
  <2> HIDE DEF p
  <2>3. page'[c] = p /\ \A d \in Clients : d # c => page'[d] = page[d]
    BY <1>1, <2>1
  <2> QED
    BY <1>1, <2>2, <2>3, OpsStay DEF FormOp
<1> QED
  BY <1>2, <1>3

LEMMA OpsOfForms ==
    ASSUME FormInv, OpsInv, NEW c \in Clients, NEW op \in Op, NEW k \in Item, NEW old \in Item,
           \/ OpenDialog(c, op) \/ CloseDialog(c) \/ Submit(c, k, old)
           \/ Toggle(c) \/ ServeLoad(c) \/ LoadArrives(c)
    PROVE  OpsInv'
<1>1. /\ page \in [Clients -> Page] /\ page[c] \in Page /\ forms \in Nat /\ FormOp(page[c])
  BY DEF FormInv, Types, OpsInv
<1>2. CASE OpenDialog(c, op)
  <2> DEFINE p == [page[c] EXCEPT !.form = Form(op, forms + 1)]
  <2>1. /\ page' = [page EXCEPT ![c] = p] /\ requests' = requests
        /\ op # "create" => page[c].view = "SavedFiltersView"
    BY <1>2 DEF OpenDialog, ServerUnchanged
  <2>2. p.form.op = op /\ p.view = page[c].view
    BY <1>1 DEF Page, Form
  <2> HIDE DEF p
  <2>3. page'[c] = p /\ \A d \in Clients : d # c => page'[d] = page[d]
    BY <1>1, <2>1
  <2> QED
    BY <2>1, <2>2, <2>3, OpsStay DEF FormOp
<1>3. CASE CloseDialog(c)
  <2> DEFINE p == [page[c] EXCEPT !.form = NoForm]
  <2>1. page' = [page EXCEPT ![c] = p] /\ requests' = requests
    BY <1>3 DEF CloseDialog, ServerUnchanged
  <2>2. p.form = NoForm
    BY <1>1 DEF Page
  <2> HIDE DEF p
  <2>3. page'[c] = p /\ \A d \in Clients : d # c => page'[d] = page[d]
    BY <1>1, <2>1
  <2> QED
    BY <2>1, <2>2, <2>3, OpsStay DEF FormOp
<1>4. CASE Submit(c, k, old) \/ Toggle(c)
  <2> DEFINE p == [page[c] EXCEPT !.submitting = TRUE]
  <2>1. page' = [page EXCEPT ![c] = p]
    BY <1>4 DEF Submit, Toggle
  <2>2. p.form = page[c].form /\ p.view = page[c].view
    BY <1>1, PageWaits
  <2> HIDE DEF p
  <2>3. page'[c] = p /\ \A d \in Clients : d # c => page'[d] = page[d]
    BY <1>1, <2>1
  <2>4. PICK w : requests' = requests \cup {w} /\ WriteOp(w)
    <3>1. ASSUME Submit(c, k, old)
          PROVE  WriteOp(Write(c, page[c].form.op, k, old, page[c].form.form))
      <4>1. page[c].form # NoForm
        BY <3>1 DEF Submit
      <4>2. page[c].view = "SavedFiltersView" => Screen[page[c].view].table = "filters"
        BY DEF Screen, Written
      <4> QED
        BY <1>1, <4>1, <4>2 DEF FormOp, WriteOp, Write, Op
    <3>2. ASSUME Toggle(c), NEW o \in {"create", "remove"}
          PROVE  WriteOp(Write(c, o, page[c].item, page[c].item, 0))
      BY <3>2, ScreenFacts DEF Toggle, WriteOp, Write
    <3> QED
      BY <1>4, <3>1, <3>2 DEF Submit, Toggle
  <2> QED
    BY <1>1, <2>2, <2>3, <2>4, OpsStay DEF FormOp
<1>5. CASE ServeLoad(c) \/ LoadArrives(c)
  <2>1. PICK l \in {"isYes", "isNo", "yes", "no"} :
          page' = [page EXCEPT ![c] = [page[c] EXCEPT !.loaded = l]]
    BY <1>5 DEF ServeLoad, LoadArrives
  <2> DEFINE p == [page[c] EXCEPT !.loaded = l]
  <2>2. p.form = page[c].form /\ p.view = page[c].view
    BY <1>1, PageLoads
  <2> HIDE DEF p
  <2>3. page'[c] = p /\ \A d \in Clients : d # c => page'[d] = page[d]
    BY <1>1, <2>1 DEF p
  <2>4. requests' = requests
    BY <1>5 DEF ServeLoad, LoadArrives
  <2> QED
    BY <1>1, <2>2, <2>3, <2>4, OpsStay DEF FormOp
<1> QED
  BY <1>2, <1>3, <1>4, <1>5

LEMMA OpsOfAnswers ==
    ASSUME FormInv, OpsInv, NEW r \in requests,
           Check(r) \/ Commit(r) \/ Succeed(r) \/ Refuse(r) \/ Lose(r)
    PROVE  OpsInv'
<1>1. /\ r \in Sent /\ r.by \in Clients /\ page \in [Clients -> Page] /\ page[r.by] \in Page
      /\ FormOp(page[r.by])
  BY DEF FormInv, Types, Sent, OpsInv
<1>2. CASE Succeed(r)
  <2>1. PICK p \in Page :
          /\ page' = [page EXCEPT ![r.by] = p]
          /\ \/ p = Opened("Home", "none", 0)
             \/ p = page[r.by]
             \/ /\ p.view = page[r.by].view
                /\ \/ p.form = page[r.by].form
                   \/ p.form = Form("create", forms + 1)
                   \/ p.form = NoForm
    BY <1>2, SuccessPage
  <2>2. Opened("Home", "none", 0).form = NoForm /\ Form("create", forms + 1).op = "create"
    BY ScreenFacts DEF Opened, Form
  <2>3. FormOp(p)
    BY <1>1, <2>1, <2>2 DEF FormOp
  <2>4. page'[r.by] = p /\ \A d \in Clients : d # r.by => page'[d] = page[d]
    BY <1>1, <2>1
  <2>5. requests' = requests \ {r}
    BY <1>2 DEF Succeed, Forget
  <2> QED
    BY <1>1, <2>3, <2>4, <2>5, OpsStay
<1>3. CASE Check(r) \/ Commit(r)
  <2>1. page' = page
    BY <1>3 DEF Check, Commit
  <2>2. PICK stage \in {"checked", "done"} :
          requests' \subseteq (requests \ {r}) \cup {[r EXCEPT !.stage = stage]}
    BY <1>3 DEF Check, Commit, Stage, Forget
  <2>3. [r EXCEPT !.stage = stage].op = r.op /\ [r EXCEPT !.stage = stage].table = r.table
    BY <1>1 DEF Sent
  <2> QED
    BY <1>1, <2>1, <2>2, <2>3, OpsStay
<1>4. CASE Refuse(r) \/ Lose(r)
  <2> DEFINE p == [page[r.by] EXCEPT !.submitting = FALSE]
  <2>1. page' = page \/ page' = [page EXCEPT ![r.by] = p]
    BY <1>4 DEF Refuse, Lose, Fails
  <2>2. p.form = page[r.by].form /\ p.view = page[r.by].view
    BY <1>1, PageWaits
  <2> HIDE DEF p
  <2>3. /\ page'[r.by] = page[r.by] \/ page'[r.by] = p
        /\ \A d \in Clients : d # r.by => page'[d] = page[d]
    BY <1>1, <2>1
  <2>4. requests' \subseteq requests \cup {[r EXCEPT !.lost = TRUE]}
    BY <1>4 DEF Refuse, Lose, Forget
  <2>5. [r EXCEPT !.lost = TRUE].op = r.op /\ [r EXCEPT !.lost = TRUE].table = r.table
    BY <1>1 DEF Sent
  <2> QED
    BY <1>1, <2>2, <2>3, <2>4, <2>5, OpsStay DEF FormOp
<1> QED
  BY <1>2, <1>3, <1>4

LEMMA OpsInvNext == FormInv /\ OpsInv /\ [Next]_vars => OpsInv'
<1> SUFFICES ASSUME FormInv, OpsInv, [Next]_vars PROVE OpsInv'
  OBVIOUS
<1>1. ASSUME NEW c \in Clients, NEW view \in views, NEW item \in Item, Visit(c, view, item)
      PROVE  OpsInv'
  BY <1>1, OpsOfVisits
<1>2. ASSUME NEW c \in Clients, NEW op \in Op, OpenDialog(c, op) PROVE OpsInv'
  BY <1>2, OpsOfForms DEF Item
<1>3. ASSUME NEW c \in Clients, NEW k \in Item, NEW old \in Item, Submit(c, k, old) PROVE OpsInv'
  BY <1>3, OpsOfForms DEF Op
<1>4. ASSUME NEW c \in Clients, CloseDialog(c) \/ Toggle(c) \/ ServeLoad(c) \/ LoadArrives(c)
      PROVE  OpsInv'
  BY <1>4, OpsOfForms DEF Op, Item
<1>5. ASSUME NEW r \in requests, Check(r) \/ Commit(r) \/ Succeed(r) \/ Refuse(r) \/ Lose(r)
      PROVE  OpsInv'
  BY <1>5, OpsOfAnswers
<1>6. CASE \/ \E w \in works : deleteWork(w)
           \/ \E d \in deletion : WorkDeleted(d)
           \/ UNCHANGED vars
  BY <1>6 DEF deleteWork, WorkDeleted, vars, OpsInv, FormOp, WriteOp
<1> QED
  BY <1>1, <1>2, <1>3, <1>4, <1>5, <1>6 DEF Next, Item, Op

(* The steps that write rows: a commit and the deletion of a work.          *)
LEMMA RowsChange ==
    ASSUME [Next]_vars
    PROVE  \/ UNCHANGED <<rows, works, deletion>>
           \/ \E r \in requests : Commit(r)
           \/ \E w \in works : deleteWork(w)
           \/ \E d \in deletion : WorkDeleted(d)
<1>1. ASSUME NEW c \in Clients, NEW view \in views, NEW item \in Item, Visit(c, view, item)
      PROVE  UNCHANGED <<rows, works, deletion>>
  BY <1>1 DEF Visit, ServerUnchanged
<1>2. ASSUME NEW c \in Clients, NEW op \in Op, NEW k \in Item, NEW old \in Item,
             \/ OpenDialog(c, op) \/ Submit(c, k, old) \/ CloseDialog(c)
             \/ Toggle(c) \/ ServeLoad(c) \/ LoadArrives(c)
      PROVE  UNCHANGED <<rows, works, deletion>>
  BY <1>2 DEF OpenDialog, Submit, CloseDialog, Toggle, ServeLoad, LoadArrives, ServerUnchanged
<1>3. ASSUME NEW r \in requests, Check(r) \/ Succeed(r) \/ Refuse(r) \/ Lose(r)
      PROVE  UNCHANGED <<rows, works, deletion>>
  BY <1>3 DEF Check, Succeed, Refuse, Lose, ServerUnchanged
<1>4. CASE UNCHANGED vars
  BY <1>4 DEF vars
<1> QED
  BY <1>1, <1>2, <1>3, <1>4 DEF Next, Item, Op
-----------------------------------------------------------------------------
(* No table with a key has two rows of one key.                             *)
KeysUnique ==
    \A r, s \in rows :
        r # s /\ r.table = s.table =>
            /\ r.table = "users" => r.key # s.key
            /\ r.table \in {"filters", "registrations"} /\ r.by = s.by => r.key # s.key

LEMMA KeyedScreens ==
    \A v \in DOMAIN Screen :
        Screen[v].table \in {"users", "filters", "registrations"} => Screen[v].unique = TRUE
<1>1. /\ Screen["RegisterView"].unique = TRUE /\ Screen["SavedFiltersView"].unique = TRUE
      /\ Screen["EventsListView"].unique = TRUE /\ Screen["EventDetailView"].unique = TRUE
  BY DEF Screen, Written
<1>2. /\ Screen["Home"].table = "none" /\ Screen["EventFormView"].table = "events"
      /\ Screen["WorkDetailView"].table = "comments"
  BY DEF Screen, Written
<1> QED
  BY <1>1, <1>2, ScreenFacts

LEMMA KeysUniqueNext ==
    ASSUME FormInv, OpsInv, KeysUnique, [Next]_vars PROVE KeysUnique'
<1>1. CASE rows' \subseteq rows
  BY <1>1 DEF KeysUnique
<1>2. ASSUME NEW r \in requests, Commit(r) PROVE KeysUnique'
  <2> DEFINE row == [table |-> r.table, key |-> r.key, by |-> User(r.by), form |-> r.form, n |-> r.n]
             kept == IF r.op = "create" THEN rows ELSE rows \ Matching(r.table, r.old, r.by)
  <2>1. ~Violates(r) /\ rows' = IF r.op = "remove" THEN kept ELSE kept \cup {row}
    BY <1>2 DEF Commit
  <2>2. CASE r.op = "remove"
    BY <1>1, <2>1, <2>2
  <2>3. CASE r.op # "remove"
    <3>1. /\ row.table = r.table /\ row.key = r.key /\ row.by = User(r.by)
          /\ kept \subseteq rows
      OBVIOUS
    <3>2. r.table = Screen[r.view].table /\ r.view \in DOMAIN Screen
      BY DEF FormInv, WritesNumbered, Types, Sent
    <3>3. r.op = "create" \/ (r.op = "update" /\ r.table \in {"filters", "registrations"})
      BY <2>3 DEF OpsInv, WriteOp
    <3>4. r.table \in {"users", "filters", "registrations"} =>
            kept \cap Matching(r.table, r.key, r.by) = {}
      <4>1. CASE r.op = "create"
        BY <2>1, <3>2, <4>1, KeyedScreens DEF Violates
      <4>2. CASE r.op = "update" /\ r.key # r.old
        BY <2>1, <4>2 DEF Violates
      <4>3. CASE r.op = "update" /\ r.key = r.old
        BY <4>3
      <4> QED
        BY <3>3, <4>1, <4>2, <4>3
    <3> HIDE DEF row, kept
    <3>5. \A s \in kept : s.table = row.table =>
            /\ s.table = "users" => s.key # row.key
            /\ s.table \in {"filters", "registrations"} /\ s.by = row.by => s.key # row.key
      BY <3>1, <3>4 DEF Matching
    <3>6. rows' = kept \cup {row}
      BY <2>1, <2>3
    <3> QED
      BY <3>1, <3>5, <3>6 DEF KeysUnique
  <2> QED
    BY <2>2, <2>3
<1>3. CASE (\E w \in works : deleteWork(w)) \/ (\E d \in deletion : WorkDeleted(d))
  BY <1>1, <1>3 DEF deleteWork, WorkDeleted
<1> QED
  BY <1>1, <1>2, <1>3, RowsChange

(* One form adds one row, an event or a comment too, unless the network     *)
(* failed under it: the buttons that send are disabled while they wait      *)
(* (submitting, isPosting), and a success closes the form or replaces it.   *)
(* The tables with a key have one row of each: their constraint, not the    *)
(* checks of the services, which two requests can pass together.            *)
THEOREM FormAddsOneRow == Spec => []DuplicatesNeedLostReply
<1>1. FormInv /\ KeysUnique => DuplicatesNeedLostReply
  <2> SUFFICES ASSUME FormInv, KeysUnique, NEW r \in rows, NEW s \in rows,
                      r # s, r.table = s.table
               PROVE  /\ r.table \in {"events", "comments"} /\ r.form = s.form
                            => \E c \in Clients : <<c, r.form>> \in lost
                      /\ r.table = "users" => r.key # s.key
                      /\ r.table \in {"filters", "registrations"} /\ r.by = s.by
                            => r.key # s.key
    BY DEF DuplicatesNeedLostReply
  <2>1. r.table \in {"events", "comments"} /\ r.form = s.form
          => \E c \in Clients : <<c, r.form>> \in lost
    BY DEF FormInv, OneWritePerForm, LostForm, Unkeyed
  <2> QED
    BY <2>1 DEF KeysUnique
<1>2. Init => KeysUnique
  BY DEF Init, KeysUnique
<1> QED
  BY <1>1, <1>2, KeysUniqueNext, OpsInvInit, OpsInvNext, SpecFormInv, PTL DEF Spec

(* A success closes another form than its own, which its user has since     *)
(* opened, only if he had left the first one while it was being sent.       *)
THEOREM FormStaysOpen == Spec => []FormClosesByItself
<1>1. Init => FormClosesByItself
  BY DEF Init, FormClosesByItself
<1>2. FormInv /\ FormClosesByItself /\ [Next]_vars => FormClosesByItself'
  <2> SUFFICES ASSUME FormInv, FormClosesByItself, [Next]_vars PROVE FormClosesByItself'
    OBVIOUS
  <2>1. CASE taken' = taken /\ left \subseteq left'
    BY <2>1 DEF FormClosesByItself
  <2>2. ASSUME NEW r \in requests, Succeed(r) PROVE FormClosesByItself'
    <3>1. left \subseteq left'
      BY <2>2 DEF Succeed, Leaves
    <3>2. \/ taken' = taken
          \/ taken' = taken \cup {<<r.by, r.form>>} /\ page[r.by].form.form # r.form
      BY <2>2 DEF Succeed
    <3>3. <<r.by, r.form>> \in left \/ page[r.by].form.form = r.form
      BY <2>2 DEF FormInv, StayedWithForm, Succeed
    <3> QED
      BY <3>1, <3>2, <3>3 DEF FormClosesByItself
  <2>3. ASSUME NEW r \in requests, Check(r) \/ Commit(r) \/ Refuse(r) \/ Lose(r)
        PROVE  FormClosesByItself'
    BY <2>3, <2>1 DEF Check, Commit, Refuse, Lose
  <2>4. ASSUME NEW c \in Clients, NEW view \in views, NEW item \in Item, Visit(c, view, item)
        PROVE  FormClosesByItself'
    BY <2>4, <2>1 DEF Visit, Leaves
  <2>5. ASSUME NEW c \in Clients, NEW op \in Op, NEW k \in Item, NEW old \in Item,
               OpenDialog(c, op) \/ Submit(c, k, old)
        PROVE  FormClosesByItself'
    BY <2>5, <2>1 DEF OpenDialog, Submit
  <2>6. CASE (\E w \in works : deleteWork(w)) \/ (\E d \in deletion : WorkDeleted(d))
    BY <2>6, <2>1 DEF deleteWork, WorkDeleted
  <2>7. CASE UNCHANGED vars
    BY <2>7, <2>1 DEF vars
  <2>8. ASSUME NEW c \in Clients, CloseDialog(c) \/ Toggle(c) \/ ServeLoad(c) \/ LoadArrives(c)
        PROVE  FormClosesByItself'
    BY <2>8, <2>1 DEF CloseDialog, Toggle, ServeLoad, LoadArrives, Leaves
  <2> QED
    BY <2>2, <2>3, <2>4, <2>5, <2>6, <2>7, <2>8 DEF Next, Item, Op
<1> QED
  BY <1>1, <1>2, SpecFormInv, PTL DEF Spec

(* Every comment has its work; a deletion saw comments of its work only.    *)
CommentInv ==
    /\ \A r \in rows : r.table = "comments" => r.key \in works
    /\ \A d \in deletion : \A r \in d.comments : r.table = "comments" /\ r.key = d.work

(* What a step does to the comments and to their works.                     *)
CommentStep ==
    \A r \in rows \cup rows' : r.table = "comments" => (r \in rows' <=> r.key \in works')

LEMMA CommentsOfCommit ==
    ASSUME OpsInv, CommentInv, NEW r \in requests, Commit(r)
    PROVE  CommentInv' /\ CommentStep
<1> DEFINE row == [table |-> r.table, key |-> r.key, by |-> User(r.by), form |-> r.form, n |-> r.n]
           kept == IF r.op = "create" THEN rows ELSE rows \ Matching(r.table, r.old, r.by)
<1>1. /\ ~Violates(r) /\ UNCHANGED <<works, deletion>>
      /\ rows' = IF r.op = "remove" THEN kept ELSE kept \cup {row}
  BY DEF Commit
<1>2. row.table = r.table /\ row.key = r.key
  OBVIOUS
<1>3. r.table = "comments" => r.op = "create" /\ r.key \in works
  BY <1>1 DEF OpsInv, WriteOp, Violates
<1>4. \A s \in rows : s.table = "comments" => s \in kept
  BY <1>3 DEF Matching
<1>5. kept \subseteq rows
  OBVIOUS
<1> HIDE DEF row, kept
<1> QED
  BY <1>1, <1>2, <1>3, <1>4, <1>5 DEF CommentInv, CommentStep

LEMMA CommentsOfDeletion ==
    ASSUME CommentInv, NEW d \in deletion, WorkDeleted(d)
    PROVE  CommentInv' /\ CommentStep
<1>1. CASE CommentsOf(d.work) \subseteq d.comments
  <2>1. rows' = rows \ d.comments /\ works' = works \ {d.work} /\ deletion' = {}
    BY <1>1 DEF WorkDeleted
  <2>2. \A r \in rows : r.table = "comments" => (r \in d.comments <=> r.key = d.work)
    BY <1>1 DEF CommentInv, CommentsOf
  <2> QED
    BY <2>1, <2>2 DEF CommentInv, CommentStep
<1>2. CASE ~(CommentsOf(d.work) \subseteq d.comments)
  <2>1. rows' = rows /\ works' = works /\ deletion' = {}
    BY <1>2 DEF WorkDeleted
  <2> QED
    BY <2>1 DEF CommentInv, CommentStep
<1> QED
  BY <1>1, <1>2

(* Comments go with their work: the foreign key has the last word over      *)
(* createComment, and over deleteWork, which deletes only the comments that *)
(* it saw, and deletes them only if no other has come.                      *)
THEOREM CommentsStayWithTheirWork == Spec => CommentsGoWithTheirWork
<1>1. Init => CommentInv
  BY DEF Init, CommentInv
<1>2. OpsInv /\ CommentInv /\ [Next]_vars => CommentInv' /\ CommentStep
  <2> SUFFICES ASSUME OpsInv, CommentInv, [Next]_vars PROVE CommentInv' /\ CommentStep
    OBVIOUS
  <2>1. CASE UNCHANGED <<rows, works, deletion>>
    BY <2>1 DEF CommentInv, CommentStep
  <2>2. ASSUME NEW r \in requests, Commit(r) PROVE CommentInv' /\ CommentStep
    BY <2>2, CommentsOfCommit
  <2>3. ASSUME NEW w \in works, deleteWork(w) PROVE CommentInv' /\ CommentStep
    BY <2>3 DEF deleteWork, CommentsOf, CommentInv, CommentStep
  <2>4. ASSUME NEW d \in deletion, WorkDeleted(d) PROVE CommentInv' /\ CommentStep
    BY <2>4, CommentsOfDeletion
  <2> QED
    BY <2>1, <2>2, <2>3, <2>4, RowsChange
<1>3. CommentStep <=>
        \A r \in rows \cup rows' : r.table = "comments" => (r \in rows' <=> r.key \in works')
  BY DEF CommentStep
<1> QED
  BY <1>1, <1>2, <1>3, OpsInvInit, OpsInvNext, SpecFormInv, PTL DEF Spec, CommentsGoWithTheirWork
-----------------------------------------------------------------------------
(* What a step may do to a tab without touching what it knows of its        *)
(* registrations.                                                           *)
Alike(r, q) ==
    /\ r.by = q.by /\ r.table = q.table /\ r.form = q.form
    /\ r.op = q.op /\ r.key = q.key /\ r.old = q.old
AsksRegistration(r) ==
    /\ r.form = 0 /\ r.op \in {"create", "remove"}
    /\ r.old = r.key /\ r.key \in Keys /\ r.key = page[r.by].item
Looks(p, q) == p.view = q.view /\ p.item = q.item /\ p.override = q.override
Tells(p) == p.loaded \in {"isYes", "yes"}

PageKept(c) ==
    /\ Looks(page'[c], page[c])
    /\ \/ page'[c].loaded = page[c].loaded
       \/ page[c].loaded # "asked" /\ (Tells(page'[c]) <=> Tells(page[c]))
PageServed(c) ==
    Looks(page'[c], page[c]) /\ (Tells(page'[c]) <=> Registered(c, page[c].item))
PageOpens(c) ==
    /\ page'[c].view = "EventDetailView" => page'[c].item \in Keys /\ page'[c].loaded = "asked"
    /\ \/ page'[c].override = NoOverride
       \/ page'[c].override = page[c].override /\ page[c].view = "EventDetailView"

LEMMA OwnWrite ==
    ASSUME FormInv, RegistrationShape, NEW c \in Clients, Steady(c), NEW r \in Registering(c)
    PROVE  /\ ~r.lost /\ Mounted(r) /\ r.view = "EventDetailView"
           /\ page[c].view = "EventDetailView" /\ page[c].submitting
           /\ Registering(c) = {r}
<1>1. \A q \in Registering(c) : /\ q \in requests /\ q.by = c /\ ~q.lost /\ Mounted(q)
                                /\ q.view = "EventDetailView"
  <2> TAKE q \in Registering(c)
  <2>1. q \in requests /\ q.by = c /\ q.form = 0
    BY DEF Registering, RegistrationShape
  <2>2. ~q.lost
    BY <2>1 DEF FormInv, WritesNumbered, Steady
  <2>3. Mounted(q)
    BY <2>1, <2>2 DEF FormInv, StayedWithForm, Steady
  <2> QED
    BY <2>1, <2>2, <2>3 DEF FormInv, WritesNumbered
<1>2. page[c].view = "EventDetailView"
  BY <1>1, ZenonT(60) DEF FormInv, WritesNumbered
<1>3. page[c].submitting
  BY <1>1, SMTT(30) DEF FormInv, OneAtATime
<1>4. \A q \in Registering(c) : q = r
  BY <1>1 DEF FormInv, OneAtATime, Mounted
<1> QED
  BY <1>1, <1>2, <1>3, <1>4

LEMMA RegistrationsOfOneView ==
    \A v \in DOMAIN Screen : Screen[v].table = "registrations" => v = "EventDetailView"
BY ScreenFacts DEF Screen, Written

LEMMA SameRows ==
    ASSUME oneUser' = oneUser,
           \A s : s.table = "registrations" => (s \in rows' <=> s \in rows)
    PROVE  \A c, k : Registered(c, k)' <=> Registered(c, k)
BY DEF Registered, User

LEMMA SteadyBefore ==
    ASSUME oneUser' = oneUser, left \subseteq left', lost \subseteq lost', NEW c, Steady(c)'
    PROVE  Steady(c)
BY DEF Steady

(* Every step but the writing and the answering of a registration.          *)
LEMMA QuietSteps ==
    ASSUME RegistrationShape, RegistrationKnown,
           oneUser' = oneUser, left \subseteq left', lost \subseteq lost',
           \A d \in deletion' : \A s \in d.comments : s.table = "comments",
           \A s : s.table = "registrations" => (s \in rows' <=> s \in rows),
           \A r \in requests' : r.table = "registrations" =>
               (\E q \in requests : Alike(r, q)) \/ AsksRegistration(r),
           \A c \in Clients : Steady(c)' => Unanswered(c)' = Unanswered(c),
           \A c \in Clients : PageKept(c) \/ PageServed(c) \/ PageOpens(c)
    PROVE  RegistrationShape' /\ RegistrationKnown'
<1>1. RegistrationShape'
  <2>1. \A c \in Clients :
          /\ page'[c].view = "EventDetailView" => page'[c].item \in Keys
          /\ page'[c].override = NoOverride \/ page'[c].override.item \in Keys
    BY DEF RegistrationShape, PageKept, PageServed, PageOpens, Looks
  <2>2. \A r \in requests' : r.table = "registrations" =>
          /\ r.form = 0 /\ r.op \in {"create", "remove"} /\ r.old = r.key /\ r.key \in Keys
    BY DEF RegistrationShape, Alike, AsksRegistration
  <2> QED
    BY <2>1, <2>2 DEF RegistrationShape
<1>2. ASSUME NEW c \in Clients, Steady(c)'
      PROVE  Known(c)'
  <2>1. Known(c)
    BY <1>2, SteadyBefore DEF RegistrationKnown
  <2>2. \A k : Registered(c, k)' <=> Registered(c, k)
    BY SameRows
  <2>3. Unanswered(c)' = Unanswered(c)
    BY <1>2
  <2>4. WritesDone(c)'
    BY <2>1, <2>2, <2>3 DEF Known, WritesDone
  <2>5. \A r \in Registering(c)' :
          r.key = page[c].item \/ \E q \in Registering(c) : q.key = r.key
    BY DEF Registering, Alike, AsksRegistration
  <2>6. ASSUME page'[c].view = "EventDetailView"
        PROVE  OverrideHolds(page[c], c)' /\ LoadHolds(page[c], c)'
    <3>1. CASE Looks(page'[c], page[c]) /\ (PageKept(c) \/ PageServed(c))
      <4>1. OverrideHolds(page[c], c) /\ LoadHolds(page[c], c)
        BY <2>1, <2>6, <3>1 DEF Known, Looks
      <4>2. OverrideHolds(page[c], c)'
        BY <2>2, <2>3, <3>1, <4>1 DEF OverrideHolds, Looks
      <4>3. LoadHolds(page[c], c)'
        BY <2>2, <2>3, <2>5, <3>1, <4>1 DEF LoadHolds, Looks, Tells, PageKept, PageServed
      <4> QED
        BY <4>2, <4>3
    <3>2. CASE PageOpens(c)
      <4>1. LoadHolds(page[c], c)'
        BY <2>6, <3>2 DEF LoadHolds, PageOpens
      <4>2. OverrideHolds(page[c], c)'
        BY <2>1, <2>2, <2>3, <3>2 DEF Known, OverrideHolds, PageOpens
      <4> QED
        BY <4>1, <4>2
    <3> QED
      BY <3>1, <3>2 DEF PageKept, PageServed
  <2> QED
    BY <2>4, <2>6 DEF Known
<1> QED
  BY <1>1, <1>2 DEF RegistrationKnown
RegistrationInv == FormInv /\ RegistrationShape /\ RegistrationKnown

LEMMA RegistrationInvInit == Init => RegistrationShape /\ RegistrationKnown
<1> SUFFICES ASSUME Init PROVE RegistrationShape /\ RegistrationKnown
  OBVIOUS
<1>1. requests = {} /\ deletion = {}
  BY DEF Init
<1>2. \A c \in Clients : page[c].view = "Home" /\ page[c].override = NoOverride
  BY DEF Init, Opened
<1> QED
  BY <1>1, <1>2 DEF RegistrationShape, RegistrationKnown, Known, WritesDone, Unanswered, Registering

(* What each change of a page keeps of what it shows.                       *)
LEMMA PageStillShows ==
    ASSUME NEW p \in Page, NEW b \in BOOLEAN, NEW f \in [op : Op \cup {"none"}, form : Nat]
    PROVE  /\ Looks([p EXCEPT !.submitting = b], p)
           /\ [p EXCEPT !.submitting = b].loaded = p.loaded
           /\ Looks([p EXCEPT !.form = f], p) /\ [p EXCEPT !.form = f].loaded = p.loaded
           /\ Looks([p EXCEPT !.submitting = FALSE, !.form = f], p)
           /\ [p EXCEPT !.submitting = FALSE, !.form = f].loaded = p.loaded
BY DEF Page, Looks

(* Only the page of one tab changes.                                        *)
LEMMA OthersKept ==
    ASSUME page \in [Clients -> Page], NEW c \in Clients, NEW p, page' = [page EXCEPT ![c] = p]
    PROVE  page'[c] = p /\ \A d \in Clients : d # c => PageKept(d)
BY DEF PageKept, Looks

LEMMA RequestsAlike ==
    ASSUME requests' \subseteq requests
    PROVE  \A r \in requests' : r.table = "registrations" =>
              (\E q \in requests : Alike(r, q)) \/ AsksRegistration(r)
BY DEF Alike

LEMMA VisitKnows ==
    ASSUME RegistrationInv, NEW c \in Clients, NEW view \in views, NEW item \in Item,
           Visit(c, view, item)
    PROVE  RegistrationShape' /\ RegistrationKnown'
<1> USE DEF RegistrationInv
<1>1. page \in [Clients -> Page] /\ page[c] \in Page
  BY DEF FormInv, Types
<1>2. /\ UNCHANGED <<oneUser, rows, deletion, requests, lost>> /\ left \subseteq left'
      /\ view = "EventDetailView" => item \in Keys
  BY DEF Visit, ServerUnchanged, setting, Leaves
<1>3. PICK p : /\ page' = [page EXCEPT ![c] = p]
               /\ \/ /\ view = "EventDetailView" /\ page[c].view = view
                     /\ p = [page[c] EXCEPT !.item = item, !.loaded = "asked"]
                  \/ p = Opened(view, item, forms + 1)
  BY <1>1 DEF Visit
<1>4. PageOpens(c)
  <2>1. page'[c] = p
    BY <1>1, <1>3, OthersKept
  <2>2. CASE p = Opened(view, item, forms + 1)
    <3>1. p.view = view /\ p.item = item /\ p.loaded = "asked" /\ p.override = NoOverride
      BY <2>2 DEF Opened
    <3> QED
      BY <1>2, <2>1, <3>1 DEF PageOpens
  <2>3. CASE /\ view = "EventDetailView" /\ page[c].view = view
             /\ p = [page[c] EXCEPT !.item = item, !.loaded = "asked"]
    <3>1. /\ p.view = view /\ p.item = item /\ p.loaded = "asked"
          /\ p.override = page[c].override
      BY <1>1, <2>3 DEF Page
    <3> QED
      BY <1>2, <2>1, <2>3, <3>1 DEF PageOpens
  <2> QED
    BY <1>3, <2>2, <2>3
<1>5. \A d \in Clients : PageKept(d) \/ PageServed(d) \/ PageOpens(d)
  BY <1>1, <1>3, <1>4, OthersKept
<1>6. \A d \in Clients : Unanswered(d)' = Unanswered(d)
  BY <1>2 DEF Unanswered, Registering
<1>7. \A d \in deletion' : \A s \in d.comments : s.table = "comments"
  BY <1>2 DEF RegistrationShape
<1> QED
  BY <1>2, <1>5, <1>6, <1>7, RequestsAlike, QuietSteps

LEMMA DialogKnows ==
    ASSUME RegistrationInv, NEW c \in Clients,
           CloseDialog(c) \/ \E op \in Op : OpenDialog(c, op)
    PROVE  RegistrationShape' /\ RegistrationKnown'
<1> USE DEF RegistrationInv
<1>1. page \in [Clients -> Page] /\ page[c] \in Page /\ forms + 1 \in Nat
  BY DEF FormInv, Types
<1>2. UNCHANGED <<oneUser, rows, deletion, requests, lost>> /\ left \subseteq left'
  BY DEF CloseDialog, OpenDialog, ServerUnchanged, setting, Leaves
<1>3. PICK f \in [op : Op \cup {"none"}, form : Nat] :
        page' = [page EXCEPT ![c] = [page[c] EXCEPT !.form = f]]
  BY <1>1, FormFacts, SMTT(30) DEF CloseDialog, OpenDialog
<1>4. PageKept(c)
  BY <1>1, <1>3, OthersKept, PageStillShows, ZenonT(60) DEF PageKept
<1>5. \A d \in Clients : PageKept(d) \/ PageServed(d) \/ PageOpens(d)
  BY <1>1, <1>3, <1>4, OthersKept
<1>6. \A d \in Clients : Unanswered(d)' = Unanswered(d)
  BY <1>2 DEF Unanswered, Registering
<1>7. \A d \in deletion' : \A s \in d.comments : s.table = "comments"
  BY <1>2 DEF RegistrationShape
<1> QED
  BY <1>2, <1>5, <1>6, <1>7, RequestsAlike, QuietSteps

(* A form of a dialog is of another table; a button of an event sends a     *)
(* registration of the event that is shown.                                 *)
LEMMA SendKnows ==
    ASSUME RegistrationInv, NEW c \in Clients,
           Toggle(c) \/ \E k, old \in Item : Submit(c, k, old)
    PROVE  RegistrationShape' /\ RegistrationKnown'
<1> USE DEF RegistrationInv
<1>1. page \in [Clients -> Page] /\ page[c] \in Page
  BY DEF FormInv, Types
<1>2. /\ UNCHANGED <<oneUser, rows, deletion, lost, left>>
      /\ page' = [page EXCEPT ![c] = [page[c] EXCEPT !.submitting = TRUE]]
  BY <1>1 DEF Toggle, Submit, ServerUnchanged, setting
<1>3. PICK w : /\ requests' = requests \cup {w} /\ w.stage = "sent" /\ w.by = c
               /\ w.table = "registrations" => AsksRegistration(w)
  <2>1. CASE Toggle(c)
    <3> DEFINE op == IF isRegistered(page[c]) THEN "remove" ELSE "create"
    <3>1. op \in {"create", "remove"}
      OBVIOUS
    <3>2. page[c].view = "EventDetailView" /\ page[c].item \in Keys
      BY <2>1 DEF Toggle, RegistrationShape
    <3>3. requests' = requests \cup {Write(c, op, page[c].item, page[c].item, 0)}
      BY <2>1 DEF Toggle
    <3> HIDE DEF op
    <3> DEFINE w == Write(c, op, page[c].item, page[c].item, 0)
    <3>4. /\ w.stage = "sent" /\ w.by = c /\ w.form = 0 /\ w.op = op
          /\ w.key = page[c].item /\ w.old = page[c].item
      BY DEF Write
    <3> HIDE DEF w
    <3>5. AsksRegistration(w)
      BY <3>1, <3>2, <3>4 DEF AsksRegistration
    <3> QED
      BY <3>3, <3>4, <3>5 DEF w
  <2>2. ASSUME NEW k \in Item, NEW old \in Item, Submit(c, k, old)
        PROVE  \E w : /\ requests' = requests \cup {w} /\ w.stage = "sent" /\ w.by = c
                      /\ w.table = "registrations" => AsksRegistration(w)
    <3> DEFINE w == Write(c, page[c].form.op, k, old, page[c].form.form)
    <3>1. requests' = requests \cup {w} /\ page[c].form # NoForm
      BY <2>2 DEF Submit
    <3>2. w.stage = "sent" /\ w.by = c /\ w.table = Screen[page[c].view].table
      BY DEF Write
    <3>3. page[c].view # "EventDetailView" /\ page[c].view \in DOMAIN Screen
      BY <1>1, <3>1 DEF FormInv, PagesNumbered, Page
    <3> HIDE DEF w
    <3>4. w.table # "registrations"
      BY <3>2, <3>3, RegistrationsOfOneView
    <3> QED
      BY <3>1, <3>2, <3>4
  <2> QED
    BY <2>1, <2>2
<1>4. PageKept(c)
  <2>1. NoForm \in [op : Op \cup {"none"}, form : Nat]
    BY FormFacts
  <2> QED
    BY <1>1, <1>2, <2>1, OthersKept, PageStillShows DEF PageKept
<1>5. \A d \in Clients : PageKept(d) \/ PageServed(d) \/ PageOpens(d)
  BY <1>1, <1>2, <1>4, OthersKept
<1>6. \A d \in Clients : Unanswered(d)' = Unanswered(d)
  BY <1>2, <1>3 DEF Unanswered, Registering
<1>7. \A d \in deletion' : \A s \in d.comments : s.table = "comments"
  BY <1>2 DEF RegistrationShape
<1>8. \A r \in requests' : r.table = "registrations" =>
         (\E q \in requests : Alike(r, q)) \/ AsksRegistration(r)
  BY <1>3 DEF Alike
<1> QED
  BY <1>2, <1>5, <1>6, <1>7, <1>8, QuietSteps

LEMMA LoadKnows ==
    ASSUME RegistrationInv, NEW c \in Clients, ServeLoad(c) \/ LoadArrives(c)
    PROVE  RegistrationShape' /\ RegistrationKnown'
<1> USE DEF RegistrationInv
<1>1. page \in [Clients -> Page] /\ page[c] \in Page
  BY DEF FormInv, Types
<1>2. UNCHANGED <<oneUser, rows, deletion, requests, lost, left>>
  BY DEF ServeLoad, LoadArrives, ServerUnchanged, setting
<1>3. Matching("registrations", page[c].item, c) # {} <=> Registered(c, page[c].item)
  BY DEF Matching, Registered
<1>4. PICK l \in {"isYes", "isNo", "yes", "no"} :
        /\ page' = [page EXCEPT ![c] = [page[c] EXCEPT !.loaded = l]]
        /\ \/ l \in {"isYes", "yes"} <=> Registered(c, page[c].item)
           \/ page[c].loaded # "asked" /\ (l \in {"isYes", "yes"} <=> Tells(page[c]))
  <2>1. CASE ServeLoad(c)
    BY <1>3, <2>1 DEF ServeLoad
  <2>2. CASE LoadArrives(c)
    BY <1>1, <2>2 DEF LoadArrives, Tells
  <2> QED
    BY <2>1, <2>2
<1>5. PageKept(c) \/ PageServed(c)
  <2> DEFINE p == [page[c] EXCEPT !.loaded = l]
  <2>1. Looks(p, page[c]) /\ p.loaded = l
    BY <1>1 DEF Page, Looks
  <2>2. page'[c] = p
    BY <1>1, <1>4, OthersKept
  <2> HIDE DEF p
  <2> QED
    BY <1>4, <2>1, <2>2 DEF PageKept, PageServed, Tells
<1>6. \A d \in Clients : PageKept(d) \/ PageServed(d) \/ PageOpens(d)
  BY <1>1, <1>4, <1>5, OthersKept
<1>7. \A d \in Clients : Unanswered(d)' = Unanswered(d)
  BY <1>2 DEF Unanswered, Registering
<1>8. \A d \in deletion' : \A s \in d.comments : s.table = "comments"
  BY <1>2 DEF RegistrationShape
<1> QED
  BY <1>2, <1>6, <1>7, <1>8, RequestsAlike, QuietSteps
LEMMA StagedAlike ==
    ASSUME FormInv, NEW r \in requests, NEW stage
    PROVE  /\ Alike([r EXCEPT !.stage = stage], r)
           /\ [r EXCEPT !.stage = stage].stage = stage
BY DEF FormInv, Types, Sent, Alike

LEMMA CheckKnows ==
    ASSUME RegistrationInv, NEW r \in requests, Check(r)
    PROVE  RegistrationShape' /\ RegistrationKnown'
<1> USE DEF RegistrationInv
<1> DEFINE w == [r EXCEPT !.stage = "checked"]
<1>1. /\ UNCHANGED <<oneUser, rows, deletion, page, lost, left>>
      /\ requests' = (requests \ {r}) \cup {w} /\ r.stage = "sent"
  BY DEF Check, Stage, ServerUnchanged, setting
<1>2. Alike(w, r) /\ w.stage = "checked"
  BY StagedAlike
<1> HIDE DEF w
<1>3. \A d \in Clients : PageKept(d)
  BY <1>1 DEF PageKept, Looks
<1>4. \A d \in Clients : Unanswered(d)' = Unanswered(d)
  BY <1>1, <1>2 DEF Unanswered, Registering
<1>5. \A d \in deletion' : \A s \in d.comments : s.table = "comments"
  BY <1>1 DEF RegistrationShape
<1>6. \A q \in requests' : q.table = "registrations" =>
         (\E p \in requests : Alike(q, p)) \/ AsksRegistration(q)
  BY <1>1, <1>2 DEF Alike
<1> QED
  BY <1>1, <1>3, <1>4, <1>5, <1>6, QuietSteps

(* The writes of other tables.                                              *)
LEMMA OtherCommitKnows ==
    ASSUME RegistrationInv, NEW r \in requests, Commit(r), r.table # "registrations"
    PROVE  RegistrationShape' /\ RegistrationKnown'
<1> USE DEF RegistrationInv
<1> DEFINE w == [r EXCEPT !.stage = "done"]
           row == [table |-> r.table, key |-> r.key, by |-> User(r.by), form |-> r.form, n |-> r.n]
<1>1. /\ UNCHANGED <<oneUser, deletion, page, lost, left>>
      /\ requests' \subseteq (requests \ {r}) \cup {w}
      /\ requests \ {r} \subseteq requests'
  BY DEF Commit, Stage, Forget, setting
<1>2. /\ rows' \subseteq rows \cup {row}
      /\ \A s \in rows : s \in rows' \/ s \in Matching(r.table, r.old, r.by)
  BY DEF Commit
<1>3. Alike(w, r) /\ row.table = r.table
  BY StagedAlike
<1> HIDE DEF w, row
<1>4. \A s : s.table = "registrations" => (s \in rows' <=> s \in rows)
  BY <1>2, <1>3 DEF Matching
<1>5. \A d \in Clients : PageKept(d)
  BY <1>1 DEF PageKept, Looks
<1>6. \A d \in Clients : Unanswered(d)' = Unanswered(d)
  BY <1>1, <1>3 DEF Unanswered, Registering, Alike
<1>7. \A d \in deletion' : \A s \in d.comments : s.table = "comments"
  BY <1>1 DEF RegistrationShape
<1>8. \A q \in requests' : q.table = "registrations" =>
         (\E p \in requests : Alike(q, p)) \/ AsksRegistration(q)
  BY <1>1, <1>3 DEF Alike
<1> QED
  BY <1>1, <1>4, <1>5, <1>6, <1>7, <1>8, QuietSteps

(* What a registration, or its cancellation, changes for each tab: of its   *)
(* own key, that it is there or not; of other keys and tabs, nothing.       *)
LEMMA RegistrationWritten ==
    ASSUME RegistrationInv, NEW r \in requests, Commit(r), r.table = "registrations",
           NEW c \in Clients, Steady(c), NEW k
    PROVE  /\ c = r.by /\ k = r.key => (Registered(c, k)' <=> r.op = "create")
           /\ ~(c = r.by /\ k = r.key) => (Registered(c, k)' <=> Registered(c, k))
<1> USE DEF RegistrationInv
<1> DEFINE row == [table |-> r.table, key |-> r.key, by |-> User(r.by), form |-> r.form, n |-> r.n]
           mine == Matching("registrations", r.key, r.by)
<1>1. r.op \in {"create", "remove"} /\ r.old = r.key /\ r.by \in Clients
  BY DEF RegistrationShape, FormInv, Types, Sent
<1>2. \/ r.op = "create" /\ rows' = rows \cup {row}
      \/ r.op = "remove" /\ rows' = rows \ mine
  BY <1>1 DEF Commit
<1>3. row.table = "registrations" /\ row.key = r.key /\ row.by = User(r.by)
  OBVIOUS
<1>4. \A s : s \in mine <=> /\ s \in rows /\ s.table = "registrations" /\ s.key = r.key
                            /\ s.by = User(r.by)
  BY DEF Matching
<1> HIDE DEF row, mine
<1>5. User(c) = User(r.by) <=> c = r.by
  BY <1>1 DEF User, Steady
<1>6. User(c)' = User(c)
  BY DEF Commit, setting, User
<1> QED
  BY <1>2, <1>3, <1>4, <1>5, <1>6 DEF Registered

LEMMA CommitKnows ==
    ASSUME RegistrationInv, NEW r \in requests, Commit(r), r.table = "registrations"
    PROVE  RegistrationShape' /\ RegistrationKnown'
<1> USE DEF RegistrationInv
<1> DEFINE w == [r EXCEPT !.stage = "done"]
<1>1. /\ UNCHANGED <<oneUser, deletion, page, lost, left>> /\ r.stage = "checked"
      /\ \/ r.lost /\ requests' = requests \ {r}
         \/ requests' = (requests \ {r}) \cup {w}
      /\ ~r.lost => requests' = (requests \ {r}) \cup {w}
  BY DEF Commit, Stage, Forget, setting
<1>2. Alike(w, r) /\ w.stage = "done"
  BY StagedAlike
<1> HIDE DEF w
<1>3. RegistrationShape'
  BY <1>1, <1>2 DEF RegistrationShape, Alike
<1>4. ASSUME NEW c \in Clients, Steady(c)'
      PROVE  Known(c)'
  <2>1. Steady(c) /\ Known(c)
    BY <1>1, <1>4 DEF Steady, RegistrationKnown
  <2>2. CASE r.by # c
    <3>1. \A k : Registered(c, k)' <=> Registered(c, k)
      BY <2>1, <2>2, RegistrationWritten
    <3>2. Registering(c)' = Registering(c) /\ Unanswered(c)' = Unanswered(c)
      BY <1>1, <1>2, <2>2 DEF Registering, Unanswered, Alike
    <3>3. page'[c] = page[c]
      BY <1>1
    <3>4. WritesDone(c)'
      BY <2>1, <3>1, <3>2 DEF Known, WritesDone
    <3>5. OverrideHolds(page[c], c) => OverrideHolds(page[c], c)'
      BY <3>1, <3>2, <3>3 DEF OverrideHolds
    <3>6. LoadHolds(page[c], c) => LoadHolds(page[c], c)'
      BY <3>1, <3>2, <3>3 DEF LoadHolds
    <3> QED
      BY <2>1, <3>3, <3>4, <3>5, <3>6 DEF Known
  <2>3. CASE r.by = c
    <3>1. r \in Registering(c)
      BY <2>3 DEF Registering
    <3>2. /\ ~r.lost /\ Registering(c) = {r} /\ Unanswered(c) = {}
          /\ page[c].view = "EventDetailView"
      BY <1>1, <2>1, <3>1, OwnWrite DEF Unanswered
    <3>3. Registering(c)' = {w} /\ Unanswered(c)' = {w} /\ w.key = r.key /\ w.op = r.op
      BY <1>1, <1>2, <2>3, <3>1, <3>2 DEF Registering, Unanswered, Alike
    <3>4. /\ Registered(c, r.key)' <=> r.op = "create"
          /\ \A k : k # r.key => (Registered(c, k)' <=> Registered(c, k))
      BY <2>1, <2>3, RegistrationWritten
    <3>5. WritesDone(c)'
      BY <3>3, <3>4 DEF WritesDone
    <3>6. OverrideHolds(page[c], c) /\ LoadHolds(page[c], c) /\ page'[c] = page[c]
      BY <1>1, <2>1, <3>2 DEF Known
    <3>7. OverrideHolds(page[c], c)'
      BY <3>2, <3>3, <3>4, <3>6 DEF OverrideHolds
    <3>8. LoadHolds(page[c], c)'
      BY <3>2, <3>3, <3>4, <3>6 DEF LoadHolds
    <3> QED
      BY <3>5, <3>7, <3>8 DEF Known
  <2> QED
    BY <2>2, <2>3
<1> QED
  BY <1>3, <1>4 DEF RegistrationKnown
LEMMA DeletionKnows ==
    ASSUME RegistrationInv,
           (\E w \in works : deleteWork(w)) \/ (\E d \in deletion : WorkDeleted(d))
    PROVE  RegistrationShape' /\ RegistrationKnown'
<1> USE DEF RegistrationInv
<1>1. UNCHANGED <<oneUser, page, requests, lost, left>>
  BY DEF deleteWork, WorkDeleted, setting
<1>2. \A d \in deletion : \A s \in d.comments : s.table = "comments"
  BY DEF RegistrationShape
<1>3. \A d \in deletion' : \A s \in d.comments : s.table = "comments"
  BY <1>2 DEF deleteWork, WorkDeleted, CommentsOf
<1>4. \A s : s.table = "registrations" => (s \in rows' <=> s \in rows)
  <2>1. ASSUME NEW d \in deletion, WorkDeleted(d)
        PROVE  rows' = rows \/ rows' = rows \ d.comments
    BY <2>1 DEF WorkDeleted
  <2>2. ASSUME NEW w \in works, deleteWork(w) PROVE rows' = rows
    BY <2>2 DEF deleteWork
  <2> QED
    BY <1>2, <2>1, <2>2
<1>5. \A c \in Clients : PageKept(c)
  BY <1>1 DEF PageKept, Looks
<1>6. \A c \in Clients : Unanswered(c)' = Unanswered(c)
  BY <1>1 DEF Unanswered, Registering
<1> QED
  BY <1>1, <1>3, <1>4, <1>5, <1>6, RequestsAlike, QuietSteps

LEMMA FailureKnows ==
    ASSUME RegistrationInv, NEW r \in requests, Refuse(r) \/ Lose(r)
    PROVE  RegistrationShape' /\ RegistrationKnown'
<1> USE DEF RegistrationInv
<1> DEFINE w == [r EXCEPT !.lost = TRUE]
           p == [page[r.by] EXCEPT !.submitting = FALSE]
<1>1. /\ UNCHANGED <<oneUser, rows, deletion, left>> /\ lost \subseteq lost'
      /\ ~r.lost
  BY DEF Refuse, Lose, ServerUnchanged, setting
<1>2. \/ /\ r.stage # "done" /\ requests' = requests \ {r}
      \/ /\ <<r.by, r.form>> \in lost'
         /\ requests' = requests \ {r} \/ requests' = (requests \ {r}) \cup {w}
  BY DEF Refuse, Lose, Forget
<1>3. Alike(w, r)
  BY DEF FormInv, Types, Sent, Alike
<1>4. page' = page \/ page' = [page EXCEPT ![r.by] = p]
  BY <1>1, AnswerFacts DEF Refuse, Lose, Fails, FormInv, Types
<1>5. r.by \in Clients /\ page[r.by] \in Page /\ page \in [Clients -> Page]
  BY <1>1, AnswerFacts DEF FormInv, Types
<1>6. Looks(p, page[r.by]) /\ p.loaded = page[r.by].loaded
  BY <1>5, FormFacts, PageStillShows
<1> HIDE DEF w, p
<1>7. \A c \in Clients : PageKept(c)
  <2>1. CASE page' = page
    BY <2>1 DEF PageKept, Looks
  <2>2. CASE page' = [page EXCEPT ![r.by] = p]
    <3>1. page'[r.by] = p /\ \A d \in Clients : d # r.by => PageKept(d)
      BY <1>5, <2>2, OthersKept
    <3>2. PageKept(r.by)
      BY <1>6, <3>1 DEF PageKept
    <3> QED
      BY <3>1, <3>2
  <2> QED
    BY <1>4, <2>1, <2>2
<1>8. ASSUME NEW c \in Clients, Steady(c)'
      PROVE  Unanswered(c)' = Unanswered(c)
  <2>1. CASE r \in Registering(c)
    <3>1. r.by = c /\ r.form = 0
      BY <2>1 DEF Registering, RegistrationShape
    <3>2. r.stage # "done" /\ requests' = requests \ {r}
      BY <1>2, <1>8, <3>1 DEF Steady
    <3> QED
      BY <3>2 DEF Unanswered, Registering
  <2>2. CASE r \notin Registering(c)
    BY <1>2, <1>3, <2>2 DEF Unanswered, Registering, Alike
  <2> QED
    BY <2>1, <2>2
<1>9. \A d \in deletion' : \A s \in d.comments : s.table = "comments"
  BY <1>1 DEF RegistrationShape
<1>10. \A q \in requests' : q.table = "registrations" =>
         (\E t \in requests : Alike(q, t)) \/ AsksRegistration(q)
  BY <1>2, <1>3 DEF Alike
<1> QED
  BY <1>1, <1>7, <1>8, <1>9, <1>10, QuietSteps

(* The success of another form: its page goes Home, or shows the same.      *)
LEMMA OtherSuccessKnows ==
    ASSUME RegistrationInv, NEW r \in requests, Succeed(r), r.table # "registrations"
    PROVE  RegistrationShape' /\ RegistrationKnown'
<1> USE DEF RegistrationInv
<1>1. /\ UNCHANGED <<oneUser, rows, deletion, lost>> /\ left \subseteq left'
      /\ requests' = requests \ {r} /\ ~r.lost
  BY DEF Succeed, Forget, Leaves, ServerUnchanged, setting
<1>2. r.by \in Clients /\ page[r.by] \in Page /\ page \in [Clients -> Page] /\ forms + 1 \in Nat
  BY <1>1, AnswerFacts DEF FormInv, Types
<1>3. /\ NoForm \in [op : Op \cup {"none"}, form : Nat]
      /\ Form("create", forms + 1) \in [op : Op \cup {"none"}, form : Nat]
      /\ page[r.by].form \in [op : Op \cup {"none"}, form : Nat]
  BY <1>2, FormFacts DEF Op, Page
<1>4. PICK p : /\ page' = [page EXCEPT ![r.by] = p]
               /\ \/ p = Opened("Home", "none", 0)
                  \/ p = page[r.by]
                  \/ \E f \in [op : Op \cup {"none"}, form : Nat] :
                        p = [page[r.by] EXCEPT !.submitting = FALSE, !.form = f]
  BY <1>3 DEF Succeed
<1>5. PageKept(r.by) \/ PageOpens(r.by)
  <2>1. page'[r.by] = p
    BY <1>2, <1>4, OthersKept
  <2>2. CASE p = Opened("Home", "none", 0)
    BY <2>1, <2>2 DEF Opened, PageOpens
  <2>3. CASE p = page[r.by]
    BY <2>1, <2>3 DEF PageKept, Looks
  <2>4. ASSUME NEW f \in [op : Op \cup {"none"}, form : Nat],
               p = [page[r.by] EXCEPT !.submitting = FALSE, !.form = f]
        PROVE  PageKept(r.by)
    <3>1. Looks(p, page[r.by]) /\ p.loaded = page[r.by].loaded
      BY <1>2, <2>4, PageStillShows
    <3> QED
      BY <2>1, <3>1 DEF PageKept
  <2> QED
    BY <1>4, <2>2, <2>3, <2>4
<1>6. \A d \in Clients : PageKept(d) \/ PageServed(d) \/ PageOpens(d)
  BY <1>2, <1>4, <1>5, OthersKept
<1>7. \A d \in Clients : Unanswered(d)' = Unanswered(d)
  BY <1>1 DEF Unanswered, Registering
<1>8. \A d \in deletion' : \A s \in d.comments : s.table = "comments"
  BY <1>1 DEF RegistrationShape
<1> QED
  BY <1>1, <1>6, <1>7, <1>8, RequestsAlike, QuietSteps

(* The success of a registration: the page remembers what it wrote.         *)
LEMMA SuccessKnows ==
    ASSUME RegistrationInv, NEW r \in requests, Succeed(r), r.table = "registrations"
    PROVE  RegistrationShape' /\ RegistrationKnown'
<1> USE DEF RegistrationInv
<1> DEFINE o == [item |-> r.key, value |-> r.op = "create"]
           p == [page[r.by] EXCEPT !.submitting = FALSE, !.override = o]
<1>1. /\ UNCHANGED <<oneUser, rows, deletion, lost>> /\ left \subseteq left'
      /\ requests' = requests \ {r} /\ ~r.lost /\ r.stage = "done"
  BY DEF Succeed, Forget, Leaves, ServerUnchanged, setting
<1>2. r.by \in Clients /\ page[r.by] \in Page /\ page \in [Clients -> Page]
  BY <1>1, AnswerFacts DEF FormInv, Types
<1>3. r.view = "EventDetailView"
  BY <1>1, AnswerFacts, RegistrationsOfOneView
<1>4. ~Screen[r.view].navigates
  BY <1>3, ScreenFacts
<1>5. /\ Mounted(r) => page' = [page EXCEPT ![r.by] = p]
      /\ ~Mounted(r) => page' = page
  BY <1>2, <1>4 DEF Succeed
<1>6. /\ p.view = page[r.by].view /\ p.item = page[r.by].item /\ p.loaded = page[r.by].loaded
      /\ p.override = o
  BY <1>2 DEF Page
<1>7. o.item = r.key /\ (o.value <=> r.op = "create")
  OBVIOUS
<1> HIDE DEF p, o
<1>8. page'[r.by] = page[r.by] \/ page'[r.by] = p
  BY <1>2, <1>5
<1>9. \A d \in Clients : d # r.by => page'[d] = page[d]
  BY <1>2, <1>5
<1>10. RegistrationShape'
  BY <1>1, <1>2, <1>6, <1>7, <1>8, <1>9 DEF RegistrationShape
<1>11. \A c, k : Registered(c, k)' <=> Registered(c, k)
  BY <1>1, SameRows
<1>12. ASSUME NEW c \in Clients, Steady(c)'
       PROVE  Known(c)'
  <2>1. Steady(c) /\ Known(c)
    BY <1>1, <1>12, SteadyBefore DEF RegistrationKnown
  <2>2. CASE r.by # c
    <3>1. page'[c] = page[c]
      BY <1>9, <2>2
    <3>2. Registering(c)' = Registering(c) /\ Unanswered(c)' = Unanswered(c)
      BY <1>1, <2>2 DEF Registering, Unanswered
    <3> QED
      BY <1>11, <2>1, <3>1, <3>2 DEF Known, WritesDone, OverrideHolds, LoadHolds
  <2>3. CASE r.by = c
    <3>1. r \in Registering(c)
      BY <2>3 DEF Registering
    <3>2. /\ Mounted(r) /\ Registering(c) = {r} /\ Unanswered(c) = {r}
          /\ page[c].view = "EventDetailView"
      BY <1>1, <2>1, <3>1, OwnWrite DEF Unanswered
    <3>3. page'[c] = p
      BY <1>2, <1>5, <2>3, <3>2
    <3>4. Registering(c)' = {} /\ Unanswered(c)' = {}
      BY <1>1, <3>2 DEF Registering, Unanswered
    <3>5. Registered(c, r.key) <=> r.op = "create"
      BY <2>1, <3>2 DEF Known, WritesDone
    <3>6. OverrideHolds(page[c], c)'
      BY <1>6, <1>7, <1>11, <3>3, <3>5 DEF OverrideHolds
    <3>7. LoadHolds(page[c], c)
      BY <2>1, <3>2 DEF Known
    <3>8. LoadHolds(page[c], c)'
      BY <1>6, <1>7, <1>11, <2>3, <3>2, <3>3, <3>4, <3>7 DEF LoadHolds
    <3> QED
      BY <3>4, <3>6, <3>8 DEF Known, WritesDone
  <2> QED
    BY <2>2, <2>3
<1> QED
  BY <1>10, <1>12 DEF RegistrationKnown

LEMMA RegistrationInvNext == RegistrationInv /\ [Next]_vars => RegistrationInv'
<1> SUFFICES ASSUME RegistrationInv, [Next]_vars
             PROVE  RegistrationShape' /\ RegistrationKnown'
  BY FormInvNext DEF RegistrationInv
<1>1. ASSUME NEW c \in Clients, NEW view \in views, NEW item \in Item, Visit(c, view, item)
      PROVE  RegistrationShape' /\ RegistrationKnown'
  BY <1>1, VisitKnows
<1>2. ASSUME NEW c \in Clients, CloseDialog(c) \/ \E op \in Op : OpenDialog(c, op)
      PROVE  RegistrationShape' /\ RegistrationKnown'
  BY <1>2, DialogKnows
<1>3. ASSUME NEW c \in Clients, Toggle(c) \/ \E k, old \in Item : Submit(c, k, old)
      PROVE  RegistrationShape' /\ RegistrationKnown'
  BY <1>3, SendKnows
<1>4. ASSUME NEW c \in Clients, ServeLoad(c) \/ LoadArrives(c)
      PROVE  RegistrationShape' /\ RegistrationKnown'
  BY <1>4, LoadKnows
<1>5. ASSUME NEW r \in requests, Check(r) \/ Commit(r) \/ Succeed(r) \/ Refuse(r) \/ Lose(r)
      PROVE  RegistrationShape' /\ RegistrationKnown'
  BY <1>5, CheckKnows, CommitKnows, OtherCommitKnows, SuccessKnows, OtherSuccessKnows, FailureKnows
<1>6. CASE (\E w \in works : deleteWork(w)) \/ (\E d \in deletion : WorkDeleted(d))
  BY <1>6, DeletionKnows
<1>7. CASE UNCHANGED vars
  <2>1. UNCHANGED <<oneUser, rows, deletion, page, requests, lost, left>>
    BY <1>7 DEF vars, setting
  <2>2. \A c \in Clients : PageKept(c)
    BY <2>1 DEF PageKept, Looks
  <2>3. \A c \in Clients : Unanswered(c)' = Unanswered(c)
    BY <2>1 DEF Unanswered, Registering
  <2>4. \A d \in deletion' : \A s \in d.comments : s.table = "comments"
    BY <2>1 DEF RegistrationInv, RegistrationShape
  <2> QED
    BY <2>1, <2>2, <2>3, <2>4, RequestsAlike, QuietSteps DEF RegistrationInv
<1> QED
  BY <1>1, <1>2, <1>3, <1>4, <1>5, <1>6, <1>7 DEF Next, Item, Op

LEMMA SpecRegistrationInv == Spec => []RegistrationInv
<1>1. Init => RegistrationInv
  BY FormInvInit, RegistrationInvInit DEF RegistrationInv
<1> QED
  BY <1>1, RegistrationInvNext, PTL DEF Spec

(* The page of an event shows whether its user is registered: what useEvent *)
(* loaded, or the override that handleRegister and handleCancel left for    *)
(* that event, is what the server has, in any order of loads, writes and    *)
(* visits to other events, unless the network failed or a page was left     *)
(* while it wrote.                                                          *)
THEOREM EventPageShowsRegistration == Spec => []ShownRegistration
<1>1. RegistrationInv => ShownRegistration
  <2> SUFFICES ASSUME RegistrationInv, NEW c \in Clients,
                      page[c].view = "EventDetailView", page[c].loaded \in {"yes", "no"},
                      ~page[c].submitting, Steady(c)
               PROVE  isRegistered(page[c]) <=> Registered(c, page[c].item)
    BY DEF ShownRegistration, Steady, Matching, Registered
  <2>1. Registering(c) = {}
    BY OwnWrite DEF RegistrationInv
  <2>2. OverrideHolds(page[c], c) /\ LoadHolds(page[c], c)
    BY DEF RegistrationInv, RegistrationKnown, Known
  <2>3. page[c].item \in Keys
    BY DEF RegistrationInv, RegistrationShape
  <2>4. NoOverride.item \notin Keys
    BY DEF NoOverride
  <2>5. CASE page[c].override.item = page[c].item
    BY <2>1, <2>2, <2>3, <2>4, <2>5 DEF OverrideHolds, Unanswered, isRegistered
  <2>6. CASE page[c].override.item # page[c].item
    BY <2>1, <2>2, <2>6 DEF LoadHolds, Unanswered, isRegistered
  <2> QED
    BY <2>5, <2>6
<1> QED
  BY <1>1, SpecRegistrationInv, PTL
=============================================================================
