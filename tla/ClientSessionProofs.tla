------------------------- MODULE ClientSessionProofs -------------------------
(***************************************************************************)
(* What a session keeps for every number of tabs, users, logins and moves. *)
(***************************************************************************)
EXTENDS ClientSession, TLAPS

USE SessionAssumption, RoutesAssumption

Via == {"none", "rest", "grpc", "graphql", "audit", "notifications", "report"}
AttemptKind == {"login", "me"}
ReadKind == {"page", "profile"}             \* aborted with their page
MountKind == ReadKind \cup {"exploration"}  \* what a page asks when it opens
Kind == AttemptKind \cup MountKind \cup {"write", "poll"}
Sent == [tab : Tabs, kind : Kind, via : Via, token : Token \cup {NoToken},
         user : Users \cup {Nobody}, open : BOOLEAN, here : BOOLEAN]
Shown == [path : Paths, page : BOOLEAN, bell : BOOLEAN]

Types ==
    /\ store \in [Tabs -> Session] /\ storage \in Session
    /\ screen \in [Tabs -> Shown]
    /\ calls \subseteq Sent
    /\ \A c \in calls : c.kind = "login" => c.user \in Users
    /\ leaving \subseteq Tabs /\ expired \subseteq Token
    /\ issued \in 0..MaxLogins /\ moves \in 0..MaxMoves
    /\ strayed \subseteq Tabs /\ quit \subseteq Tabs
    /\ robber \in [Tabs -> Kind \cup {"nothing"}]

(* In a tab where no login outlived its page: the one login that is on its  *)
(* way is of the login page, which reads nothing, and what the open page    *)
(* reads was asked with the token of the session, if there still is one.    *)
AttemptsAreHere(t) ==
    /\ \A c \in Attempts(t) : c.here /\ screen[t].path = "login"
    /\ \A c, d \in Attempts(t) : c = d
ReadsAreOfPage(t) ==
    \A c \in calls : c.tab = t /\ c.kind \in ReadKind => screen[t].path # "login"
ReadsHaveToken(t) ==
    \A c \in calls : c.tab = t /\ c.kind \in ReadKind \cup {"me"} =>
        store[t].token \in {NoToken, c.token}
TabInv(t) == AttemptsAreHere(t) /\ ReadsAreOfPage(t) /\ ReadsHaveToken(t)

LoginIsOpen == \A t \in Tabs : screen[t].path = "login" => screen[t].page = TRUE
SessionInv == Types /\ LoginIsOpen /\ \A t \in Tabs : t \notin strayed => TabInv(t)

(* The user of a session, in memory or stored.                              *)
OwnUser(s) == s.token # NoToken => s.user \in {Nobody, s.token.owner}
OwnUsers == strayed = {} => OwnUser(storage) /\ \A t \in Tabs : OwnUser(store[t])

(* A tab that closed its session has nothing that could open one.           *)
QuitInv ==
    \A t \in quit : store[t].token = NoToken /\ storage.token = NoToken /\ Attempts(t) = {}
-----------------------------------------------------------------------------
LEMMA TokenFacts == /\ NoToken \in Token \cup {NoToken} /\ NoSession \in Session
                    /\ NoSession.token = NoToken /\ NoSession.user = Nobody
                    /\ NoToken.owner = Nobody
                    /\ \A k \in Token : k.owner \in Users
BY DEF NoSession, Session, NoToken, Token

LEMMA RouteFacts ==
    /\ Routes["login"].reads = "none" /\ ~Routes["login"].policy.requiresAuth
    /\ \A p \in DOMAIN Routes : Routes[p].reads \in Via
<1>1. /\ Routes["login"].reads = "none" /\ Routes["login"].policy.requiresAuth = FALSE
  BY DEF Routes, Route, PUBLIC
<1>2. DOMAIN Routes = {"login", "inicio", "eventos", "obras", "misFiltros", "explorar",
                       "comparar", "perfil", "recorrido", "reporte", "auditoria"}
  BY DEF Routes
<1>3. /\ Routes["login"].reads = "none" /\ Routes["inicio"].reads = "grpc"
      /\ Routes["eventos"].reads = "rest" /\ Routes["obras"].reads = "none"
      /\ Routes["misFiltros"].reads = "rest" /\ Routes["explorar"].reads = "grpc"
      /\ Routes["comparar"].reads = "grpc" /\ Routes["perfil"].reads = "rest"
      /\ Routes["recorrido"].reads = "none" /\ Routes["reporte"].reads = "graphql"
      /\ Routes["auditoria"].reads = "audit"
  BY DEF Routes, Route
<1> QED
  BY <1>1, <1>2, <1>3 DEF Via

LEMMA LayoutFacts ==
    ASSUME NEW p \in Paths, NEW s
    PROVE  Layout(p, s) \in Shown /\ (Layout(p, s).path = "login" => Layout(p, s).page = TRUE)
<1>1. canAccess(Routes[p].policy, s) \in BOOLEAN
  BY Zenon DEF canAccess
<1>2. isTokenValid(s.token) \in BOOLEAN
  BY Zenon DEF isTokenValid
<1>3. p = "login" => canAccess(Routes[p].policy, s) = TRUE
  BY RouteFacts DEF canAccess
<1>4. PICK b \in BOOLEAN : b = canAccess(Routes[p].policy, s)
  BY <1>1, Zenon
<1>5. RequireRole(p, s) \in {[path |-> "login", page |-> TRUE], [path |-> p, page |-> b]}
  BY <1>4 DEF RequireRole
<1>6. p = "login" => b = TRUE
  BY <1>3, <1>4
<1>7. Layout(p, s).path = RequireRole(p, s).path /\ Layout(p, s).page = RequireRole(p, s).page
  BY DEF Layout
<1>8. Layout(p, s) = [path |-> RequireRole(p, s).path, page |-> RequireRole(p, s).page,
                      bell |-> isTokenValid(s.token)]
  BY Zenon DEF Layout
<1>9. /\ RequireRole(p, s).path \in Paths /\ RequireRole(p, s).page \in BOOLEAN
      /\ RequireRole(p, s).path = "login" => RequireRole(p, s).page = TRUE
  <2>1. "login" \in Paths
    OBVIOUS
  <2>2. CASE RequireRole(p, s) = [path |-> "login", page |-> TRUE]
    BY <2>1, <2>2
  <2>3. CASE RequireRole(p, s) = [path |-> p, page |-> b]
    BY <1>6, <2>3
  <2> QED
    BY <1>5, <2>2, <2>3
<1>10. [path |-> RequireRole(p, s).path, page |-> RequireRole(p, s).page,
        bell |-> isTokenValid(s.token)] \in Shown
  BY <1>2, <1>9, Zenon DEF Shown
<1> QED
  BY <1>7, <1>8, <1>9, <1>10

LEMMA RequestFacts ==
    ASSUME NEW t \in Tabs, NEW k \in Kind, NEW via \in Via, NEW token \in Token \cup {NoToken}
    PROVE  LET c == Request(t, k, via, token) IN
           /\ c \in Sent
           /\ c.tab = t /\ c.kind = k /\ c.token = token /\ c.user = Nobody
           /\ k \in AttemptKind => c.here
<1> DEFINE c(h) == [tab |-> t, kind |-> k, via |-> via, token |-> token, user |-> Nobody,
                    open |-> FALSE, here |-> h]
<1>1. Request(t, k, via, token) = c(k \in {"login", "me"})
  BY DEF Request
<1>3. PICK h \in BOOLEAN : h = (k \in {"login", "me"})
  <2>1. CASE k \in {"login", "me"}
    BY <2>1, (k \in {"login", "me"}) = TRUE
  <2>2. CASE k \notin {"login", "me"}
    BY <2>2, (k \in {"login", "me"}) = FALSE
  <2> QED
    BY <2>1, <2>2
<1>4. Request(t, k, via, token) = c(h)
  BY <1>1, <1>3, Zenon
<1>5. k \in AttemptKind => h
  BY <1>3 DEF AttemptKind
<1>6. c(h) \in Sent
  BY DEF Sent
<1>7. /\ c(h).tab = t /\ c(h).kind = k /\ c(h).token = token /\ c(h).user = Nobody
      /\ c(h).here = h
  OBVIOUS
<1> HIDE DEF c
<1> QED
  BY <1>4, <1>5, <1>6, <1>7

LEMMA CallFacts ==
    ASSUME NEW c \in Sent, NEW b \in BOOLEAN
    PROVE  /\ [c EXCEPT !.open = b] \in Sent
           /\ [c EXCEPT !.open = b].tab = c.tab /\ [c EXCEPT !.open = b].kind = c.kind
           /\ [c EXCEPT !.open = b].token = c.token /\ [c EXCEPT !.open = b].user = c.user
           /\ [c EXCEPT !.here = b] \in Sent
           /\ [c EXCEPT !.here = b].tab = c.tab /\ [c EXCEPT !.here = b].kind = c.kind
           /\ [c EXCEPT !.here = b].token = c.token /\ [c EXCEPT !.here = b].user = c.user
           /\ [c EXCEPT !.here = b].here = b
BY DEF Sent

LEMMA MountFacts ==
    ASSUME NEW t \in Tabs, NEW p \in Paths, NEW s \in Session
    PROVE  /\ Mount(t, p, s) \subseteq Sent
           /\ \A c \in Mount(t, p, s) : c.tab = t /\ c.kind \in MountKind /\ c.token = s.token
           /\ p = "login" => Mount(t, p, s) = {}
<1>1. /\ s.token \in Token \cup {NoToken} /\ {"page", "profile", "exploration"} \subseteq Kind
      /\ {"rest", "grpc"} \subseteq Via
  BY DEF Session, Kind, MountKind, ReadKind, Via
<1>2. Routes[p].reads \in Via
  BY RouteFacts
<1> DEFINE q == Request(t, "page", Routes[p].reads, s.token)
           r == Request(t, "profile", "rest", s.token)
           x == Request(t, "exploration", "grpc", s.token)
           open == ~Routes[p].policy.requiresAuth
<1>3. q \in Sent /\ q.tab = t /\ q.kind = "page" /\ q.token = s.token
  BY <1>1, <1>2, RequestFacts
<1>4. r \in Sent /\ r.tab = t /\ r.kind = "profile" /\ r.token = s.token
  BY <1>1, RequestFacts
<1>12. x \in Sent /\ x.tab = t /\ x.kind = "exploration" /\ x.token = s.token
  BY <1>1, RequestFacts
<1>5. open \in BOOLEAN
  BY Zenon
<1>6. PICK b \in BOOLEAN : b = open
  BY <1>5, Zenon
<1>7. \/ Mount(t, p, s) = {} \/ Mount(t, p, s) = {r} \/ Mount(t, p, s) = {x}
      \/ Mount(t, p, s) = {[q EXCEPT !.open = open]}
  BY DEF Mount
<1>8. [q EXCEPT !.open = open] = [q EXCEPT !.open = b]
  BY <1>6, Zenon
<1>9. p = "login" => Mount(t, p, s) = {}
  BY RouteFacts DEF Mount
<1> DEFINE w == [q EXCEPT !.open = b]
<1>11. Mount(t, p, s) = {} \/ Mount(t, p, s) = {r} \/ Mount(t, p, s) = {x} \/ Mount(t, p, s) = {w}
  BY <1>7, <1>8, Zenon
<1> HIDE DEF q, r, x
<1>10. w \in Sent /\ w.tab = t /\ w.kind = "page" /\ w.token = s.token
  BY <1>3 DEF Sent
<1> HIDE DEF w
<1> QED
  BY <1>4, <1>9, <1>10, <1>11, <1>12 DEF MountKind, ReadKind

LEMMA UnmountFacts ==
    ASSUME NEW t \in Tabs, NEW cs, cs \subseteq Sent
    PROVE  /\ Unmount(t, cs) \subseteq Sent
           /\ \A c \in Unmount(t, cs) : \E d \in cs :
                /\ c.tab = d.tab /\ c.kind = d.kind /\ c.token = d.token /\ c.user = d.user
                /\ c.tab = t => c.kind \notin ReadKind
                /\ c.tab # t => c = d
<1> SUFFICES ASSUME NEW c \in Unmount(t, cs)
             PROVE  /\ c \in Sent
                    /\ \E d \in cs :
                         /\ c.tab = d.tab /\ c.kind = d.kind /\ c.token = d.token
                         /\ c.user = d.user
                         /\ c.tab = t => c.kind \notin ReadKind
                         /\ c.tab # t => c = d
  OBVIOUS
<1>1. PICK d \in cs : /\ d.tab = t => d.kind \notin {"page", "profile"}
                      /\ c = IF d.tab = t THEN [d EXCEPT !.here = FALSE] ELSE d
  BY DEF Unmount
<1>2. d \in Sent
  OBVIOUS
<1>3. LET e == [d EXCEPT !.here = FALSE] IN
      e \in Sent /\ e.tab = d.tab /\ e.kind = d.kind /\ e.token = d.token /\ e.user = d.user
  BY <1>2, CallFacts
<1> QED
  BY <1>1, <1>2, <1>3 DEF ReadKind
-----------------------------------------------------------------------------
(* What a rendering does to the requests, whoever asked for it.             *)
Rendered(t, p, s, cs) ==
    /\ screen' \in [Tabs -> Shown] /\ calls' \subseteq Sent
    /\ \A c \in calls' : c.kind = "login" => c.user \in Users
    /\ strayed \subseteq strayed' /\ strayed' \subseteq strayed \cup {t}
    /\ \A u \in Tabs : u # t => screen'[u] = screen[u]
    /\ screen'[t].path = "login" => screen'[t].page = TRUE
    /\ \A c \in calls' : c.tab # t => c \in cs
    /\ \A c \in calls' : c.tab = t /\ c.kind \in AttemptKind =>
         \E d \in cs : d.tab = t /\ d.kind \in AttemptKind
    /\ \/ /\ screen'[t].path = screen[t].path /\ calls' \subseteq cs
       \/ /\ (\E c \in cs : c.tab = t /\ c.here) => t \in strayed'
          /\ \A c \in calls' : c.tab = t =>
               \/ c.kind = "exploration"
               \/ /\ c.kind \notin ReadKind
                  /\ \E d \in cs : d.tab = t /\ c.kind = d.kind
               \/ /\ c.kind \in ReadKind /\ c.token = s.token
                  /\ screen'[t].path # "login"
    /\ p = screen[t].path /\ p = "login" /\ screen[t].page = TRUE =>
         strayed' = strayed /\ calls' \subseteq cs /\ screen'[t].path = "login"

LEMMA RenderFacts ==
    ASSUME Types, NEW t \in Tabs, NEW p \in Paths, NEW s \in Session, NEW cs, cs \subseteq Sent,
           \A c \in cs : c.kind = "login" => c.user \in Users,
           Render(t, p, s, cs)
    PROVE  Rendered(t, p, s, cs)
<1> DEFINE new == Layout(p, s)
           stays == new.path = screen[t].path /\ new.page = screen[t].page
           rest == IF new.bell THEN cs ELSE cs \ {c \in cs : c.tab = t /\ c.kind = "poll"}
<1>1. new \in Shown /\ (new.path = "login" => new.page = TRUE)
  BY LayoutFacts
<1>2. screen' = [screen EXCEPT ![t] = new]
  BY DEF Render
<1>3. /\ screen' \in [Tabs -> Shown] /\ screen'[t] = new
      /\ \A u \in Tabs : u # t => screen'[u] = screen[u]
  BY <1>1, <1>2 DEF Types
<1>4. rest \subseteq cs
  OBVIOUS
<1>5. stays => calls' = rest /\ strayed' = strayed
  BY DEF Render
<1>6. ~stays => /\ calls' = Unmount(t, rest) \cup (IF new.page THEN Mount(t, new.path, s) ELSE {})
                /\ strayed' = IF \E c \in cs : c.tab = t /\ c.here
                              THEN strayed \cup {t} ELSE strayed
  BY DEF Render
<1>7. p = "login" => new.path = "login"
  BY RouteFacts DEF Layout, RequireRole
<1> HIDE DEF new, rest
<1>8. new.path \in Paths
  BY <1>1 DEF Shown
<1>9. CASE stays
  BY <1>1, <1>3, <1>4, <1>5, <1>7, <1>9 DEF Rendered
<1>10. CASE ~stays
  <2>1. \A c \in calls' : \/ c \in Unmount(t, rest)
                          \/ c \in Mount(t, new.path, s) /\ new.path # "login"
    BY <1>6, <1>8, <1>10, MountFacts
  <2>2. \A c \in Unmount(t, rest) :
          /\ c \in Sent
          /\ \E d \in cs :
                /\ c.tab = d.tab /\ c.kind = d.kind /\ c.token = d.token /\ c.user = d.user
                /\ c.tab = t => c.kind \notin ReadKind
                /\ c.tab # t => c = d
    BY <1>4, UnmountFacts
  <2>3. \A c \in Mount(t, new.path, s) :
          c \in Sent /\ c.tab = t /\ c.kind \in MountKind /\ c.token = s.token
    BY <1>8, MountFacts
  <2>4. \A k \in MountKind : k \notin AttemptKind /\ (k = "exploration" \/ k \in ReadKind)
    BY DEF MountKind, ReadKind, AttemptKind
  <2>5. calls' \subseteq Sent /\ \A c \in calls' : c.tab # t => c \in cs
    BY <2>1, <2>2, <2>3
  <2>6. \A c \in calls' : c.kind = "login" => c.user \in Users
    BY <2>1, <2>2, <2>3, <2>4 DEF AttemptKind
  <2>7. \A c \in calls' : c.tab = t /\ c.kind \in AttemptKind =>
            \E d \in cs : d.tab = t /\ d.kind \in AttemptKind
    BY <2>1, <2>2, <2>3, <2>4
  <2>8. \A c \in calls' : c.tab = t =>
          \/ c.kind = "exploration"
          \/ c.kind \notin ReadKind /\ \E d \in cs : d.tab = t /\ c.kind = d.kind
          \/ c.kind \in ReadKind /\ c.token = s.token /\ screen'[t].path # "login"
    BY <1>3, <2>1, <2>2, <2>3, <2>4
  <2>9. ~(p = screen[t].path /\ p = "login" /\ screen[t].page = TRUE)
    BY <1>1, <1>7, <1>10
  <2> QED
    BY <1>1, <1>3, <1>6, <1>10, <2>5, <2>6, <2>7, <2>8, <2>9 DEF Rendered
<1> QED
  BY <1>9, <1>10

(* A rendering keeps what a tab knows of its requests.                      *)
LEMMA RenderKeeps ==
    ASSUME SessionInv, NEW t \in Tabs, NEW p \in Paths, NEW s \in Session, NEW cs, cs \subseteq Sent,
           \A c \in cs : c.kind = "login" => c.user \in Users,
           Render(t, p, s, cs),
           store'[t].token = s.token, \A u \in Tabs : u # t => store'[u] = store[u],
           \A c \in cs : c.tab # t => c \in calls,
           t \notin strayed =>
              /\ \A c \in cs : c.tab = t /\ c.kind \in AttemptKind =>
                    c.here /\ screen[t].path = "login"
              /\ \A c, d \in cs : /\ c.tab = t /\ c.kind \in AttemptKind
                                 /\ d.tab = t /\ d.kind \in AttemptKind => c = d
              /\ \A c \in cs : c.tab = t /\ c.kind \in ReadKind => screen[t].path # "login"
              /\ \A c \in cs : c.tab = t /\ c.kind \in ReadKind \cup {"me"} =>
                    s.token \in {NoToken, c.token}
    PROVE  LoginIsOpen' /\ \A u \in Tabs : u \notin strayed' => TabInv(u)'
<1>1. Types
  BY DEF SessionInv
<1>2. Rendered(t, p, s, cs)
  BY <1>1, RenderFacts
<1>3. LoginIsOpen'
  BY <1>2 DEF SessionInv, LoginIsOpen, Rendered
<1>4. ASSUME NEW u \in Tabs, u # t, u \notin strayed' PROVE TabInv(u)'
  <2>1. TabInv(u)
    BY <1>2, <1>4 DEF SessionInv, Rendered
  <2>2. \A c \in calls' : c.tab = u => c \in calls
    BY <1>2, <1>4 DEF Rendered
  <2> QED
    BY <1>2, <1>4, <2>1, <2>2
       DEF Rendered, TabInv, AttemptsAreHere, ReadsAreOfPage, ReadsHaveToken, Attempts
<1>5. ASSUME t \notin strayed' PROVE TabInv(t)'
  <2>1. t \notin strayed
    BY <1>2, <1>5 DEF Rendered
  <2>2. CASE screen'[t].path = screen[t].path /\ calls' \subseteq cs
    BY <2>1, <2>2 DEF TabInv, AttemptsAreHere, ReadsAreOfPage, ReadsHaveToken, Attempts,
       AttemptKind
  <2>3. CASE /\ (\E c \in cs : c.tab = t /\ c.here) => t \in strayed'
             /\ \A c \in calls' : c.tab = t =>
                  \/ c.kind = "exploration"
                  \/ /\ c.kind \notin ReadKind
                     /\ \E d \in cs : d.tab = t /\ c.kind = d.kind
                  \/ /\ c.kind \in ReadKind /\ c.token = s.token
                     /\ screen'[t].path # "login"
    <3>1. \A d \in cs : d.tab = t => d.kind \notin AttemptKind
      BY <1>5, <2>1, <2>3
    <3>2. \A c \in calls' : c.tab = t => c.kind \notin AttemptKind
      BY <1>2, <3>1 DEF Rendered
    <3> QED
      BY <2>3, <3>2 DEF TabInv, AttemptsAreHere, ReadsAreOfPage, ReadsHaveToken, Attempts,
         AttemptKind, ReadKind
  <2> QED
    BY <1>2, <2>2, <2>3 DEF Rendered
<1> QED
  BY <1>3, <1>4, <1>5

(* A step that changes neither pages nor sessions, and sends, in tab t, at  *)
(* most one request more.                                                   *)
LEMMA CallsKeep ==
    ASSUME SessionInv, screen' = screen, store' = store, strayed' = strayed,
           \A c \in calls' : c \in calls \/ c.kind \in {"write", "poll"}
    PROVE  LoginIsOpen' /\ \A u \in Tabs : u \notin strayed' => TabInv(u)'
<1>1. LoginIsOpen'
  BY DEF SessionInv, LoginIsOpen
<1>2. ASSUME NEW u \in Tabs, u \notin strayed PROVE TabInv(u)'
  <2>1. TabInv(u)
    BY <1>2 DEF SessionInv
  <2> QED
    BY <2>1 DEF TabInv, AttemptsAreHere, ReadsAreOfPage, ReadsHaveToken, Attempts, ReadKind
<1> QED
  BY <1>1, <1>2

LEMMA SetFacts ==
    ASSUME Types, NEW t \in Tabs, NEW s \in Session, Set(t, s)
    PROVE  /\ store' \in [Tabs -> Session] /\ storage' \in Session /\ quit' \subseteq Tabs
           /\ store'[t] = s /\ storage' = s
           /\ \A u \in Tabs : u # t => store'[u] = store[u]
BY DEF Types, Set

(* An answer, or the end of a session, that is rendered in its tab.         *)
LEMMA AnswerKeeps ==
    ASSUME SessionInv, NEW c \in calls, NEW p \in Paths, NEW s \in Session,
           Set(c.tab, s), Render(c.tab, p, s, calls \ {c}),
           s.token \in {NoToken, store[c.tab].token}
    PROVE  /\ LoginIsOpen' /\ \A u \in Tabs : u \notin strayed' => TabInv(u)'
           /\ store' \in [Tabs -> Session] /\ storage' \in Session /\ quit' \subseteq Tabs
           /\ screen' \in [Tabs -> Shown] /\ calls' \subseteq Sent
           /\ \A d \in calls' : d.kind = "login" => d.user \in Users
           /\ strayed' \subseteq Tabs
<1> DEFINE t == c.tab
           cs == calls \ {c}
<1>1. Types /\ t \in Tabs /\ cs \subseteq Sent
  BY DEF SessionInv, Types, Sent
<1>2. \A d \in cs : d.kind = "login" => d.user \in Users
  BY <1>1 DEF Types
<1>3. /\ store' \in [Tabs -> Session] /\ storage' \in Session /\ quit' \subseteq Tabs
      /\ store'[t] = s /\ \A u \in Tabs : u # t => store'[u] = store[u]
  BY <1>1, SetFacts
<1>4. t \notin strayed =>
        /\ \A d \in cs : d.tab = t /\ d.kind \in AttemptKind =>
              d.here /\ screen[t].path = "login"
        /\ \A d, e \in cs : /\ d.tab = t /\ d.kind \in AttemptKind
                           /\ e.tab = t /\ e.kind \in AttemptKind => d = e
        /\ \A d \in cs : d.tab = t /\ d.kind \in ReadKind => screen[t].path # "login"
        /\ \A d \in cs : d.tab = t /\ d.kind \in ReadKind \cup {"me"} =>
              s.token \in {NoToken, d.token}
  <2> SUFFICES ASSUME t \notin strayed
               PROVE  /\ \A d \in cs : d.tab = t /\ d.kind \in AttemptKind =>
                            d.here /\ screen[t].path = "login"
                      /\ \A d, e \in cs : /\ d.tab = t /\ d.kind \in AttemptKind
                                         /\ e.tab = t /\ e.kind \in AttemptKind => d = e
                      /\ \A d \in cs : d.tab = t /\ d.kind \in ReadKind => screen[t].path # "login"
                      /\ \A d \in cs : d.tab = t /\ d.kind \in ReadKind \cup {"me"} =>
                            s.token \in {NoToken, d.token}
    OBVIOUS
  <2>1. TabInv(t)
    BY <1>1 DEF SessionInv
  <2> QED
    BY <2>1 DEF TabInv, AttemptsAreHere, ReadsAreOfPage, ReadsHaveToken, Attempts, AttemptKind
<1>5. \A d \in cs : d.tab # t => d \in calls
  OBVIOUS
<1>6. Render(t, p, s, cs)
  OBVIOUS
<1> HIDE DEF t, cs
<1>7. /\ screen' \in [Tabs -> Shown] /\ calls' \subseteq Sent
      /\ \A d \in calls' : d.kind = "login" => d.user \in Users
      /\ strayed' \subseteq strayed \cup {t}
  <2>1. Rendered(t, p, s, cs)
    BY <1>1, <1>2, <1>6, RenderFacts
  <2> QED
    BY <2>1 DEF Rendered
<1>8. LoginIsOpen' /\ \A u \in Tabs : u \notin strayed' => TabInv(u)'
  BY <1>1, <1>2, <1>3, <1>4, <1>5, <1>6, RenderKeeps
<1>9. strayed' \subseteq Tabs
  BY <1>1, <1>7 DEF Types
<1> QED
  BY <1>3, <1>7, <1>8, <1>9
-----------------------------------------------------------------------------
LEMMA NavigateKeeps ==
    ASSUME SessionInv, NEW t \in Tabs, NEW p \in Paths, Navigate(t, p) PROVE SessionInv'
<1>1. Types
  BY DEF SessionInv
<1>2. /\ UNCHANGED <<store, storage, leaving, expired, issued, quit, robber>>
      /\ moves' \in 0..MaxMoves /\ Render(t, p, store[t], calls)
  BY <1>1 DEF Navigate, Move, Types
<1>3. /\ store[t] \in Session /\ calls \subseteq Sent
      /\ \A c \in calls : c.kind = "login" => c.user \in Users
  BY <1>1 DEF Types
<1>4. PICK s \in Session : s = store[t]
  BY <1>3
<1>5. Render(t, p, s, calls) /\ store'[t].token = s.token
  BY <1>2, <1>4
<1>6. t \notin strayed => TabInv(t)
  BY DEF SessionInv
<1>7. LoginIsOpen' /\ \A u \in Tabs : u \notin strayed' => TabInv(u)'
  <2>1. t \notin strayed =>
          /\ \A c \in calls : c.tab = t /\ c.kind \in AttemptKind =>
                c.here /\ screen[t].path = "login"
          /\ \A c, d \in calls : /\ c.tab = t /\ c.kind \in AttemptKind
                                /\ d.tab = t /\ d.kind \in AttemptKind => c = d
          /\ \A c \in calls : c.tab = t /\ c.kind \in ReadKind => screen[t].path # "login"
          /\ \A c \in calls : c.tab = t /\ c.kind \in ReadKind \cup {"me"} =>
                s.token \in {NoToken, c.token}
    BY <1>4, <1>6
       DEF TabInv, AttemptsAreHere, ReadsAreOfPage, ReadsHaveToken, Attempts, AttemptKind
  <2> QED
    BY <1>2, <1>3, <1>5, <2>1, RenderKeeps
<1>8. Rendered(t, p, s, calls)
  BY <1>1, <1>3, <1>5, RenderFacts
<1>9. Types'
  BY <1>1, <1>2, <1>8 DEF Types, Rendered
<1> QED
  BY <1>7, <1>9 DEF SessionInv

LEMMA LoadKeeps ==
    ASSUME SessionInv, NEW t \in Tabs, NEW p \in Paths, Load(t, p), moves' \in 0..MaxMoves
    PROVE  SessionInv'
<1>1. Types
  BY DEF SessionInv
<1>2. PICK new : new = Layout(p, storage)
  OBVIOUS
<1>3. /\ new \in Shown /\ new.path \in Paths /\ (new.path = "login" => new.page = TRUE)
      /\ storage \in Session
  BY <1>1, <1>2, LayoutFacts DEF Types, Shown
<1>4. /\ store' = [store EXCEPT ![t] = storage] /\ screen' = [screen EXCEPT ![t] = new]
      /\ calls' = {c \in calls : c.tab # t}
                    \cup (IF new.page THEN Mount(t, new.path, storage) ELSE {})
      /\ leaving' = leaving \ {t}
      /\ UNCHANGED <<storage, expired, issued, strayed, quit, robber>>
  BY <1>2 DEF Load
<1>5. /\ store' \in [Tabs -> Session] /\ store'[t] = storage
      /\ screen' \in [Tabs -> Shown] /\ screen'[t] = new
      /\ \A u \in Tabs : u # t => store'[u] = store[u] /\ screen'[u] = screen[u]
  BY <1>1, <1>3, <1>4 DEF Types
<1>6. \A c \in Mount(t, new.path, storage) :
        /\ c \in Sent /\ c.tab = t /\ c.kind \in MountKind /\ c.token = storage.token
        /\ new.path # "login"
  BY <1>3, MountFacts
<1>7. \A c \in calls' : \/ c \in calls /\ c.tab # t
                        \/ /\ c \in Sent /\ c.tab = t /\ c.kind \in MountKind
                           /\ c.token = storage.token /\ new.path # "login"
  BY <1>4, <1>6
<1>8. \A k \in MountKind : k # "login" /\ k # "me"
  BY DEF MountKind, ReadKind
<1>9. Types'
  BY <1>1, <1>4, <1>5, <1>7, <1>8 DEF Types
<1>10. LoginIsOpen'
  BY <1>3, <1>5 DEF SessionInv, LoginIsOpen
<1>11. ASSUME NEW u \in Tabs, u # t, u \notin strayed' PROVE TabInv(u)'
  <2>1. TabInv(u)
    BY <1>4, <1>11 DEF SessionInv
  <2> QED
    BY <1>5, <1>7, <1>11, <2>1
       DEF TabInv, AttemptsAreHere, ReadsAreOfPage, ReadsHaveToken, Attempts
<1>12. TabInv(t)'
  BY <1>5, <1>7, <1>8
     DEF TabInv, AttemptsAreHere, ReadsAreOfPage, ReadsHaveToken, Attempts
<1> QED
  BY <1>9, <1>10, <1>11, <1>12 DEF SessionInv

LEMMA SubmitKeeps ==
    ASSUME SessionInv, NEW t \in Tabs, NEW u \in Users, handleSubmit(t, u) PROVE SessionInv'
<1>1. Types
  BY DEF SessionInv
<1> DEFINE r == Request(t, "login", "rest", store[t].token)
           w == [r EXCEPT !.user = u, !.open = TRUE]
<1>2. store[t].token \in Token \cup {NoToken} /\ "login" \in Kind /\ "rest" \in Via
  BY <1>1 DEF Types, Session, Kind, AttemptKind, Via
<1>3. r \in Sent /\ r.tab = t /\ r.kind = "login" /\ r.here
  BY <1>2, RequestFacts DEF AttemptKind
<1>4. w \in Sent /\ w.tab = t /\ w.kind = "login" /\ w.user = u /\ w.here
  <2> HIDE DEF r
  <2>1. /\ w \in Sent /\ w.tab = r.tab /\ w.kind = r.kind /\ w.user = u
        /\ w.here = r.here
    BY <1>3 DEF Sent
  <2> HIDE DEF w
  <2> QED
    BY <1>3, <2>1
<1>5. /\ UNCHANGED <<store, storage, screen, leaving, expired, issued, strayed, robber>>
      /\ moves' \in 0..MaxMoves /\ quit' = quit \ {t}
      /\ screen[t].path = "login" /\ ~submitting(t)
      /\ calls' = calls \cup {w}
  BY <1>1 DEF handleSubmit, Move, Types
<1> HIDE DEF r, w
<1>6. Types'
  BY <1>1, <1>4, <1>5 DEF Types
<1>7. LoginIsOpen'
  BY <1>5 DEF SessionInv, LoginIsOpen
<1>8. ASSUME NEW v \in Tabs, v \notin strayed' PROVE TabInv(v)'
  <2>1. TabInv(v)
    BY <1>5, <1>8 DEF SessionInv
  <2>2. v = t => Attempts(v) = {}
    BY <1>5, <2>1 DEF TabInv, AttemptsAreHere, submitting
  <2>3. \A c \in calls' : c \in calls \/ c = w
    BY <1>5
  <2>4. AttemptsAreHere(v)'
    <3>1. CASE v = t
      <4>1. Attempts(v)' \subseteq {w}
        BY <2>2, <2>3, <3>1 DEF Attempts
      <4> QED
        BY <1>4, <1>5, <3>1, <4>1 DEF AttemptsAreHere
    <3>2. CASE v # t
      <4>1. Attempts(v)' \subseteq Attempts(v)
        BY <1>4, <2>3, <3>2 DEF Attempts
      <4> QED
        BY <1>5, <2>1, <4>1 DEF TabInv, AttemptsAreHere
    <3> QED
      BY <3>1, <3>2
  <2>5. ReadsAreOfPage(v)'
    BY <1>4, <1>5, <2>1, <2>3 DEF TabInv, ReadsAreOfPage, ReadKind
  <2>6. ReadsHaveToken(v)'
    BY <1>4, <1>5, <2>1, <2>3 DEF TabInv, ReadsHaveToken, ReadKind
  <2> QED
    BY <2>4, <2>5, <2>6 DEF TabInv
<1> QED
  BY <1>6, <1>7, <1>8 DEF SessionInv

LEMMA LogoutKeeps ==
    ASSUME SessionInv, NEW t \in Tabs, handleLogout(t) PROVE SessionInv'
<1>1. Types
  BY DEF SessionInv
<1>2. /\ UNCHANGED <<leaving, expired, issued, robber>>
      /\ moves' \in 0..MaxMoves /\ quit' \subseteq quit \cup {t} /\ storage' = NoSession
      /\ store' = [store EXCEPT ![t] = NoSession]
      /\ Render(t, "login", NoSession, calls)
  BY <1>1 DEF handleLogout, Move, Types
<1>3. /\ NoSession \in Session /\ NoSession.token = NoToken /\ calls \subseteq Sent
      /\ \A c \in calls : c.kind = "login" => c.user \in Users
      /\ "login" \in Paths
  BY <1>1, TokenFacts DEF Types
<1>4. /\ store' \in [Tabs -> Session] /\ store'[t] = NoSession
      /\ \A u \in Tabs : u # t => store'[u] = store[u]
  BY <1>1, <1>2, <1>3 DEF Types
<1>5. t \notin strayed => TabInv(t)
  BY DEF SessionInv
<1>6. LoginIsOpen' /\ \A u \in Tabs : u \notin strayed' => TabInv(u)'
  <2>1. t \notin strayed =>
          /\ \A c \in calls : c.tab = t /\ c.kind \in AttemptKind =>
                c.here /\ screen[t].path = "login"
          /\ \A c, d \in calls : /\ c.tab = t /\ c.kind \in AttemptKind
                                /\ d.tab = t /\ d.kind \in AttemptKind => c = d
          /\ \A c \in calls : c.tab = t /\ c.kind \in ReadKind => screen[t].path # "login"
          /\ \A c \in calls : c.tab = t /\ c.kind \in ReadKind \cup {"me"} =>
                NoSession.token \in {NoToken, c.token}
    BY <1>3, <1>5
       DEF TabInv, AttemptsAreHere, ReadsAreOfPage, Attempts, AttemptKind
  <2> QED
    BY <1>2, <1>3, <1>4, <2>1, RenderKeeps
<1>7. Rendered(t, "login", NoSession, calls)
  BY <1>1, <1>2, <1>3, RenderFacts
<1>8. Types'
  BY <1>1, <1>2, <1>3, <1>4, <1>7 DEF Types, Rendered
<1> QED
  BY <1>6, <1>8 DEF SessionInv

(* The steps that send or end a request, and the expiry of a token.         *)
LEMMA CallStepKeeps ==
    ASSUME SessionInv, UNCHANGED <<store, storage, screen, leaving, issued, strayed, quit, robber>>,
           expired' \subseteq Token, moves' \in 0..MaxMoves,
           \A c \in calls' : c \in calls \/ (c \in Sent /\ c.kind \in {"write", "poll"})
    PROVE  SessionInv'
<1>1. LoginIsOpen' /\ \A u \in Tabs : u \notin strayed' => TabInv(u)'
  BY CallsKeep
<1>2. Types'
  BY DEF SessionInv, Types
<1> QED
  BY <1>1, <1>2 DEF SessionInv

LEMMA WriteKeeps ==
    ASSUME SessionInv, NEW t \in Tabs, Write(t) PROVE SessionInv'
<1> DEFINE via == IF screen[t].path = "reporte" THEN "report" ELSE "rest"
           w == Request(t, "write", via, store[t].token)
<1>1. /\ store[t].token \in Token \cup {NoToken} /\ "write" \in Kind /\ via \in Via
      /\ expired \subseteq Token
  BY DEF SessionInv, Types, Session, Kind, Via
<1>2. w \in Sent /\ w.kind = "write"
  BY <1>1, RequestFacts
<1>3. /\ UNCHANGED <<store, storage, screen, leaving, expired, issued, strayed, quit, robber>>
      /\ moves' \in 0..MaxMoves /\ calls' = calls \cup {w}
  BY DEF Write, Move, SessionInv, Types
<1> HIDE DEF w
<1> QED
  BY <1>1, <1>2, <1>3, CallStepKeeps

LEMMA PollKeeps ==
    ASSUME SessionInv, NEW t \in Tabs, Poll(t) PROVE SessionInv'
<1> DEFINE w == Request(t, "poll", "notifications", store[t].token)
<1>1. /\ store[t].token \in Token \cup {NoToken} /\ "poll" \in Kind /\ "notifications" \in Via
      /\ expired \subseteq Token /\ moves \in 0..MaxMoves
  BY DEF SessionInv, Types, Session, Kind, Via
<1>2. w \in Sent /\ w.kind = "poll"
  BY <1>1, RequestFacts
<1>3. /\ UNCHANGED <<store, storage, screen, leaving, expired, issued, moves, strayed, quit, robber>>
      /\ calls' = calls \cup {w}
  BY DEF Poll
<1> HIDE DEF w
<1> QED
  BY <1>1, <1>2, <1>3, CallStepKeeps

LEMMA EndKeeps ==
    ASSUME SessionInv, NEW c \in calls, Answered(c) \/ CallFailed(c) PROVE SessionInv'
<1>1. UNCHANGED <<store, storage, screen, leaving, expired, issued, moves, strayed, quit, robber>>
      /\ calls' = calls \ {c}
  BY DEF Answered, CallFailed
<1>2. expired \subseteq Token /\ moves \in 0..MaxMoves
  BY DEF SessionInv, Types
<1> QED
  BY <1>1, <1>2, CallStepKeeps

LEMMA ExpireKeeps ==
    ASSUME SessionInv, NEW t \in Tabs, Expire(store[t].token) PROVE SessionInv'
<1>1. /\ UNCHANGED <<store, storage, screen, leaving, calls, issued, moves, strayed, quit, robber>>
      /\ expired' = expired \cup {store[t].token} /\ store[t].token # NoToken
  BY DEF Expire, isTokenValid
<1>2. store[t].token \in Token /\ expired \subseteq Token /\ moves \in 0..MaxMoves
  BY <1>1 DEF SessionInv, Types, Session
<1> QED
  BY <1>1, <1>2, CallStepKeeps

LEMMA LoginAnsweredKeeps ==
    ASSUME SessionInv, NEW c \in calls, LoginAnswered(c) PROVE SessionInv'
<1>1. /\ Types /\ c \in Sent /\ c.tab \in Tabs /\ c.here \in BOOLEAN
      /\ c.kind = "login" /\ c.user \in Users
      /\ issued' = issued + 1 /\ issued' \in 0..MaxLogins
      /\ UNCHANGED <<leaving, expired, moves, robber>>
  BY DEF LoginAnswered, SessionInv, Types, Sent
<1>2. PICK token : token = [owner |-> c.user, n |-> issued + 1]
  OBVIOUS
<1>3. PICK s : s = [token |-> token, user |-> Nobody]
  OBVIOUS
<1>4. PICK t : t = c.tab
  OBVIOUS
<1>5. token \in Token /\ s \in Session /\ s.token = token
  BY <1>1, <1>2, <1>3 DEF Token, Session
<1> DEFINE r == Request(t, "me", "rest", token)
           me == [r EXCEPT !.here = c.here]
           cs == (calls \ {c}) \cup {me}
<1>6. "me" \in Kind /\ "rest" \in Via /\ t \in Tabs
  BY <1>1, <1>4 DEF Kind, AttemptKind, Via
<1>7. r \in Sent /\ r.tab = t /\ r.kind = "me" /\ r.token = token
  BY <1>5, <1>6, RequestFacts
<1>8. me \in Sent /\ me.tab = t /\ me.kind = "me" /\ me.token = token /\ me.here = c.here
  <2> HIDE DEF r
  <2>1. PICK b \in BOOLEAN : b = c.here
    BY <1>1
  <2> DEFINE w == [r EXCEPT !.here = b]
  <2>2. /\ w \in Sent /\ w.tab = r.tab /\ w.kind = r.kind /\ w.token = r.token /\ w.here = b
    BY <1>7 DEF Sent
  <2>3. me = w
    BY <2>1
  <2> HIDE DEF w, me
  <2> QED
    BY <1>7, <2>1, <2>2, <2>3
<1>9. Set(t, s) /\ Render(t, screen[t].path, s, cs)
  BY <1>2, <1>3, <1>4 DEF LoginAnswered
<1> HIDE DEF r, me
<1>10. PICK p \in Paths : p = screen[t].path
  BY <1>1, <1>6 DEF Types, Shown
<1>11. /\ cs \subseteq Sent /\ \A d \in cs : d.kind = "login" => d.user \in Users
  BY <1>1, <1>8 DEF Types
<1>12. Render(t, p, s, cs)
  BY <1>9, <1>10
<1>13. /\ store' \in [Tabs -> Session] /\ storage' \in Session /\ quit' \subseteq Tabs
       /\ store'[t] = s /\ \A u \in Tabs : u # t => store'[u] = store[u]
  BY <1>1, <1>5, <1>6, <1>9, SetFacts
<1>14. \A d \in cs : d.tab # t => d \in calls
  BY <1>8
<1>15. t \notin strayed =>
         /\ \A d \in cs : d.tab = t /\ d.kind \in AttemptKind =>
               d.here /\ screen[t].path = "login"
         /\ \A d, e \in cs : /\ d.tab = t /\ d.kind \in AttemptKind
                            /\ e.tab = t /\ e.kind \in AttemptKind => d = e
         /\ \A d \in cs : d.tab = t /\ d.kind \in ReadKind => screen[t].path # "login"
         /\ \A d \in cs : d.tab = t /\ d.kind \in ReadKind \cup {"me"} =>
               s.token \in {NoToken, d.token}
  <2> SUFFICES ASSUME t \notin strayed
               PROVE  /\ \A d \in cs : d.tab = t /\ d.kind \in AttemptKind =>
                            d.here /\ screen[t].path = "login"
                      /\ \A d, e \in cs : /\ d.tab = t /\ d.kind \in AttemptKind
                                         /\ e.tab = t /\ e.kind \in AttemptKind => d = e
                      /\ \A d \in cs : d.tab = t /\ d.kind \in ReadKind => screen[t].path # "login"
                      /\ \A d \in cs : d.tab = t /\ d.kind \in ReadKind \cup {"me"} =>
                            s.token \in {NoToken, d.token}
    OBVIOUS
  <2>1. TabInv(t)
    BY <1>6 DEF SessionInv
  <2>2. c \in Attempts(t)
    BY <1>1, <1>4 DEF Attempts
  <2>3. c.here /\ screen[t].path = "login"
    BY <2>1, <2>2 DEF TabInv, AttemptsAreHere
  <2>4. \A d \in calls \ {c} : d.tab = t => d.kind \notin AttemptKind
    BY <2>1, <2>2 DEF TabInv, AttemptsAreHere, Attempts, AttemptKind
  <2>5. \A d \in calls : d.tab = t => d.kind \notin ReadKind
    BY <2>1, <2>3 DEF TabInv, ReadsAreOfPage
  <2>6. \A d \in cs : d.tab = t => d = me \/ (d.kind \notin AttemptKind /\ d.kind \notin ReadKind)
    BY <2>4, <2>5
  <2>7. me.kind \notin ReadKind /\ me.here /\ me.token = s.token
    BY <1>5, <1>8, <2>3 DEF ReadKind
  <2> QED
    BY <2>3, <2>6, <2>7 DEF AttemptKind
<1> HIDE DEF cs
<1>16. LoginIsOpen' /\ \A u \in Tabs : u \notin strayed' => TabInv(u)'
  BY <1>5, <1>6, <1>11, <1>12, <1>13, <1>14, <1>15, RenderKeeps
<1>17. Rendered(t, p, s, cs)
  BY <1>1, <1>5, <1>6, <1>11, <1>12, RenderFacts
<1>18. Types'
  BY <1>1, <1>6, <1>13, <1>17 DEF Types, Rendered
<1> QED
  BY <1>16, <1>18 DEF SessionInv

LEMMA UserAnsweredKeeps ==
    ASSUME SessionInv, NEW c \in calls, MeAnswered(c) \/ ProfileAnswered(c) PROVE SessionInv'
<1>1. /\ Types /\ c.tab \in Tabs /\ c.token \in Token \cup {NoToken}
      /\ UNCHANGED <<leaving, expired, issued, moves, robber>>
  BY DEF MeAnswered, ProfileAnswered, SessionInv, Types, Sent
<1>2. PICK s : s = [store[c.tab] EXCEPT !.user = c.token.owner]
  OBVIOUS
<1>3. c.token.owner \in Users \cup {Nobody} /\ store[c.tab] \in Session
  BY <1>1, TokenFacts DEF Types
<1>4. s \in Session /\ s.token = store[c.tab].token
  BY <1>2, <1>3 DEF Session
<1>5. PICK p \in Paths : Set(c.tab, s) /\ Render(c.tab, p, s, calls \ {c})
  <2>1. CASE MeAnswered(c)
    BY <1>2, <2>1 DEF MeAnswered
  <2>2. CASE ProfileAnswered(c)
    <3>1. screen[c.tab].path \in Paths
      BY <1>1 DEF Types, Shown
    <3>2. Set(c.tab, s) /\ Render(c.tab, screen[c.tab].path, s, calls \ {c})
      BY <1>2, <2>2 DEF ProfileAnswered
    <3> QED
      BY <3>1, <3>2
  <2> QED
    BY <2>1, <2>2
<1>6. s.token \in {NoToken, store[c.tab].token}
  BY <1>4
<1>7. /\ LoginIsOpen' /\ \A u \in Tabs : u \notin strayed' => TabInv(u)'
      /\ store' \in [Tabs -> Session] /\ storage' \in Session /\ quit' \subseteq Tabs
      /\ screen' \in [Tabs -> Shown] /\ calls' \subseteq Sent
      /\ \A d \in calls' : d.kind = "login" => d.user \in Users
      /\ strayed' \subseteq Tabs
  BY <1>4, <1>5, <1>6, AnswerKeeps
<1>8. Types'
  BY <1>1, <1>7 DEF Types
<1> QED
  BY <1>7, <1>8 DEF SessionInv

LEMMA ClosedKeeps ==
    ASSUME SessionInv, NEW c \in calls, handleUnauthorized(c) \/ LoginFailed(c) PROVE SessionInv'
<1>1. /\ Types /\ c.tab \in Tabs /\ c.kind \in Kind
      /\ UNCHANGED <<expired, issued, moves>>
  BY DEF handleUnauthorized, LoginFailed, SessionInv, Types, Sent
<1>2. leaving' \subseteq leaving \cup {c.tab}
  BY DEF handleUnauthorized, LoginFailed
<1>3. robber' = robber \/ robber' = [robber EXCEPT ![c.tab] = c.kind]
  BY DEF handleUnauthorized, LoginFailed
<1>4. NoSession \in Session /\ NoSession.token \in {NoToken, store[c.tab].token}
  BY TokenFacts
<1>5. PICK p \in Paths : Set(c.tab, NoSession) /\ Render(c.tab, p, NoSession, calls \ {c})
  <2>1. screen[c.tab].path \in Paths
    BY <1>1 DEF Types, Shown
  <2> QED
    BY <2>1 DEF handleUnauthorized, LoginFailed
<1>6. /\ LoginIsOpen' /\ \A u \in Tabs : u \notin strayed' => TabInv(u)'
      /\ store' \in [Tabs -> Session] /\ storage' \in Session /\ quit' \subseteq Tabs
      /\ screen' \in [Tabs -> Shown] /\ calls' \subseteq Sent
      /\ \A d \in calls' : d.kind = "login" => d.user \in Users
      /\ strayed' \subseteq Tabs
  BY <1>4, <1>5, AnswerKeeps
<1>7. Types'
  BY <1>1, <1>2, <1>3, <1>6 DEF Types
<1> QED
  BY <1>6, <1>7 DEF SessionInv
-----------------------------------------------------------------------------
LEMMA InitFacts ==
    Init => /\ storage \in Session /\ \A t \in Tabs : store[t] = storage
            /\ OwnUser(storage)
            /\ \A t \in Tabs : screen[t] \in Shown /\ screen[t].path = "inicio"
            /\ \A c \in calls : /\ c \in Sent /\ c.kind \in MountKind /\ c.token = storage.token
<1> SUFFICES ASSUME Init
             PROVE  /\ storage \in Session /\ \A t \in Tabs : store[t] = storage
                    /\ OwnUser(storage)
                    /\ \A t \in Tabs : screen[t] \in Shown /\ screen[t].path = "inicio"
                    /\ \A c \in calls : c \in Sent /\ c.kind \in MountKind /\ c.token = storage.token
  OBVIOUS
<1>1. storage \in Session /\ OwnUser(storage)
  <2>1. CASE storage = NoSession
    BY <2>1, TokenFacts DEF OwnUser
  <2>2. ASSUME NEW u \in Users, storage = [token |-> [owner |-> u, n |-> 0], user |-> u]
        PROVE  storage \in Session /\ OwnUser(storage)
    BY <2>2 DEF Session, Token, OwnUser
  <2> QED
    BY <2>1, <2>2 DEF Init
<1>2. \A t \in Tabs : store[t] = storage /\ screen[t] = Layout("inicio", storage)
  BY DEF Init
<1>3. Layout("inicio", storage) \in Shown /\ Layout("inicio", storage).path = "inicio"
  <2>1. Routes["inicio"].policy.requiresAuth = FALSE
    BY DEF Routes, Route, PUBLIC
  <2>2. Layout("inicio", storage).path = "inicio"
    BY <2>1 DEF Layout, RequireRole
  <2> QED
    BY <2>2, LayoutFacts
<1>4. ASSUME NEW t \in Tabs, NEW c \in Mount(t, "inicio", storage)
      PROVE  c \in Sent /\ c.kind \in MountKind /\ c.token = storage.token
  BY <1>1, MountFacts
<1>5. \A c \in calls : \E t \in Tabs : c \in Mount(t, "inicio", storage)
  BY DEF Init
<1> QED
  BY <1>1, <1>2, <1>3, <1>4, <1>5

LEMMA SessionInvInit == Init => SessionInv
<1> SUFFICES ASSUME Init PROVE SessionInv
  OBVIOUS
<1>1. /\ storage \in Session /\ \A t \in Tabs : store[t] = storage
      /\ \A t \in Tabs : screen[t] \in Shown /\ screen[t].path = "inicio"
      /\ \A c \in calls : /\ c \in Sent /\ c.kind \in MountKind /\ c.token = storage.token
  BY InitFacts
<1>2. \A k \in MountKind : k # "login" /\ k # "me"
  BY DEF MountKind, ReadKind
<1>3. Types
  BY <1>1, <1>2 DEF Types, Init
<1>4. LoginIsOpen
  BY <1>1 DEF LoginIsOpen
<1>5. \A t \in Tabs : TabInv(t)
  BY <1>1, <1>2 DEF TabInv, AttemptsAreHere, ReadsAreOfPage, ReadsHaveToken, Attempts
<1> QED
  BY <1>3, <1>4, <1>5 DEF SessionInv

LEMMA LoadsKeep ==
    ASSUME SessionInv, NEW t \in Tabs, Reload(t) \/ Leave(t) PROVE SessionInv'
<1>1. Types
  BY DEF SessionInv
<1>2. CASE Reload(t)
  <2>1. moves' \in 0..MaxMoves /\ Load(t, screen[t].path)
    BY <1>1, <1>2 DEF Reload, Move, Types
  <2>2. PICK p \in Paths : p = screen[t].path
    BY <1>1 DEF Types, Shown
  <2> QED
    BY <2>1, <2>2, LoadKeeps
<1>3. CASE Leave(t)
  BY <1>1, <1>3, LoadKeeps DEF Leave, Types
<1> QED
  BY <1>2, <1>3

LEMMA SessionInvNext == SessionInv /\ [Next]_vars => SessionInv'
<1> SUFFICES ASSUME SessionInv, [Next]_vars PROVE SessionInv'
  OBVIOUS
<1>1. ASSUME NEW t \in Tabs, NEW p \in Paths, Navigate(t, p) PROVE SessionInv'
  BY <1>1, NavigateKeeps
<1>2. ASSUME NEW t \in Tabs, NEW u \in Users, handleSubmit(t, u) PROVE SessionInv'
  BY <1>2, SubmitKeeps
<1>3. ASSUME NEW t \in Tabs, Reload(t) \/ Leave(t) PROVE SessionInv'
  BY <1>3, LoadsKeep
<1>4. ASSUME NEW t \in Tabs, handleLogout(t) PROVE SessionInv'
  BY <1>4, LogoutKeeps
<1>5. ASSUME NEW t \in Tabs, Write(t) PROVE SessionInv'
  BY <1>5, WriteKeeps
<1>6. ASSUME NEW t \in Tabs, Poll(t) PROVE SessionInv'
  BY <1>6, PollKeeps
<1>7. ASSUME NEW c \in calls, LoginAnswered(c) PROVE SessionInv'
  BY <1>7, LoginAnsweredKeeps
<1>8. ASSUME NEW c \in calls, MeAnswered(c) \/ ProfileAnswered(c) PROVE SessionInv'
  BY <1>8, UserAnsweredKeeps
<1>9. ASSUME NEW c \in calls, handleUnauthorized(c) \/ LoginFailed(c) PROVE SessionInv'
  BY <1>9, ClosedKeeps
<1>10. ASSUME NEW c \in calls, Answered(c) \/ CallFailed(c) PROVE SessionInv'
  BY <1>10, EndKeeps
<1>11. ASSUME NEW t \in Tabs, Expire(store[t].token) PROVE SessionInv'
  BY <1>11, ExpireKeeps
<1>12. CASE UNCHANGED vars
  <2>1. /\ UNCHANGED <<store, storage, screen, leaving, calls, issued, strayed, quit, robber>>
        /\ expired' \subseteq Token /\ moves' \in 0..MaxMoves
    BY <1>12 DEF vars, SessionInv, Types
  <2> QED
    BY <2>1, CallStepKeeps
<1> QED
  BY <1>1, <1>2, <1>3, <1>4, <1>5, <1>6, <1>7, <1>8, <1>9, <1>10, <1>11, <1>12 DEF Next

LEMMA SpecSessionInv == Spec => []SessionInv
BY SessionInvInit, SessionInvNext, PTL DEF Spec

(* Every variable of a session has its type.                                *)
THEOREM SessionTypeCorrect == Spec => []TypeOK
<1>1. SessionInv => TypeOK
  BY DEF SessionInv, Types, TypeOK, Shown, Sent
<1> QED
  BY <1>1, SpecSessionInv, PTL
-----------------------------------------------------------------------------
(* strayed only grows.                                                      *)
LEMMA StrayedGrows ==
    ASSUME SessionInv, [Next]_vars PROVE strayed \subseteq strayed'
<1>2. ASSUME NEW t \in Tabs, NEW p \in Paths, Navigate(t, p) PROVE strayed \subseteq strayed'
  BY <1>2 DEF Navigate, Render
<1>3. ASSUME NEW t \in Tabs, handleLogout(t) PROVE strayed \subseteq strayed'
  BY <1>3 DEF handleLogout, Render
<1>4. ASSUME NEW c \in calls, \/ LoginAnswered(c) \/ MeAnswered(c) \/ ProfileAnswered(c)
                              \/ handleUnauthorized(c) \/ LoginFailed(c)
      PROVE  strayed \subseteq strayed'
  BY <1>4 DEF LoginAnswered, MeAnswered, ProfileAnswered, handleUnauthorized, LoginFailed, Render
<1>5. ASSUME NEW t \in Tabs, NEW u \in Users, handleSubmit(t, u) PROVE strayed' = strayed
  BY <1>5 DEF handleSubmit
<1>6. ASSUME NEW t \in Tabs, Reload(t) \/ Leave(t) \/ Write(t) \/ Poll(t) \/ Expire(store[t].token)
      PROVE  strayed' = strayed
  BY <1>6 DEF Reload, Leave, Load, Write, Poll, Expire
<1>7. ASSUME NEW c \in calls, Answered(c) \/ CallFailed(c) PROVE strayed' = strayed
  BY <1>7 DEF Answered, CallFailed
<1>8. CASE UNCHANGED vars
  BY <1>8 DEF vars
<1> QED
  BY <1>2, <1>3, <1>4, <1>5, <1>6, <1>7, <1>8 DEF Next

(* A 401 to a read that its page aborts, or to /auth/me, ends no session    *)
(* but the one that it was sent with, unless a login outlived its page: the *)
(* pages abort these reads when they close (AbortController in the hooks),  *)
(* and the login page has one login at a time.  The reads of explorar,      *)
(* which nothing aborts, are on their way all the while and may end any     *)
(* session.                                                                 *)
THEOREM AbortedReadsEndTheirSession == Spec => []AbortedReadsEndOnlyTheirSession
<1>1. Init => AbortedReadsEndOnlyTheirSession
  BY DEF Init, AbortedReadsEndOnlyTheirSession
<1>2. SessionInv /\ AbortedReadsEndOnlyTheirSession /\ [Next]_vars => AbortedReadsEndOnlyTheirSession'
  <2> SUFFICES ASSUME SessionInv, AbortedReadsEndOnlyTheirSession, [Next]_vars
               PROVE  AbortedReadsEndOnlyTheirSession'
    OBVIOUS
  <2>1. strayed \subseteq strayed'
    BY StrayedGrows
  <2>2. CASE robber' = robber
    BY <2>1, <2>2 DEF AbortedReadsEndOnlyTheirSession
  <2>3. ASSUME NEW c \in calls, handleUnauthorized(c) PROVE AbortedReadsEndOnlyTheirSession'
    <3>1. c.tab \in Tabs /\ robber \in [Tabs -> Kind \cup {"nothing"}]
      BY DEF SessionInv, Types, Sent
    <3>2. \/ robber' = robber
          \/ /\ robber' = [robber EXCEPT ![c.tab] = c.kind]
             /\ store[c.tab].token \notin {NoToken, c.token}
      BY <2>3 DEF handleUnauthorized
    <3>3. store[c.tab].token \notin {NoToken, c.token} /\ c.kind \in {"page", "profile", "me"}
            => c.tab \in strayed
      BY <3>1 DEF SessionInv, TabInv, ReadsHaveToken, ReadKind
    <3> QED
      BY <2>1, <2>2, <3>1, <3>2, <3>3 DEF AbortedReadsEndOnlyTheirSession
  <2>4. ASSUME NEW t \in Tabs, NEW p \in Paths, Navigate(t, p) PROVE robber' = robber
    BY <2>4 DEF Navigate
  <2>5. ASSUME NEW t \in Tabs, NEW u \in Users, handleSubmit(t, u) PROVE robber' = robber
    BY <2>5 DEF handleSubmit
  <2>6. ASSUME NEW t \in Tabs, \/ Reload(t) \/ Leave(t) \/ handleLogout(t) \/ Write(t) \/ Poll(t)
                               \/ Expire(store[t].token)
        PROVE  robber' = robber
    BY <2>6 DEF Reload, Leave, Load, handleLogout, Write, Poll, Expire
  <2>7. ASSUME NEW c \in calls, \/ LoginAnswered(c) \/ MeAnswered(c) \/ ProfileAnswered(c)
                                \/ LoginFailed(c) \/ Answered(c) \/ CallFailed(c)
        PROVE  robber' = robber
    BY <2>7 DEF LoginAnswered, MeAnswered, ProfileAnswered, LoginFailed, Answered, CallFailed
  <2>8. CASE UNCHANGED vars
    BY <2>2, <2>8 DEF vars
  <2> QED
    BY <2>2, <2>3, <2>4, <2>5, <2>6, <2>7, <2>8 DEF Next
<1> QED
  BY <1>1, <1>2, SpecSessionInv, PTL DEF Spec
-----------------------------------------------------------------------------
(* A session that is set belongs to its user, if the one it replaces did.   *)
LEMMA OwnersKeep ==
    ASSUME SessionInv, OwnUsers, NEW t \in Tabs, NEW s \in Session, Set(t, s),
           strayed \subseteq strayed', strayed = {} => OwnUser(s)
    PROVE  OwnUsers'
<1>1. /\ storage' = s /\ store'[t] = s
      /\ \A u \in Tabs : u # t => store'[u] = store[u]
  BY SetFacts DEF SessionInv
<1> QED
  BY <1>1 DEF OwnUsers, OwnUser

LEMMA OwnersStay ==
    ASSUME OwnUsers, UNCHANGED <<store, storage>>, strayed \subseteq strayed'
    PROVE  OwnUsers'
BY DEF OwnUsers, OwnUser

LEMMA OwnersNext == SessionInv /\ OwnUsers /\ [Next]_vars => OwnUsers'
<1> SUFFICES ASSUME SessionInv, OwnUsers, [Next]_vars PROVE OwnUsers'
  OBVIOUS
<1>1. strayed \subseteq strayed'
  BY StrayedGrows
<1>2. ASSUME NEW c \in calls PROVE c.tab \in Tabs /\ c.token \in Token \cup {NoToken}
  BY DEF SessionInv, Types, Sent
<1>3. ASSUME NEW c \in calls, LoginAnswered(c) PROVE OwnUsers'
  <2>1. PICK s : s = [token |-> [owner |-> c.user, n |-> issued + 1], user |-> Nobody]
    OBVIOUS
  <2>2. Set(c.tab, s)
    BY <1>3, <2>1 DEF LoginAnswered
  <2>3. c.user \in Users /\ issued + 1 \in 0..MaxLogins
    BY <1>3 DEF LoginAnswered, SessionInv, Types
  <2>4. s \in Session /\ s.user = Nobody
    BY <2>1, <2>3 DEF Session, Token
  <2> QED
    BY <1>1, <1>2, <2>2, <2>4, OwnersKeep DEF OwnUser
<1>4. ASSUME NEW c \in calls, MeAnswered(c) \/ ProfileAnswered(c) PROVE OwnUsers'
  <2>1. PICK s : s = [store[c.tab] EXCEPT !.user = c.token.owner]
    OBVIOUS
  <2>2. Set(c.tab, s)
    BY <1>4, <2>1 DEF MeAnswered, ProfileAnswered
  <2>3. c.token.owner \in Users \cup {Nobody} /\ store[c.tab] \in Session
    BY <1>2, TokenFacts DEF SessionInv, Types
  <2>4. s \in Session /\ s.token = store[c.tab].token /\ s.user = c.token.owner
    BY <2>1, <2>3 DEF Session
  <2>5. c.kind \in ReadKind \cup {"me"}
    BY <1>4 DEF MeAnswered, ProfileAnswered, ReadKind
  <2>6. strayed = {} => store[c.tab].token \in {NoToken, c.token}
    BY <1>2, <2>5 DEF SessionInv, TabInv, ReadsHaveToken
  <2> QED
    BY <1>1, <1>2, <2>2, <2>4, <2>6, OwnersKeep DEF OwnUser
<1>5. ASSUME NEW c \in calls, handleUnauthorized(c) \/ LoginFailed(c) PROVE OwnUsers'
  <2>1. Set(c.tab, NoSession)
    BY <1>5 DEF handleUnauthorized, LoginFailed
  <2>2. NoSession \in Session /\ OwnUser(NoSession)
    BY TokenFacts DEF OwnUser
  <2> QED
    BY <1>1, <1>2, <2>1, <2>2, OwnersKeep
<1>6. ASSUME NEW t \in Tabs, handleLogout(t) PROVE OwnUsers'
  <2>1. /\ store' = [store EXCEPT ![t] = NoSession] /\ storage' = NoSession
        /\ store \in [Tabs -> Session]
    BY <1>6 DEF handleLogout, SessionInv, Types
  <2>2. OwnUser(NoSession)
    BY TokenFacts DEF OwnUser
  <2> QED
    BY <1>1, <2>1, <2>2 DEF OwnUsers, OwnUser
<1>7. ASSUME NEW t \in Tabs, Reload(t) \/ Leave(t) PROVE OwnUsers'
  <2>1. /\ store' = [store EXCEPT ![t] = storage] /\ storage' = storage
        /\ store \in [Tabs -> Session]
    BY <1>7 DEF Reload, Leave, Load, SessionInv, Types
  <2> QED
    BY <1>1, <2>1 DEF OwnUsers, OwnUser
<1>8. ASSUME NEW t \in Tabs, NEW p \in Paths, Navigate(t, p) PROVE OwnUsers'
  BY <1>1, <1>8, OwnersStay DEF Navigate
<1>9. ASSUME NEW t \in Tabs, NEW u \in Users, handleSubmit(t, u) PROVE OwnUsers'
  BY <1>1, <1>9, OwnersStay DEF handleSubmit
<1>10. ASSUME NEW t \in Tabs, Write(t) \/ Poll(t) \/ Expire(store[t].token) PROVE OwnUsers'
  BY <1>1, <1>10, OwnersStay DEF Write, Poll, Expire
<1>11. ASSUME NEW c \in calls, Answered(c) \/ CallFailed(c) PROVE OwnUsers'
  BY <1>1, <1>11, OwnersStay DEF Answered, CallFailed
<1>12. CASE UNCHANGED vars
  BY <1>1, <1>12, OwnersStay DEF vars
<1> QED
  BY <1>3, <1>4, <1>5, <1>6, <1>7, <1>8, <1>9, <1>10, <1>11, <1>12 DEF Next

(* The user that a tab shows owns the token that its requests carry, unless *)
(* a login outlived its page: what useLogin and useProfile bring back was   *)
(* asked with the token of the session that they find.                      *)
THEOREM UsersOwnTheirToken == Spec => []UserOwnsToken
<1>1. Init => OwnUsers
  BY InitFacts DEF OwnUsers, OwnUser
<1>2. OwnUsers => UserOwnsToken
  BY DEF OwnUsers, OwnUser, UserOwnsToken
<1> QED
  BY <1>1, <1>2, SpecSessionInv, OwnersNext, PTL DEF Spec
-----------------------------------------------------------------------------
(* A session that is set in a tab without attempts, or emptied, leaves the  *)
(* tabs that closed theirs as they were.                                    *)
LEMMA QuitSet ==
    ASSUME SessionInv, QuitInv, NEW c \in calls, NEW p \in Paths, NEW s \in Session,
           Set(c.tab, s), Render(c.tab, p, s, calls \ {c}),
           c.tab \in quit => s.token = NoToken
    PROVE  QuitInv'
<1>1. Types /\ c.tab \in Tabs /\ calls \ {c} \subseteq Sent
  BY DEF SessionInv, Types, Sent
<1>2. /\ storage' = s /\ store'[c.tab] = s
      /\ \A u \in Tabs : u # c.tab => store'[u] = store[u]
  BY <1>1, SetFacts
<1>3. quit' = IF s.token = NoToken THEN quit ELSE {c.tab} \cap quit
  BY DEF Set
<1>4. CASE s.token # NoToken
  <2>1. quit' = {}
    BY <1>3, <1>4
  <2> QED
    BY <2>1 DEF QuitInv
<1>5. CASE s.token = NoToken
  <2>1. quit' = quit /\ quit \subseteq Tabs
    BY <1>1, <1>3, <1>5 DEF Types
  <2>2. \A d \in calls \ {c} : d.kind = "login" => d.user \in Users
    BY <1>1 DEF Types
  <2>3. Rendered(c.tab, p, s, calls \ {c})
    BY <1>1, <2>2, RenderFacts
  <2>4. \A u \in quit : Attempts(u)' = {}
    BY <2>3 DEF Rendered, QuitInv, Attempts, AttemptKind
  <2> QED
    BY <1>2, <1>5, <2>1, <2>4 DEF QuitInv
<1> QED
  BY <1>4, <1>5

LEMMA QuitNext == SessionInv /\ QuitInv /\ [Next]_vars => QuitInv'
<1> SUFFICES ASSUME SessionInv, QuitInv, [Next]_vars PROVE QuitInv'
  OBVIOUS
<1>1. /\ Types /\ calls \subseteq Sent /\ quit \subseteq Tabs
      /\ \A c \in calls : c.kind = "login" => c.user \in Users
      /\ \A c \in calls : c.tab \in Tabs /\ c.token \in Token \cup {NoToken}
      /\ \A t \in Tabs : store[t] \in Session /\ screen[t].path \in Paths
  BY DEF SessionInv, Types, Sent, Shown
<1>2. \A c \in calls : c.kind \in AttemptKind => c \in Attempts(c.tab)
  BY DEF Attempts, AttemptKind
<1>3. ASSUME NEW c \in calls, LoginAnswered(c) PROVE QuitInv'
  <2>1. PICK s : s = [token |-> [owner |-> c.user, n |-> issued + 1], user |-> Nobody]
    OBVIOUS
  <2>2. Set(c.tab, s) /\ c \in Attempts(c.tab) /\ issued \in Nat
    BY <1>1, <1>2, <1>3, <2>1 DEF LoginAnswered, Types, AttemptKind
  <2>3. s.token.n # 0
    BY <2>1, <2>2
  <2>4. c.tab \notin quit /\ s.token # NoToken
    BY <2>2, <2>3 DEF QuitInv, NoToken
  <2>5. quit' = {}
    BY <2>2, <2>4 DEF Set
  <2> QED
    BY <2>5 DEF QuitInv
<1>4. ASSUME NEW c \in calls, MeAnswered(c) \/ ProfileAnswered(c) PROVE QuitInv'
  <2>1. PICK s : s = [store[c.tab] EXCEPT !.user = c.token.owner]
    OBVIOUS
  <2>2. c.token.owner \in Users \cup {Nobody}
    BY <1>1, TokenFacts
  <2>3. s \in Session /\ s.token = store[c.tab].token
    BY <1>1, <2>1, <2>2 DEF Session
  <2>4. PICK p \in Paths : Set(c.tab, s) /\ Render(c.tab, p, s, calls \ {c})
    <3>1. CASE MeAnswered(c)
      BY <2>1, <3>1 DEF MeAnswered
    <3>2. CASE ProfileAnswered(c)
      BY <1>1, <2>1, <3>2 DEF ProfileAnswered
    <3> QED
      BY <1>4, <3>1, <3>2
  <2> QED
    BY <2>3, <2>4, QuitSet DEF QuitInv
<1>5. ASSUME NEW c \in calls, handleUnauthorized(c) \/ LoginFailed(c) PROVE QuitInv'
  <2>1. PICK p \in Paths : Set(c.tab, NoSession) /\ Render(c.tab, p, NoSession, calls \ {c})
    BY <1>1, <1>5 DEF handleUnauthorized, LoginFailed
  <2> QED
    BY <2>1, TokenFacts, QuitSet
<1>6. ASSUME NEW t \in Tabs, handleLogout(t) PROVE QuitInv'
  <2>1. /\ store' = [store EXCEPT ![t] = NoSession] /\ storage' = NoSession
        /\ quit' = IF Attempts(t) = {} THEN quit \cup {t} ELSE quit
        /\ Render(t, "login", NoSession, calls)
    BY <1>6 DEF handleLogout
  <2>2. NoSession.token = NoToken /\ NoSession \in Session
    BY TokenFacts
  <2>3. \A u \in quit' : u \in Tabs /\ Attempts(u) = {}
    BY <1>1, <2>1 DEF QuitInv
  <2>4. Rendered(t, "login", NoSession, calls)
    BY <1>1, <2>1, <2>2, RenderFacts
  <2>5. \A u \in quit' : Attempts(u)' = {}
    BY <2>3, <2>4 DEF Rendered, Attempts, AttemptKind
  <2>6. \A u \in quit' : store'[u].token = NoToken
    BY <1>1, <2>1, <2>2 DEF QuitInv, Types
  <2> QED
    BY <2>1, <2>2, <2>5, <2>6 DEF QuitInv
<1>7. ASSUME NEW t \in Tabs, NEW p \in Paths, Load(t, p) PROVE QuitInv'
  <2>1. storage \in Session
    BY <1>1 DEF Types
  <2>2. Layout(p, storage).path \in Paths
    BY LayoutFacts DEF Shown
  <2>3. \A c \in Mount(t, Layout(p, storage).path, storage) : c.kind \in MountKind
    BY <2>1, <2>2, MountFacts
  <2>4. \A c \in calls' : c \in calls \/ c.kind \in MountKind
    BY <1>7, <2>3 DEF Load
  <2>5. /\ store' = [store EXCEPT ![t] = storage] /\ UNCHANGED <<storage, quit>>
        /\ store \in [Tabs -> Session]
    BY <1>1, <1>7 DEF Load, Types
  <2> QED
    BY <1>1, <2>4, <2>5 DEF QuitInv, Attempts, MountKind, ReadKind
<1>8. ASSUME NEW t \in Tabs, Reload(t) \/ Leave(t) PROVE QuitInv'
  <2>1. PICK p \in Paths : Load(t, p)
    BY <1>1, <1>8 DEF Reload, Leave
  <2> QED
    BY <1>7, <2>1
<1>9. ASSUME NEW t \in Tabs, NEW p \in Paths, Navigate(t, p) PROVE QuitInv'
  <2>1. UNCHANGED <<store, storage, quit>> /\ Render(t, p, store[t], calls)
    BY <1>9 DEF Navigate
  <2>2. PICK s \in Session : s = store[t]
    BY <1>1
  <2>3. Rendered(t, p, s, calls)
    BY <1>1, <2>1, <2>2, RenderFacts
  <2> QED
    BY <1>1, <1>2, <2>1, <2>3 DEF Rendered, QuitInv, Attempts, AttemptKind
<1>10. ASSUME NEW t \in Tabs, NEW u \in Users, handleSubmit(t, u) PROVE QuitInv'
  <2> DEFINE r == Request(t, "login", "rest", store[t].token)
             w == [r EXCEPT !.user = u, !.open = TRUE]
  <2>1. r \in Sent /\ r.tab = t
    BY <1>1, RequestFacts DEF Session, Kind, AttemptKind, Via
  <2>2. w.tab = t
    BY <2>1 DEF Sent
  <2>3. /\ UNCHANGED <<store, storage>> /\ quit' = quit \ {t}
        /\ calls' = calls \cup {w}
    BY <1>10 DEF handleSubmit
  <2> HIDE DEF w
  <2> QED
    BY <1>2, <2>2, <2>3 DEF QuitInv, Attempts
<1>11. ASSUME NEW t \in Tabs, Write(t) \/ Poll(t) PROVE QuitInv'
  <2>1. PICK k \in {"write", "poll"}, via \in Via :
          /\ calls' = calls \cup {Request(t, k, via, store[t].token)}
          /\ UNCHANGED <<store, storage, quit>>
    BY <1>11 DEF Write, Poll, Via
  <2>2. Request(t, k, via, store[t].token).kind = k
    BY DEF Request
  <2> QED
    BY <1>2, <2>1, <2>2 DEF QuitInv, Attempts
<1>12. ASSUME NEW t \in Tabs, Expire(store[t].token) PROVE QuitInv'
  BY <1>12 DEF Expire, QuitInv, Attempts
<1>13. ASSUME NEW c \in calls, Answered(c) \/ CallFailed(c) PROVE QuitInv'
  BY <1>13 DEF Answered, CallFailed, QuitInv, Attempts
<1>14. CASE UNCHANGED vars
  BY <1>14 DEF vars, QuitInv, Attempts
<1> QED
  BY <1>3, <1>4, <1>5, <1>6, <1>8, <1>9, <1>10, <1>11, <1>12, <1>13, <1>14 DEF Next

(* A session that its user closed stays closed in that tab, reloads         *)
(* included, until he logs in again or another tab stores one.              *)
THEOREM LogoutStays == Spec => []LogoutSticks
<1>1. Init => QuitInv
  BY DEF Init, QuitInv
<1>2. QuitInv => LogoutSticks
  BY DEF QuitInv, LogoutSticks
<1> QED
  BY <1>1, <1>2, SpecSessionInv, QuitNext, PTL DEF Spec
=============================================================================
