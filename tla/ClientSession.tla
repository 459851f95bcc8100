---------------------------- MODULE ClientSession ----------------------------
(***************************************************************************)
(* The session of front-react: the store of every tab, its copy in         *)
(* localStorage, the login that writes it in three steps, the requests     *)
(* that carry its token, and the answers 401 that end it.  A tab shows one *)
(* route; leaving it aborts what the page reads, never what it writes, nor *)
(* a login on its way, nor what the page of explorar asks, which passes no *)
(* signal.                                                                 *)
(***************************************************************************)
EXTENDS Naturals, FiniteSets

CONSTANTS
    Tabs,
    Users,
    Role,               \* the role of each user
    Paths,              \* the routes of this instance, a subset of DOMAIN Routes
    MaxLogins, MaxMoves \* bounds: tokens issued, moves of the users

ASSUME SessionAssumption ==
    /\ Role \in [Users -> {"VISITANTE", "CURADOR", "ADMINISTRADOR"}]
    /\ "login" \in Paths /\ "inicio" \in Paths
    /\ MaxLogins \in Nat /\ MaxMoves \in Nat

VARIABLES
    store,      \* token and user in each tab's memory
    storage,    \* the same two in localStorage, shared by the tabs
    screen,     \* what each tab rendered last: path, page, bell
    leaving,    \* the tabs whose document location.assign is replacing
    calls,      \* requests sent and not answered
    expired,    \* tokens that are past their exp
    issued, moves,
    strayed,    \* history: tabs where a login outlived its page
    quit,       \* history: tabs that closed their session
    robber      \* history: what ended, in each tab, a session not its own

vars == <<store, storage, screen, leaving, calls, expired, issued, moves,
          strayed, quit, robber>>

Nobody == "nobody"
NoToken == [owner |-> Nobody, n |-> 0]
Token == [owner : Users, n : 0..MaxLogins]
NoSession == [token |-> NoToken, user |-> Nobody]

isTokenValid(token) == token # NoToken /\ token \notin expired
-----------------------------------------------------------------------------
(* The routes: who may see each, and what its page reads when it opens.     *)
(* obras reads without a token and does not look at the status; recorrido   *)
(* asks nothing until its form is sent.                                     *)

PUBLIC == [requiresAuth |-> FALSE, roles |-> {}]
AUTHENTICATED == [requiresAuth |-> TRUE, roles |-> {}]
VISITOR_ONLY == [requiresAuth |-> TRUE, roles |-> {"VISITANTE"}]
EVENT_MANAGERS == [requiresAuth |-> TRUE, roles |-> {"CURADOR", "ADMINISTRADOR"}]

canAccess(policy, s) ==
    \/ ~policy.requiresAuth
    \/ isTokenValid(s.token) /\ policy.roles = {}
    \/ isTokenValid(s.token) /\ s.user # Nobody /\ Role[s.user] \in policy.roles

Route(policy, reads) == [policy |-> policy, reads |-> reads]
Routes ==
    [login |-> Route(PUBLIC, "none"), inicio |-> Route(PUBLIC, "grpc"),
     eventos |-> Route(PUBLIC, "rest"), obras |-> Route(PUBLIC, "none"),
     misFiltros |-> Route(AUTHENTICATED, "rest"), explorar |-> Route(AUTHENTICATED, "grpc"),
     comparar |-> Route(AUTHENTICATED, "grpc"), perfil |-> Route(AUTHENTICATED, "rest"),
     recorrido |-> Route(VISITOR_ONLY, "none"), reporte |-> Route(EVENT_MANAGERS, "graphql"),
     auditoria |-> Route(EVENT_MANAGERS, "audit")]

ASSUME RoutesAssumption == Paths \subseteq DOMAIN Routes

NAV_ITEMS == Paths \ {"login", "comparar"}

(* The guard of a route: to the login, an empty or forbidden page, or the page. *)
RequireRole(p, s) ==
    LET policy == Routes[p].policy IN
    CASE policy.requiresAuth /\ ~isTokenValid(s.token) -> [path |-> "login", page |-> TRUE]
      [] OTHER -> [path |-> p, page |-> canAccess(policy, s)]

Layout(p, s) ==
    LET guard == RequireRole(p, s)
    IN  [path |-> guard.path, page |-> guard.page, bell |-> isTokenValid(s.token)]
-----------------------------------------------------------------------------
(* The requests.  Each carries the token that the store held when it was    *)
(* sent; "here" tells whether the login page that waits for it is open.     *)

Request(t, kind, via, token) ==
    [tab |-> t, kind |-> kind, via |-> via, token |-> token, user |-> Nobody,
     open |-> FALSE, here |-> kind \in {"login", "me"}]

Attempts(t) == {c \in calls : c.tab = t /\ c.kind \in {"login", "me"}}
submitting(t) == \E c \in Attempts(t) : c.here

(* The servers.  All refuse a token past its exp, and no token where they   *)
(* need one; the public routes of REST take such a request as anonymous;    *)
(* GraphQL answers 200 with an error code when there is no token at all.    *)
Status(c) ==
    CASE c.open /\ (c.via = "rest" \/ c.token = NoToken) -> "200"
      [] isTokenValid(c.token) -> "200"
      [] c.via = "graphql" /\ c.token = NoToken /\ ~c.open -> "UNAUTHENTICATED"
      [] OTHER -> "401"

(* The clients: which answers end the session.                              *)
apiRequest(c) == Status(c) = "401" /\ c.kind # "login"
graphqlRequest(c) == Status(c) \in {"401", "UNAUTHENTICATED"}
grpcRequest(c) == Status(c) = "401"
fetchAuditEvents(c) == Status(c) = "401"
ignoredStatus(c) == FALSE
fetchNotifications(c) == Status(c) = "401"
downloadAttendanceReport(c) == Status(c) = "401"

Unauthorized(c) ==
    CASE c.via = "rest" -> apiRequest(c)
      [] c.via = "graphql" -> graphqlRequest(c)
      [] c.via = "grpc" -> grpcRequest(c)
      [] c.via = "audit" -> fetchAuditEvents(c)
      [] c.via = "notifications" -> fetchNotifications(c)
      [] c.via = "report" -> downloadAttendanceReport(c)
-----------------------------------------------------------------------------
(* A change of the store: every set is written to localStorage.             *)
Set(t, s) ==
    /\ store' = [store EXCEPT ![t] = s]
    /\ storage' = s
    /\ quit' = IF s.token = NoToken THEN quit ELSE {t} \cap quit

(* What remains of the requests when the page of a tab closes: its reads    *)
(* are aborted, but useExploration has nothing to abort its own with, and a *)
(* login goes on without its page.                                          *)
UnmountWithoutAbort(t, cs) == {IF c.tab = t THEN [c EXCEPT !.here = FALSE] ELSE c : c \in cs}
Unmount(t, cs) ==
    {IF c.tab = t THEN [c EXCEPT !.here = FALSE] ELSE c :
        c \in {d \in cs : d.tab = t => d.kind \notin {"page", "profile"}}}

(* The requests of the page that opens.                                     *)
Mount(t, p, s) ==
    CASE p = "perfil" -> {Request(t, "profile", "rest", s.token)}
      [] p = "explorar" -> {Request(t, "exploration", "grpc", s.token)}
      [] Routes[p].reads = "none" -> {}
      [] p = "inicio" /\ ~canAccess(VISITOR_ONLY, s) -> {}
      [] OTHER -> {[Request(t, "page", Routes[p].reads, s.token)
                        EXCEPT !.open = ~Routes[p].policy.requiresAuth]}

(* Tab t renders path p with session s, and cs are the requests on their    *)
(* way: another page closes the one before, and the bell, which polls, is   *)
(* there while the token is valid.                                          *)
Render(t, p, s, cs) ==
    LET new == Layout(p, s)
        old == screen[t]
        stays == new.path = old.path /\ new.page = old.page
        polls == {c \in cs : c.tab = t /\ c.kind = "poll"}
        rest == IF new.bell THEN cs ELSE cs \ polls
    IN  /\ screen' = [screen EXCEPT ![t] = new]
        /\ calls' = IF stays THEN rest
                    ELSE Unmount(t, rest) \cup (IF new.page THEN Mount(t, new.path, s) ELSE {})
        /\ strayed' = IF ~stays /\ \E c \in cs : c.tab = t /\ c.here
                      THEN strayed \cup {t} ELSE strayed

(* A new document: the store is read from localStorage.                     *)
Load(t, p) ==
    LET new == Layout(p, storage) IN
    /\ store' = [store EXCEPT ![t] = storage]
    /\ screen' = [screen EXCEPT ![t] = new]
    /\ calls' = {c \in calls : c.tab # t}
                  \cup (IF new.page THEN Mount(t, new.path, storage) ELSE {})
    /\ leaving' = leaving \ {t}
    /\ UNCHANGED <<storage, expired, issued, strayed, quit, robber>>

Init ==
    /\ expired = {} /\ issued = 0 /\ moves = 0
    /\ storage \in {NoSession} \cup {[token |-> [owner |-> u, n |-> 0], user |-> u] : u \in Users}
    /\ store = [t \in Tabs |-> storage]
    /\ screen = [t \in Tabs |-> Layout("inicio", storage)]
    /\ calls = UNION {Mount(t, "inicio", storage) : t \in Tabs}
    /\ leaving = {}
    /\ strayed = {} /\ quit = {} /\ robber = [t \in Tabs |-> "nothing"]

Move == moves < MaxMoves /\ moves' = moves + 1
-----------------------------------------------------------------------------
(* The user follows a link of the bar that the session lets him see, types  *)
(* an address of the program, or goes to the login.                         *)
Navigate(t, p) ==
    /\ Move
    /\ p # screen[t].path
    /\ p \in NAV_ITEMS => canAccess(Routes[p].policy, store[t])
    /\ Render(t, p, store[t], calls)
    /\ UNCHANGED <<store, storage, leaving, expired, issued, quit, robber>>

(* F5.                                                                      *)
Reload(t) == Move /\ Load(t, screen[t].path)

(* The form of the login; its button is disabled while it submits.          *)
handleSubmit(t, u) ==
    /\ Move
    /\ screen[t].path = "login" /\ ~submitting(t)
    /\ calls' = calls \cup {[Request(t, "login", "rest", store[t].token) EXCEPT !.user = u, !.open = TRUE]}
    /\ quit' = quit \ {t}
    /\ UNCHANGED <<store, storage, screen, leaving, expired, issued, strayed, robber>>

(* The button of the bar: it stays on the login page if it is there.        *)
handleLogoutInMemory(t) ==
    /\ Move /\ screen[t].bell
    /\ store' = [store EXCEPT ![t] = NoSession]
    /\ quit' = IF Attempts(t) = {} THEN quit \cup {t} ELSE quit
    /\ Render(t, "login", NoSession, calls)
    /\ UNCHANGED <<storage, leaving, expired, issued, robber>>
handleLogout(t) ==
    /\ Move
    /\ screen[t].bell
    /\ store' = [store EXCEPT ![t] = NoSession] /\ storage' = NoSession
    /\ quit' = IF Attempts(t) = {} THEN quit \cup {t} ELSE quit
    /\ Render(t, "login", NoSession, calls)
    /\ UNCHANGED <<leaving, expired, issued, robber>>

(* A page writes (a registration, a filter, a comment) or downloads the     *)
(* report: nothing aborts such a request.                                   *)
Write(t) ==
    /\ Move
    /\ screen[t].page /\ screen[t].path # "login" /\ store[t].token # NoToken
    /\ calls' = calls \cup
           {Request(t, "write", IF screen[t].path = "reporte" THEN "report" ELSE "rest",
                    store[t].token)}
    /\ UNCHANGED <<store, storage, screen, leaving, expired, issued, strayed, quit, robber>>

(* The bell asks at once and then every minute.                             *)
Poll(t) ==
    /\ screen[t].bell
    /\ ~\E c \in calls : c.tab = t /\ c.kind = "poll"
    /\ calls' = calls \cup {Request(t, "poll", "notifications", store[t].token)}
    /\ UNCHANGED <<store, storage, screen, leaving, expired, issued, moves, strayed, quit, robber>>

Expire(token) ==
    /\ isTokenValid(token)
    /\ expired' = expired \cup {token}
    /\ UNCHANGED <<store, storage, screen, leaving, calls, issued, moves, strayed, quit, robber>>
-----------------------------------------------------------------------------
(* The first answer of a login: the token is kept, no user, and /auth/me is *)
(* asked with that token.                                                   *)
LoginAnswered(c) ==
    LET token == [owner |-> c.user, n |-> issued + 1]
        s == [token |-> token, user |-> Nobody]
        me == [Request(c.tab, "me", "rest", token) EXCEPT !.here = c.here]
    IN  /\ c.kind = "login" /\ issued < MaxLogins
        /\ issued' = issued + 1
        /\ Set(c.tab, s)
        /\ Render(c.tab, screen[c.tab].path, s, (calls \ {c}) \cup {me})
        /\ UNCHANGED <<leaving, expired, moves, robber>>

(* The second one: the user is kept, and the login page goes to the start,  *)
(* even if it is not open any more.                                         *)
MeAnswered(c) ==
    LET s == [store[c.tab] EXCEPT !.user = c.token.owner] IN
    /\ c.kind = "me" /\ Status(c) = "200"
    /\ Set(c.tab, s)
    /\ Render(c.tab, "inicio", s, calls \ {c})
    /\ UNCHANGED <<leaving, expired, issued, moves, robber>>

(* The profile page brings the user up to date.                             *)
ProfileAnswered(c) ==
    LET s == [store[c.tab] EXCEPT !.user = c.token.owner] IN
    /\ c.kind = "profile" /\ Status(c) = "200"
    /\ Set(c.tab, s)
    /\ Render(c.tab, screen[c.tab].path, s, calls \ {c})
    /\ UNCHANGED <<leaving, expired, issued, moves, robber>>

Answered(c) ==
    /\ c.kind \in {"page", "exploration", "write", "poll"} /\ ~Unauthorized(c)
    /\ calls' = calls \ {c}
    /\ UNCHANGED <<store, storage, screen, leaving, expired, issued, moves, strayed, quit, robber>>

(* 401: the session of the tab ends, whatever token the request carried,    *)
(* and the document goes to the login unless it is there.                   *)
handleUnauthorized(c) ==
    LET t == c.tab IN
    /\ Unauthorized(c)
    /\ Set(t, NoSession)
    /\ Render(t, screen[t].path, NoSession, calls \ {c})
    /\ leaving' = IF screen[t].path = "login" THEN leaving ELSE leaving \cup {t}
    /\ robber' = IF store[t].token \notin {NoToken, c.token}
                 THEN [robber EXCEPT ![t] = c.kind] ELSE robber
    /\ UNCHANGED <<expired, issued, moves>>

(* Wrong credentials, a failure of the server or no network: a login that   *)
(* fails at either step closes the session.                                 *)
LoginFailed(c) ==
    /\ c.kind \in {"login", "me"}
    /\ Set(c.tab, NoSession)
    /\ Render(c.tab, screen[c.tab].path, NoSession, calls \ {c})
    /\ UNCHANGED <<leaving, expired, issued, moves, robber>>

CallFailed(c) ==
    /\ c.kind \in {"page", "profile", "exploration", "write", "poll"}
    /\ calls' = calls \ {c}
    /\ UNCHANGED <<store, storage, screen, leaving, expired, issued, moves, strayed, quit, robber>>

(* location.assign has loaded the login.                                    *)
Leave(t) == t \in leaving /\ Load(t, "login") /\ UNCHANGED moves

Next ==
    \/ \E t \in Tabs :
         \/ \E p \in Paths : Navigate(t, p)
         \/ \E u \in Users : handleSubmit(t, u)
         \/ Reload(t) \/ handleLogout(t) \/ Write(t) \/ Poll(t) \/ Leave(t)
    \/ \E c \in calls :
         \/ LoginAnswered(c) \/ MeAnswered(c) \/ ProfileAnswered(c) \/ Answered(c)
         \/ handleUnauthorized(c) \/ LoginFailed(c) \/ CallFailed(c)
    \/ \E t \in Tabs : Expire(store[t].token)

PollEnds(t) ==
    \E c \in calls : /\ c.tab = t /\ c.kind = "poll"
                    /\ (Answered(c) \/ handleUnauthorized(c) \/ CallFailed(c))
PollRefused(t) == \E c \in calls : c.tab = t /\ c.kind = "poll" /\ handleUnauthorized(c)

Spec == Init /\ [][Next]_vars
FairSpec ==
    /\ Spec
    /\ \A t \in Tabs : /\ WF_vars(Poll(t)) /\ WF_vars(PollEnds(t)) /\ WF_vars(Leave(t))
                       /\ SF_vars(PollRefused(t))
-----------------------------------------------------------------------------
Session == [token : Token \cup {NoToken}, user : Users \cup {Nobody}]

(* Every variable has its type.                                             *)
TypeOK ==
    /\ store \in [Tabs -> Session] /\ storage \in Session
    /\ screen \in [Tabs -> [path : Paths, page : BOOLEAN, bell : BOOLEAN]]
    /\ \A c \in calls : c.tab \in Tabs /\ c.token \in Token \cup {NoToken}
    /\ leaving \subseteq Tabs /\ expired \subseteq Token
    /\ issued \in 0..MaxLogins /\ moves \in 0..MaxMoves

(* The user that a tab shows, whose role opens its routes, owns the token   *)
(* that its requests carry, while answers to older requests arrive and the  *)
(* tabs share a storage.  It takes a login that outlived its page to break  *)
(* this: useLogin, useProfile and the store are what keeps it.              *)
UserOwnsToken ==
    \A t \in Tabs : strayed = {} /\ store[t].token # NoToken =>
        store[t].user \in {Nobody, store[t].token.owner}

(* A 401 to a read that leaving its page aborts, or to the second step of a *)
(* login, never ends a session other than the one it was sent with: it is   *)
(* the abort that makes handleUnauthorized safe.  What nothing aborts can   *)
(* end another session, and is not spoken of here: the reads of explorar,   *)
(* the writes and the bell.  So can an aborted kind of read when a login    *)
(* that outlived its page changes the session under it.                     *)
AbortedReadsEndOnlyTheirSession ==
    \A t \in Tabs : robber[t] \in {"page", "profile", "me"} => t \in strayed

(* A user who closes his session, with no login of his on its way, has none *)
(* in that tab until he logs in again, reloads included; only a session     *)
(* that another tab still writes can bring it back.                         *)
LogoutSticks == \A t \in quit : store[t].token = NoToken

(* A session past its exp does not stay open for ever on a screen nobody    *)
(* touches: the bell polls, is refused, and the tab goes to the login.      *)
ExpiredSessionCloses ==
    \A t \in Tabs :
        (screen[t].bell /\ store[t].token \in expired)
            ~> ~(screen[t].bell /\ store[t].token \in expired)
=============================================================================
