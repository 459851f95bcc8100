# Verification of Museo Virtual

TLA+ models of the Museo Virtual system (`src/`), model-checked with TLC and
proved with TLAPS. Every definition follows the code; `PROJECT.json` maps each
one to its lines.

## The system

| Part | State | Operations | Hard behaviour |
|---|---|---|---|
| backend-rest, events (Spring, MySQL) | `events`, `event_outbox` | create, update, delete; each with its outbox row in one transaction | transactions that overlap without locks, rollbacks, lost updates |
| backend-rest, outbox publisher | the batch of the current poll | scheduled poll, send to Kafka, mark, backoff | send and mark are not atomic, timeouts, retries, crashes, order |
| backend-rest, registrations | `events_registrations` | join, leave | capacity checked before the insert, events that change meanwhile |
| audit, consumer (Go) | channel of records, `audit_log`, topic `audit-dlq`, committed offsets | fetch, insert, dead-letter, commit | redelivery, failed commits, rebalances with a full channel, shutdown |
| audit, query API | reads `audit_log` | list with filters | pages by offset under late inserts |
| notifications, consumer (Node) | `notifications`, topic `notification-dlq`, committed offsets | save for all recipients, dead-letter, commit | chunks, recipients that change, redelivery, shutdown while a save runs |
| notifications, API | `notifications.is_read` | list, mark all as read | a save between list and mark |
| front-react, pages that load data | key, content, error and loading of each hook | change of filter or page, reload, answers | answers out of order, cancellation, tables that grow between two pages |
| front-react, session | store of each tab, its copy in localStorage | login in two answers, logout, reload, 401, expiry | requests that outlive their page or their token, several tabs |
| front-react, forms | open form, waiting flag, local result | submit, close, success, error | pages left while they write, lost answers, second presses |
| backend-rest, the rest | works, comments, users, saved filters, preferences | CRUD, login, report | check-then-insert, deletes against inserts, reads of two snapshots |
| backend-graphql (Go) | none | reports, works | aggregation |
| backend-proxy (Go) | none | dispatch by path prefix | none |
| api-gateway (Node) | none | tours, recommendations, comparison, exploration over gRPC | deadlines, partial failure |
| grpc-works, grpc-events, grpc-users (Python) | connection pools | tour planning, recommendations, queries | pool limits, algorithms |

How they interact: the frontend calls backend-proxy, which dispatches to
backend-rest, backend-graphql, api-gateway, audit and notifications.
backend-rest writes `events` and `event_outbox` in one MySQL transaction; its
scheduled publisher sends the pending rows to the Kafka topic `museum.events`
(three partitions, key = event id); audit and notifications consume the topic,
each in a group of its own, and write their tables in the same MySQL.
notifications also reads `users` and `events_registrations` to find recipients.
The gateway and the gRPC services only read.

What makes each part correct:

- *outbox*: an event never changes without its announcement; nothing that was
  rolled back is announced; every announcement reaches the topic at least once,
  and is repeated only after a fault; the order of an event's messages.
- *registrations*: capacity, and joining live events only.
- *consumers*: no offset is committed before its message is stored or
  dead-lettered; a redelivery changes nothing; a save is whole; every message is
  handled in the end.
- *pages*: what is shown is what was asked last; going through the pages misses
  nothing; an empty page means that there is nothing; no page loads for ever.
- *session*: token and user belong together; a late 401 does not end another
  session; a logout stays; an expired session closes by itself.
- *forms*: one row for one form; a success closes its own form; the page of an event
  shows the registration as the database has it; no comment without its work.
- *tours*: a tour fits its limits when somebody walks it, and leaves out nothing that
  would fit; a failure of the preferences changes its order only; the times and the
  events are those of the visit.

## Modules

| Module | Models | Used by |
|---|---|---|
| `NewsDelivery` | abstract specification: accepted messages are delivered at least once, nothing else ever is | refined by the outbox and by both consumers |
| `EventTransactions` | `EventService` and `EventOutboxService.enqueue`: request transactions over `events` and `event_outbox` | `EventOutbox`, `EventRegistration` |
| `EventOutbox` | `EventOutboxPublisher` composed with `EventTransactions` | `MCEventOutbox` |
| `EventRegistration` | `EventRegistrationService` composed with `EventTransactions` | `MCEventRegistration` |
| `AuditConsumer` | `audit/main.go` | `MCAuditConsumer` |
| `NotificationConsumer` | `processor.js`, `kafka.js`, `notificationsRepository.js`, `index.js` | `MCNotificationConsumer` |
| `PageLoader` | the fourteen pages of front-react that load data, their hooks, and the lists they ask for | `MCPageLoader` |
| `ClientSession` | `authStore.ts`, `useLogin.ts`, `session.ts`, the API clients, `router.tsx`, `RequireRole.tsx`, `Layout.tsx` | `MCClientSession` |
| `FormScreens` | the screens that write, their hooks, and the services and tables behind them | `MCFormScreens` |
| `TourPlan` | the route of the tour in api-gateway, the planner and the schedule of grpc-works, the events of a tour in grpc-events | `MCTourPlan` |
| `*Proofs` | theorems and proofs of the module they are named after | |

### EventTransactions and EventOutbox

A request (`tx[r]`) reads the event from its snapshot (`CreateEvent`,
`UpdateEvent`, `DeleteEvent`), inserts its outbox row, which takes the next id at
once (`Enqueue`), and commits (`Commit`), when Hibernate flushes every column of
the entity it read: there is no version and no dynamic update. Any other request
runs in between, so ids and commits may be in different orders. `Rollback` is any
failure of the transaction. The answers that change nothing are
`LeaveUnchanged`: they include the second deletion of an event and an update with
an empty diff. The business fields of an event are one `content`; a diff is the
pair (`previous`, `content`).

The publisher takes a batch (`Poll`) and deals with its rows in the order of
their ids: `SendAcked` then `MarkSent`; or `SendFails` then `RegisterFailure`
(one attempt more, and a backoff that ends with `BackoffElapses`); or
`SendInterrupted`, which ends the poll. `SaveFails` is a failed save after a send,
logged and forgotten. A send that fails may have reached the broker (`MayLand`).
A record that lands after its 15 seconds are over is appended by this model when
the wait ends. That loses no behaviour of the topic: Spring's producer is
idempotent by default and keeps the records of a partition in the order of the
sends, so a later record of that partition does not overtake it. `Crash` is the death and
the restart of the process, with its open transactions rolled back.

### EventRegistration

A join or a leave is a snapshot read (`BeginRegister`, `BeginUnregister`) and a
commit. `session[s]` is the request that a thread of the server is serving. Two
history fields, `joined` and `changed`, record what happened to the event while a
request is in flight; no guard reads them.

### AuditConsumer

`inFlight` is the channel and the records that the two goroutines hold, its head
being the one in `persistLoop`. An INSERT that fails may have been carried out,
and so may a commit of an offset or a write to the DLQ. `Rejoin` sends the reader
back to the committed offsets without emptying the channel. A commit that fails
is only logged: the loop goes on. A DLQ that fails stops the process. `Cancel` and
`StopOnCancel` are the shutdown, as each of the selects on the context sees it.

### NotificationConsumer

One record is in hand at a time (`partitionsConsumedConcurrently: 1`). `BeginSave`
reads the recipients inside the transaction; `InsertChunk` writes the next
hundred; `CommitSave` makes them visible. The number of attempts depends on a
clock, so `SaveFails` may be followed by another attempt, by the DLQ, or by
eachMessage throwing (a heartbeat failed during the wait), after which kafkajs
delivers the record again. `DeadLetterFails` begins the shutdown, during which the
handler may still run (`Exit` ends it). Users sign up, join, leave and mark as read
at any time. `saved` and `steady` are history variables: the records whose
transaction committed, and the users who were recipients of a message without a
break since its publication.

### PageLoader

One page is open. Its hook computes a `key` (filter, page number, number of
reloads), and asks for it with a request of `calls`. The server reads its table for
the request (`Serve`), and the answer arrives (`Arrive`) or the request fails (`Fail`);
between these steps the user changes the filter or the page (`ChangeFilter`,
`ChangePage`), reloads, or resets, and rows appear anywhere in the order of the table
(`NewRow`). The place of a row in a query is the number of rows up to it that the filter selects,
which gives the page that LIMIT and OFFSET put it on. The hooks are the same code up to eight facts, which a record gives for each
of them. `useEvents`, `useAuditLogs` and the others that were written the same way compare
`loadedKey` with the key they ask for; `useWorks`, `useTourPlan` and the like keep a
flag. `Survivors` is what the cleanup of an effect, or the abort of the previous request,
leaves: nothing, but for `useExploration`, which cancels nothing, and for the `refetch` of
`useWork`. Each view is an operator from what its hook returns to the parts
of the page that are shown. `reloadedAt`, `atStart` and `seen` are history.

### ClientSession

`store[t]` is the Zustand store of a tab and `storage` the entry `museo-auth` of
localStorage: every set writes it, and only a new document (`Load`) reads it. A login
is two requests: `LoginAnswered` keeps the token and asks for the user,
`MeAnswered` keeps the user and goes to the start, also when the page of the login is
closed by then. `Render` applies the guards (`RequireRole`, `Layout`) to a new path or a
new session; a page that is replaced has its reads aborted (`Unmount`), while writes,
downloads and logins go on, and so does the read of `/explorar`: `useExploration` has
neither a signal to abort it nor a cleanup. `handleUnauthorized` is the 401 of any client: it ends
whatever session the tab has. `Expire` is the passing of time for one token.
A poll of the bell is answered before the next one is sent; two on their way would
carry the same token, since a new token mounts a new bell or aborts the old poll at
the logout between them.

The histories say how far the properties go. `strayed` holds the tabs where a login outlived
its page. In those tabs a second login may overlap the first, and the answer of
`/auth/me` of one may set its user next to the other's token: `UserOwnsToken` is only
claimed while there is none. `robber` is the kind of the request whose 401 ended a session
that it was not sent with. The reads that their page aborts never do
(`AbortedReadsEndOnlyTheirSession`); writes, downloads, polls and the read of `/explorar` may: a
user who leaves that page, logs out and logs in again loses the new session to a late 401
of the old token.

### FormScreens

Each tab has one page open, with at most one form, and at most one request that it
waits for. A request is `sent`, then `checked` by its service inside a transaction, then
`done` at the commit, where the keys of the tables decide again (`Violates`); the
answer comes back with `Succeed` or `Refuse`, or not at all (`Lose`), after which the
service may still carry the write out. What a success does depends on the page that is open by then:
setters of a closed page do nothing, `navigate` always acts, and `SavedFiltersView`
closes the dialog that is open, whichever it is. `EventDetailView` stays mounted from one event to
another (the links of the notifications), so its local result (`registrationOverride`)
is kept with the event it is about. The deletion of a work
(`deleteWork`, `WorkDeleted`) is one transaction: it deletes the comments that it found and then
the work, and the foreign key of a comment that arrived meanwhile rolls back both.
That a user edits or deletes a comment, which no screen asks for, is left out.

`lost`, `left` and `taken` are history: what no answer came for, what a user left while it waited,
and what was closed by the success of another. `left` and `taken` are sets of pairs of a tab and a form, and form 0 is
the page of an event, so that having left one form excuses nothing of another.

### TourPlan

The actions are the handler of `POST /tours/plan`: it refuses the body or asks for the
preferences (`Receive`), goes on with them or without (`ProfileAnswered`,
`ProfileFails`), asks grpc-works for the plan (`SearchAnswered`) and grpc-events for the events
(`EventsAnswered`), and answers an error if one of these two fails (`CallFails`). What the
services compute is pure: the candidates in order of relevance, taken one by one while they
fit (`Take`), put in the order of the rooms (`order_tour`), with criteria given up if
nothing is left (`plan_tour_with_fallback`), times for the rooms (`build_room_schedule`) and
events that overlap them. Texts are compared through `Normalized` and the tables of aliases, so that
one room, era or technique is spelled in several ways. What Python sorts by a tuple is `Sorted`
here: the elements at the ranks of their keys (`Less` compares keys from the left). The
loops are recursive functions (`plan_tour`, `Clock`) and a sum over a set (`Duration`).
The reference definition is the visit itself: `Walk` goes from work to work, which none of
the functions of the services does, and the properties compare their results with it.

`plan_tour_with_fallback` gives a criterion up whenever the plan is empty, also when works
meet it and only their minutes are too many; its docstring ("si no hay coincidencias"), the note
that it returns and the text of `TourCriteriaForm.tsx:218` speak of no coincidences.
`NothingLeftOut` states what the code does: no work that meets a criterion that was given up
fits, even alone.

## Runs

| Run | Shows | Distinct states |
|---|---|---|
| `outbox` | safety of transactions and publisher, the refinement of `NewsDelivery`, and under fairness that every pending row is sent: three requests that create, update and delete an event, two contents, batch of two, one failed send, one other fault | 248 thousand |
| `outbox_order` | **violation**: a failed send reorders the messages of one event | |
| `event_deleted` | **violation**: an overlapping update undoes a deletion | |
| `registration` | overbooking is bounded by the threads and needs overlap: four users, two threads, two writes of the event | 30 thousand |
| `registration_capacity` | **violation**: overlapping joins exceed the capacity | |
| `audit` | safety, and refinement of `NewsDelivery` under fairness: two partitions of two records, a good, a malformed and a rejected message | 138 thousand |
| `notifications` | safety with two users in two chunks, two faults | 1.3 million |
| `notification_delivery` | refinement of `NewsDelivery` under fairness, one user, two faults | 288 thousand |
| `pages` | fourteen pages, three filters (one selects every row, one some, one is invalid), at most three rows and three moves of the user, pages of one row; liveness: no page loads for ever | 458 thousand |
| `session` | two tabs, a visitor and a curator, five routes (public, login, with session, with roles, and `/explorar`, whose read nothing aborts), one login, three moves; liveness: an expired session closes | 225 thousand |
| `forms` | two tabs of one user or of two, on any two of six screens, two keys, three forms, two requests, one lost answer | 2.4 million |
| `tour` | requests over every subset of six works in three rooms and the store, three events, three profiles, limits of none, 12, 25 and 40 minutes and of none and two works | 424 thousand |

The violations are disagreements between the code and its documentation, listed
under `findings` with the sentence they contradict.

**Bounds.** `MaxSendFailures`, `MaxDbFailures` and `MaxFaults` bound how often each
kind of fault happens, `MaxLosses` how many answers to forms are lost, `MaxRecords` the
length of a partition, and the sets of requests,
messages, users and threads everything else. They are chosen so that the cases of
interest occur: three requests let two updates, or an update and a deletion, of an event
overlap after its creation;
with two rows in a batch one can fail and the next succeed; a partition of two
records holds a message and its duplicate, or two messages of which the second may be
committed over the first; two faults allow a failure and a crash during its
recovery; a chunk of one row makes a save of two recipients two INSERTs. Three rows in
pages of one let a row appear before, between and after the pages of a user who goes
through all of them, and three moves change the key twice while the first answer is still
due, or change it, change it back and reload. One login next to two sessions that began
before is enough for two tokens in a tab and for a late answer of each; the invariants of
this run also hold with two logins and four moves (2.5 million states, without liveness).
Two requests are a write and its repetition, or two writes that meet at a key; three forms are
the one that was sent, the one that was opened meanwhile, and a third page. In `tour` six
works, of which any may be missing, give rooms with two works, one work and none, a work
without duration in the table, one without year, ties of relevance, and tours that a
limit cuts before, at and after a change of room; the events begin before, during and at the end of
a stay. What goes
beyond these sizes in the backend is what the proofs are for: they hold for all of them.

**Symmetry** is used in the safety runs only, over users, threads, tabs and keys, which the specifications never tell apart.

**Deadlock** is not checked in the runs of the registrations, the consumers, the
frontend and the tour: once the bounded requests, moves, records and faults are used up the system rests, as
the real one does when nobody calls it. The liveness properties say that it does
not rest too early.

**Fairness.** The publisher runs by `@Scheduled` with a fixed delay, so its steps
(`PublisherProgress`) and the passing of time (`BackoffElapses`) are weakly fair; no
request is assumed to arrive or to end. A crash of backend-rest includes its
restart: docker-compose has no restart policy for this container, so liveness
assumes that somebody starts it again. The loops of both consumers and
the answers of MySQL and Kafka are weakly fair, and so is their restart
(`restart: unless-stopped`). Faults are never forced and are finite in number:
what is shown is that the system recovers once they stop. Nothing is assumed of
the users. In `pages`, a request that stays on its way is answered or fails in the end:
fetch settles, and the gateways have deadlines. In `session`, the bell of a tab polls
(`setInterval`), its poll ends one way or another, and the document that
`location.assign` asked for loads; `PollRefused` is strongly fair: a poll with an
expired token may find the network down any number of times, but not for ever. `forms` and
`tour` have no liveness.

## Proofs

Each `*Proofs` module proves, for all values of the constants that satisfy the
named assumptions:

- `EventOutboxProofs`: `TypeOK`, `EventsAreAnnounced`, `DiffStartsFromAnnounced`,
  `TopicIsCommittedNews`, `SentIsDelivered`, `SentIsFinal`, `OrderWhileSendsSucceed`,
  `DuplicatesNeedFaults`, and that each step
  implements a step of `NewsDelivery` or stutters (`SafeDelivery`).
  The lemmas on the transactions come first; the registrations use them too. The inductive invariant is `Shape`: the types, with
  `RowsOfCommitted` (a row is visible exactly when its transaction committed, and says
  what it did), `TransactionsOK`, `IdsAreUnique` and `BatchIsPending` (the
  publisher only ever holds pending rows). On top of it, `ReadsAreAnnounced` says that what
  an open transaction read was announced before: without it the write-back of
  an old content could not be related to an announcement; `AckedIsDelivered` ties the
  phase `sent` to the topic. The order follows from `OrderIsKept`: a row has a higher id than those
  that its transaction found committed, and while no send has failed no row waits out a backoff, so
  a poll that takes a row takes the earlier ones of its event or finds them in the topic. The
  duplicates are counted by `CopiesPaid`: a row that is in the topic and could be sent again was paid
  for by the fault that left it `PENDING`.
- `EventRegistrationProofs`: `RegTypeOK`, `StaleOnlyByOverlap` (`JoinsLiveEvent` and `ExcessNeedsOverlap`),
  and `OverbookingIsBounded`, by counting: a join that starts finds room and at most all other
  threads in the same position; a commit turns one of them into an attendee.
- `AuditConsumerProofs`: `TypeOK`, `NothingIsSkipped`, `RowsAreFinal`,
  `DeadLettersNeedFailures`, and the safety part of `NewsDelivery` (`SafeAudit`).
  `NothingIsSkipped` is not inductive: the offset that is committed may be of a
  record that was fetched before a rebalance. `InFlightInOrder` (whatever precedes a
  record of the channel in its partition is handled or is before it in the channel),
  `FetchedIsInFlight`, `OffsetsExist` and `Busy` make it so. In `DeadLettersPaid` the failed
  INSERTs pay for the good records of the DLQ and for the attempts at the present one; a record
  whose copy to the DLQ is retried is not paid for twice.
- `NotificationConsumerProofs`: `TypeOK`, `NothingIsSkipped` (with
  `PassedIsHandled`, `CommitIsHandled` and `OffsetsExist`), `SavesAreWhole` (with
  `SteadyAreRecipients`, `TxIsWhole`, `SavedExist`, `InTheirPartition` and
  `NotifiedIsPublished`), `ReadStaysRead`, and the safety part of `NewsDelivery` (`SafeHandling`),
  for which what is saved or in the DLQ must be a published record (`DeadLettersExist`).
- `PageLoaderProofs`: `ShowsWhatWasAsked` (`SettledShowsItsKey` and `LastRequestWins`), `FreshAfterReload`,
  `NothingMissed`, `EmptyMeansNone`. The
  invariant `PageInv` says that a page which cancels has no request but for its present key
  (`CallsAreLatest`), that content, error and loaded key are set together
  (`AnswerIsLoaded`; the profile, whose retry clears the error and whose success
  does not, needs an argument of its own, `ProfileAsksOnce`), and that the answers on
  their way are not older than the last reload (`RepliesAreFresh`): a reload cancels whatever
  was asked before it, and its number is in the key, so that what is loaded is of an earlier
  reload (`LoadedEarlier`) until the new answer comes. `HookFacts`, `PagedHook` and `WorksHook`
  are all that the proofs use of the single hooks, and `SaysNothing` of the views. Going through the pages is `Reading`: a page that is asked for
  is one that the table reaches (`PagesFollow`), and each row of the first query has been seen, is
  on its way, or is beyond the pages read so far (`SeenOrBeyond`). The rows that a page has are given
  by their places, the number of selected rows up to them; a new row moves others to later places
  (`RowsMove`), so what was beyond a page stays beyond it (`PagesGrow`), and a page that the
  table reaches has a row, the one with the least place past its offset
  (`ReachedPageHasRows`; `LeastNatural` derives the least number of a set from the
  well-foundedness of `<`). The assumption `PagesAssumption` says that each page has
  a hook.
- `ClientSessionProofs`: `TypeOK`, `AbortedReadsEndOnlyTheirSession`, `UserOwnsToken`,
  `LogoutSticks`. In a tab that no login has strayed from, a login is only on its way while
  its page is open (`AttemptsAreHere`), that page reads nothing (`ReadsAreOfPage`), and what
  an open page reads carries the token of its session, if it still has one
  (`ReadsHaveToken`, which leaves out the read of `/explorar`, as the property does).
  `OwnUsers` adds localStorage, from which a reload may take the session of
  another tab; `QuitInv` says that a tab that logged out has no attempt that could
  open a session again. `RoutesAssumption` says that every path has its route.
- `FormScreensProofs`: `DuplicatesNeedLostReply`, `FormClosesByItself`,
  `CommentsGoWithTheirWork`, `ShownRegistration`. A page waits for one request at most (`OneAtATime`), a
  request whose form its user did not leave is of the form that he still sees (`StayedWithForm`), and an
  open form whose row is written has a page that is still waiting (`OpenFormIsWaiting`):
  so it cannot be sent again, unless the answer was lost (`OneWritePerForm`). Forms and pages are
  numbered in order, which keeps two of them apart. For the page of an event,
  `RegistrationKnown` says of a user who left no page of an event while it wrote and lost no answer: a
  write that is done and not yet answered left the row as it asked (`WritesDone`); what the
  page remembers of its own writes holds unless such a write
  replaces it (`OverrideHolds`); and so does what it loaded (`LoadHolds`). `KeysUnique` keeps one row
  of a key, whatever the checks of the services found before: the commit decides. `CommentInv` says that a comment has its
  work, and `OpsInv` that only filters and registrations are asked to change or to go. `ViewsAssumption` says
  that every view has its screen; `FormAssumption`, that the marker of an absent item is not itself a key.
- `TourPlanProofs`: `TourFitsLimits`, `NothingLeftOut`, `PreferencesOnlyReorder`,
  `ScheduleFollowsVisit`, `EventsAreMet`. The invariant of the handler is `Answered`: the plan
  that it goes on with is the tour of this request, and the events that it answers are those of
  the schedule of that plan. Everything else is about what the services compute, for any
  catalogue, limits, spelling and table of events, along these lemmas:
  - *Induction.* The library's induction theorems take an operator, which the provers
    cannot instantiate. `NumberInduction` and `SetInduction` take the *set* of the good numbers, or
    of the good subsets, instead; they follow from the smallest counterexample, which
    exists because `<` on the numbers, and so the size of finite sets, is well-founded.
  - *Sums.* `MapThenSumSet` chooses one element after another; `SumExists`, `SumsAgree` and
    `DurationEquation` give its recursive equation, and `OneWorkLess` shows that the choice does
    not matter. `DurationOfUnion` and `DurationGrows` are what the rest uses.
  - *Sorting.* `Less` is a strict total order on the keys of one length, so the number of
    smaller keys numbers the elements from 0 without gaps (`SortedPairs`): each element stands once
    in the sorted sequence and the keys ascend. With `Place` as the key, the works of a room
    come without a break (`TourOrder`).
  - *The greedy choice.* `Chosen(W, M, limits)` says that `W`, taken from `M`, is within the limits,
    and that whatever is left of `M` would break one. `TakeKeepsChosen` extends it by one candidate: a work that did
    not fit does not fit later either, because the total with it only grows. The
    cost that `Take` counts, room by room in the order of relevance, is what
    `calculate_total_duration` grows by (`TotalOfOneMore`).
  - *Giving up.* A plan is empty exactly when no matching work fits alone (`NothingChosen`), which
    does not depend on the preferences; so the attempt that ends the fallback does not
    either (`Fallback`).
  - *The walk.* The works between the entries of two rooms are those of a room (`RoomBlocks`), and
    within them the visitor is busy without a break (`StretchTime`); so the walk takes the
    total (`WalkIsTotal`), the time in a room is one interval (`RoomTime`), the rounding of
    `Step` returns one transition exactly (`SpareIsShared`), and the slots are these intervals
    (`ScheduleSlots`). `IntervalsMeet` relates the comparisons of grpc-events to
    minutes in common.

  `TourAssumption` says that works are finitely many, each with an id of its own (the primary key) and
  finitely many topics, that the limits of a valid body are naturals (`validateBody`), and that the
  transition and the durations of events are not negative (`_room_transition_minutes`
  and `_duration_minutes` cut them off at zero); `RoomsAssumption`, that every room of the catalogue
  has a place in the alphabet.

Only model-checked: all liveness (TLAPS does not reason about fairness and
ENABLED): `EveryNewsIsSent`, `Settles`, `ExpiredSessionCloses`, and of the refinements `ImplementsDelivery`,
`EveryMessageIsAudited` and `EveryMessageIsHandled` the part that says that each message is
delivered in the end; their safety part is proved. Every invariant and every action property of a
passing run is a theorem. The three violations are counterexamples and need no proof.

## Abstractions

- Kafka and the client libraries are external: partitions that only grow, committed
  offsets, redelivery of what is not committed, rebalances. Offsets count from 1.
- A message is a model value with its type and event. Parsing and validation are a set of
  messages that they refuse; the columns that MySQL refuses are another.
- The UUID of a message is the request that enqueued it: a request enqueues at most
  one.
- The topic has three partitions; the instances have one, where all the news share
  a log, or two for the consumers, whose loops serve several partitions.
- An answer 401 whose header arrived before its page closed counts as processed just before
  the page closed.
- In `PageLoader` the error that `useSavedFilters` also shows for its writes, the list of
  curators next to the events, and the mark of the opened panel are left out; the section of
  recommendations mounts again when the user changes and is a page of its own here.
- In `ClientSession` the public pages that read through several clients read through one;
  `Paths` has a public page, the login, one page for any session, one for roles, and `/explorar`.
  `/obras` reads with a plain fetch, without token, which ends no session: its route asks nothing
  here; `/recorrido` asks only when its form is sent.
- In `FormScreens` the row of a comment stands for the interaction written with it; the
  reload after a comment, during which the page shows its skeleton, is part of its
  success; a service may also refuse for any reason (`Refuse`), which stands for the
  validations and the capacity; `Home` stands for the pages without a form.
- In `TourPlan` times are minutes from some midnight; `normalize_text` is a table of the names
  that occur; topics are sets, as `parse_topics` makes them; names are compared by their places in
  `Alphabetical`. `Minutes` includes the default of ten minutes and the cut at zero. The query of works selects those
  on exhibition, which the planner checks again.
- Logs, texts and the signatures of tokens are left out.

## Not modelled, and the plan

In this order:

1. Outbox, registrations, consumers, pages, session, forms and tour: done, as above.
2. Proofs of every safety property: done, as above.
3. `NewsPipeline`: outbox, topic and both consumers in one specification, against
   an abstract specification with exactly one effect for each message.
4. Pure algorithms against reference definitions: recommendations and comparison
   (grpc-works), aggregation of the report (backend-graphql).
5. Edits and deletions in the forms of events and comments, the preferences' form.

Not modelled, and why: the attendance report reads twice and writes nothing, and no
text promises one instant; the pools of the gRPC services turn their limit into an error
answer without state; the proxy dispatches without state; backend-graphql, grpc-users and the
other operations of grpc-events answer one query each. The two violations of diffs and of the opened panel that
overlapping updates and late notifications cause (a diff whose `previous` is not the value
its UPDATE replaced; rows marked as read that were never listed) are consequences of the
read-then-write of `updateEvent` and of the two requests of the panel, and have no run.

Out of scope: the cryptography of tokens and passwords, layouts (Excel, pages of the frontend),
generated code and seed data, the proxy's dispatch (stateless).
