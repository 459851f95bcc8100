------------------------- MODULE EventTransactions --------------------------
(***************************************************************************)
(* The write side of backend-rest over the tables events and event_outbox: *)
(* EventService.createEvent, updateEvent and deleteEvent, each in one      *)
(* MySQL transaction with the row that EventOutboxService.enqueue adds.    *)
(*                                                                         *)
(* A transaction has three steps that other requests can interleave with:  *)
(*   - it reads the event (a snapshot read: no lock is taken);             *)
(*   - it inserts its outbox row, which takes the next AUTO_INCREMENT id   *)
(*     at once, before anything is visible to others;                      *)
(*   - it commits: Hibernate writes back every column of the entity it     *)
(*     read, is_deleted included (Event has no @Version and no             *)
(*     @DynamicUpdate), and the event and the outbox row become visible    *)
(*     together.                                                           *)
(*                                                                         *)
(* Data abstraction: the seven business fields of an event are one value   *)
(* of Contents; EventFieldChangeDTO's previous/current pairs are the pair  *)
(* (previous, content) of a row.  The UUID messageId of a row is the       *)
(* request that enqueued it, for a request enqueues at most one.           *)
(***************************************************************************)
EXTENDS Naturals

CONSTANTS Requests,       \* write requests, each served by one transaction
          EventIds,       \* the values of events.id
          Contents,       \* what the business fields of an event may hold
          Seeded,         \* events that the database scripts load, with no news
          SeedContent,    \* the content of the seeded events
          None            \* the SQL NULL

ASSUME ConstantsAssumption ==
    /\ Seeded \subseteq EventIds
    /\ SeedContent \in Contents
    /\ None \notin EventIds \cup Contents

VARIABLES events,         \* table events, as committed
          outbox,         \* table event_outbox, as committed, by messageId
          nextId,         \* AUTO_INCREMENT counter of event_outbox
          tx              \* the request's transaction

dbVars == <<events, outbox, nextId, tx>>

NewsTypes == {"EVENT_CREATED", "EVENT_UPDATED", "EVENT_CANCELLED"}

EventRow == [status : {"absent"}, content : {None}]
              \cup [status : {"live", "deleted"}, content : Contents]

OutboxRow == [status : {"none", "PENDING", "SENT"},
              id : Nat,
              type : NewsTypes \cup {None},
              event : EventIds \cup {None},
              content : Contents \cup {None},
              previous : Contents \cup {None},
              attempts : Nat,
              due : BOOLEAN]       \* nextAttemptAt <= now

(***************************************************************************)
(* `after` is a history field: the messages about the same event that were *)
(* committed before the transaction read it.                               *)
(***************************************************************************)
Transaction == [pc : {"new", "read", "enqueued", "committed", "aborted", "done"},
                type : NewsTypes \cup {None},
                event : EventIds \cup {None},
                read : Contents \cup {None},
                content : Contents \cup {None},
                id : Nat,
                after : SUBSET Requests]

NoRow == [status |-> "none", id |-> 0, type |-> None, event |-> None,
          content |-> None, previous |-> None, attempts |-> 0, due |-> FALSE]

NoTransaction == [pc |-> "new", type |-> None, event |-> None, read |-> None,
                  content |-> None, id |-> 0, after |-> {}]

Committed == {r \in Requests : outbox[r].status # "none"}

NewsOf(e) == {r \in Committed : outbox[r].event = e}

(***************************************************************************)
(* The event's content is the seed's or some committed news announced it.  *)
(***************************************************************************)
Announced(e, c) == \/ e \in Seeded /\ c = SeedContent
                   \/ \E r \in NewsOf(e) : /\ outbox[r].content = c
                                           /\ outbox[r].type # "EVENT_CANCELLED"

TxTypeOK == /\ events \in [EventIds -> EventRow]
            /\ outbox \in [Requests -> OutboxRow]
            /\ nextId \in Nat \ {0}
            /\ tx \in [Requests -> Transaction]

TxInit == /\ events = [e \in EventIds |->
                          IF e \in Seeded
                          THEN [status |-> "live", content |-> SeedContent]
                          ELSE [status |-> "absent", content |-> None]]
          /\ outbox = [r \in Requests |-> NoRow]
          /\ nextId = 1
          /\ tx = [r \in Requests |-> NoTransaction]

-----------------------------------------------------------------------------
(***************************************************************************)
(* The three operations, up to the call of enqueue.                        *)
(***************************************************************************)
Begin(r, type, e, read, content) ==
    /\ tx[r].pc = "new"
    /\ tx' = [tx EXCEPT ![r] =
                 [pc |-> "read", type |-> type, event |-> e, read |-> read,
                  content |-> content, id |-> 0, after |-> NewsOf(e)]]
    /\ UNCHANGED <<events, outbox, nextId>>

\* createEvent: the INSERT takes an id no other creation has.
CreateEvent(r, e, c) ==
    /\ events[e].status = "absent"
    /\ \A q \in Requests : tx[q].pc \in {"read", "enqueued"} => tx[q].event # e
    /\ Begin(r, "EVENT_CREATED", e, None, c)

\* updateEvent: only an event that is not deleted is found.
UpdateEvent(r, e, c) ==
    /\ events[e].status = "live"
    /\ c # events[e].content
    /\ Begin(r, "EVENT_UPDATED", e, events[e].content, c)

\* deleteEvent: an event already deleted is left as it is (LeaveUnchanged).
DeleteEvent(r, e) ==
    /\ events[e].status = "live"
    /\ Begin(r, "EVENT_CANCELLED", e, events[e].content, events[e].content)

(***************************************************************************)
(* The answers that change nothing: a 400 for a curator without the role,  *)
(* a 404 for an event that is not there, an update that changes no field,  *)
(* a second deletion.                                                      *)
(***************************************************************************)
LeaveUnchanged(r) ==
    /\ tx[r].pc = "new"
    /\ \E e \in EventIds, c \in Contents, curatorHasRole \in BOOLEAN :
          \/ ~curatorHasRole
          \/ events[e].status # "live"
          \/ c = events[e].content
    /\ tx' = [tx EXCEPT ![r].pc = "done"]
    /\ UNCHANGED <<events, outbox, nextId>>

(***************************************************************************)
(* EventOutboxService.enqueue inside the transaction: the row takes its id *)
(* and stays invisible.                                                    *)
(***************************************************************************)
\* Mutated form: enqueue in a transaction of its own (REQUIRES_NEW).
EnqueueInOwnTransaction(r) ==
    /\ tx[r].pc = "read"
    /\ tx' = [tx EXCEPT ![r].pc = "enqueued", ![r].id = nextId]
    /\ nextId' = nextId + 1
    /\ outbox' = [outbox EXCEPT ![r] =
                     [status |-> "PENDING", id |-> nextId, type |-> tx[r].type,
                      event |-> tx[r].event, content |-> tx[r].content,
                      previous |-> None, attempts |-> 0, due |-> TRUE]]
    /\ UNCHANGED events

Enqueue(r) ==
    /\ tx[r].pc = "read"
    /\ tx' = [tx EXCEPT ![r].pc = "enqueued", ![r].id = nextId]
    /\ nextId' = nextId + 1
    /\ UNCHANGED <<events, outbox>>

-----------------------------------------------------------------------------
\* Mutated forms: EventOutbox.pending keeps the current state as the previous one,
\* or leaves the attempts NULL.
PendingRowWithoutPrevious(t) ==
    [status |-> "PENDING", id |-> t.id, type |-> t.type, event |-> t.event,
     content |-> t.content,
     previous |-> IF t.type = "EVENT_UPDATED" THEN t.content ELSE None,
     attempts |-> 0, due |-> TRUE]

PendingRowWithoutAttempts(t) ==
    [status |-> "PENDING", id |-> t.id, type |-> t.type, event |-> t.event,
     content |-> t.content,
     previous |-> IF t.type = "EVENT_UPDATED" THEN t.read ELSE None,
     attempts |-> None, due |-> TRUE]

\* EventOutbox.pending, with the diff of EventChangeDetector for an update.
PendingRow(t) ==
    [status |-> "PENDING", id |-> t.id, type |-> t.type, event |-> t.event,
     content |-> t.content,
     previous |-> IF t.type = "EVENT_UPDATED" THEN t.read ELSE None,
     attempts |-> 0, due |-> TRUE]

\* The entity that Hibernate flushes: every column, as the transaction holds it.
WrittenRow(t) ==
    [status |-> IF t.type = "EVENT_CANCELLED" THEN "deleted" ELSE "live",
     content |-> t.content]

\* Mutated form: the event is flushed and its outbox row is lost.
CommitWithoutNews(r) ==
    /\ tx[r].pc = "enqueued"
    /\ events' = [events EXCEPT ![tx[r].event] = WrittenRow(tx[r])]
    /\ tx' = [tx EXCEPT ![r].pc = "committed"]
    /\ UNCHANGED <<outbox, nextId>>

Commit(r) ==
    /\ tx[r].pc = "enqueued"
    /\ events' = [events EXCEPT ![tx[r].event] = WrittenRow(tx[r])]
    /\ outbox' = [outbox EXCEPT ![r] = PendingRow(tx[r])]
    /\ tx' = [tx EXCEPT ![r].pc = "committed"]
    /\ UNCHANGED nextId

\* Transactions that end without a trace but a gap in the ids.
Abort(S) == tx' = [r \in Requests |->
                      IF r \in S /\ tx[r].pc \in {"read", "enqueued"}
                      THEN [NoTransaction EXCEPT !.pc = "aborted"]
                      ELSE tx[r]]

Rollback(r) ==
    /\ tx[r].pc \in {"read", "enqueued"}
    /\ Abort({r})
    /\ UNCHANGED <<events, outbox, nextId>>

TxNext == \E r \in Requests :
             \/ \E e \in EventIds, c \in Contents :
                   CreateEvent(r, e, c) \/ UpdateEvent(r, e, c)
             \/ \E e \in EventIds : DeleteEvent(r, e)
             \/ LeaveUnchanged(r)
             \/ Enqueue(r)
             \/ Commit(r)
             \/ Rollback(r)

-----------------------------------------------------------------------------
(***************************************************************************)
(* The inductive invariant of the transactions.  It lets a committed row   *)
(* become SENT: the publisher of EventOutbox does that.                    *)
(***************************************************************************)
\* A row is visible when its transaction committed, and says what that one did.
RowsOfCommitted ==
    \A r \in Requests :
        IF tx[r].pc = "committed"
        THEN /\ outbox[r].status \in {"PENDING", "SENT"}
             /\ outbox[r].id = tx[r].id
             /\ outbox[r].type = tx[r].type
             /\ outbox[r].event = tx[r].event
             /\ outbox[r].content = tx[r].content
             /\ outbox[r].previous = PendingRow(tx[r]).previous
        ELSE outbox[r].status = "none"

\* What a transaction holds once it has read the event.
TransactionsOK ==
    \A r \in Requests : tx[r].pc \in {"read", "enqueued", "committed"} =>
        /\ tx[r].type \in NewsTypes
        /\ tx[r].event \in EventIds
        /\ tx[r].content \in Contents
        /\ tx[r].type = "EVENT_UPDATED" => tx[r].read \in Contents \ {tx[r].content}

\* Every id that was taken is below the counter, and taken once.
IdsAreUnique ==
    \A r \in Requests : tx[r].pc \in {"enqueued", "committed"} =>
        /\ tx[r].id < nextId
        /\ \A q \in Requests : tx[q].pc \in {"enqueued", "committed"} /\ q # r
                                   => tx[q].id # tx[r].id

TxShape == TxTypeOK /\ RowsOfCommitted /\ TransactionsOK /\ IdsAreUnique
=============================================================================
