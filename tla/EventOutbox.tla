---------------------------- MODULE EventOutbox -----------------------------
(***************************************************************************)
(* The transactional outbox of backend-rest: the write transactions of     *)
(* EventTransactions together with EventOutboxPublisher, the scheduled     *)
(* worker that reads the PENDING rows and sends them to the Kafka topic    *)
(* museum.events, one at a time, and marks each one afterwards.            *)
(*                                                                         *)
(* One poll takes a batch; for each of its rows the worker sends (phase    *)
(* "send"), and then saves either the success ("sent") or the failure      *)
(* ("failed") of that send.  The transactions of EventService run between  *)
(* any two of these steps.  Nothing but the publisher writes an outbox row *)
(* after its insertion, so the entities of the batch are its row ids.      *)
(*                                                                         *)
(* The length of the backoff is left out: a row in backoff becomes due     *)
(* again at some later time.  Failed sends and the other faults (a save    *)
(* that fails, a crash of the process) are each bounded by a constant.     *)
(***************************************************************************)
EXTENDS EventTransactions, Sequences, FiniteSets

CONSTANTS Partitions,       \* partitions of museum.events
          PartitionOf,      \* the partition of each event id, the record's key
          BatchSize,        \* app.kafka.outbox.batch-size
          MaxSendFailures,  \* bound: sends that fail
          MaxFaults         \* bound: failed saves, interruptions and crashes

ASSUME OutboxAssumption == /\ PartitionOf \in [EventIds -> Partitions]
                           /\ BatchSize \in Nat \ {0}
                           /\ MaxSendFailures \in Nat
                           /\ MaxFaults \in Nat

VARIABLES batch,            \* rows of the current poll not yet dealt with
          phase,            \* what the worker does with the first of them
          topic,            \* the partitions of museum.events
          sendFailures,     \* sends that failed so far
          faults            \* other faults so far

workerVars == <<batch, phase>>
vars == <<dbVars, workerVars, topic, sendFailures, faults>>

\* EventNewsMessageDTO
News == [msg : Requests,
         type : NewsTypes,
         event : EventIds,
         content : Contents,
         previous : Contents \cup {None}]

TypeOK == /\ TxTypeOK
          /\ batch \subseteq Requests
          /\ phase \in {"idle", "send", "sent", "failed"}
          /\ topic \in [Partitions -> Seq(News)]
          /\ sendFailures \in 0..MaxSendFailures
          /\ faults \in 0..MaxFaults

Init == /\ TxInit
        /\ batch = {}
        /\ phase = "idle"
        /\ topic = [p \in Partitions |-> <<>>]
        /\ sendFailures = 0
        /\ faults = 0

\* The messages with a copy in the topic, and the places of those copies.
Delivered == {r \in Requests : \E p \in Partitions :
                 \E i \in DOMAIN topic[p] : topic[p][i].msg = r}

Copies(r) == UNION {{p} \X {i \in DOMAIN topic[p] : topic[p][i].msg = r} :
                       p \in Partitions}

-----------------------------------------------------------------------------
(***************************************************************************)
(* publishPending: the due PENDING rows with the lowest ids.               *)
(***************************************************************************)
\* Mutated forms: the status is not in the query; a row is tried only once.
EligibleOfAnyStatus == {r \in Committed : outbox[r].due}
EligibleOnlyOnce == {r \in Committed : /\ outbox[r].status = "PENDING"
                                       /\ outbox[r].due
                                       /\ outbox[r].attempts = 0}

Eligible == {r \in Committed : outbox[r].status = "PENDING" /\ outbox[r].due}

Earlier(S, r) == {q \in S : outbox[q].id < outbox[r].id}

Poll == /\ phase = "idle"
        /\ batch' = {r \in Eligible : Cardinality(Earlier(Eligible, r)) < BatchSize}
        /\ phase' = IF batch' = {} THEN "idle" ELSE "send"
        /\ UNCHANGED <<dbVars, topic, sendFailures, faults>>

\* Mutated form: the query has no ORDER BY id.
AnyOfBatch(r) == r \in batch

\* The loop of publishPending takes the batch in the order of the ids.
FirstOfBatch(r) == r \in batch /\ Earlier(batch, r) = {}

\* The loop goes on with the next row of the batch, or the poll is over.
NextOfBatch(r) == /\ batch' = batch \ {r}
                  /\ phase' = IF batch' = {} THEN "idle" ELSE "send"

-----------------------------------------------------------------------------
(***************************************************************************)
(* publishOne                                                              *)
(***************************************************************************)
\* Mutated form: the message shows the event as it is when it is sent.
CurrentNews(r) == [msg |-> r, type |-> outbox[r].type, event |-> outbox[r].event,
                   content |-> events[outbox[r].event].content,
                   previous |-> outbox[r].previous]

\* EventNewsMessageDTO.fromOutbox
NewsFromOutbox(r) == [msg |-> r, type |-> outbox[r].type, event |-> outbox[r].event,
                      content |-> outbox[r].content,
                      previous |-> outbox[r].previous]

\* The broker appends the record to the partition of its key, the event id.
Land(r) == topic' = [topic EXCEPT ![PartitionOf[outbox[r].event]] =
                        Append(@, NewsFromOutbox(r))]

\* A send whose answer is lost may or may not have reached the broker.
MayLand(r) == Land(r) \/ UNCHANGED topic

SendAcked(r) == /\ phase = "send" /\ FirstOfBatch(r)
                /\ Land(r)
                /\ phase' = "sent"
                /\ UNCHANGED <<dbVars, batch, sendFailures, faults>>

\* The future fails or its 15 seconds pass.
SendFails(r) == /\ phase = "send" /\ FirstOfBatch(r)
                /\ sendFailures < MaxSendFailures
                /\ MayLand(r)
                /\ phase' = "failed"
                /\ sendFailures' = sendFailures + 1
                /\ UNCHANGED <<dbVars, batch, faults>>

\* InterruptedException: publishPending returns and leaves the row as it is.
SendInterrupted(r) == /\ phase = "send" /\ FirstOfBatch(r)
                      /\ faults < MaxFaults
                      /\ MayLand(r)
                      /\ batch' = {} /\ phase' = "idle"
                      /\ faults' = faults + 1
                      /\ UNCHANGED <<dbVars, sendFailures>>

\* Mutated form: the row is marked in memory and not saved.
MarkSentInMemory(r) == /\ phase = "sent" /\ FirstOfBatch(r)
                       /\ NextOfBatch(r)
                       /\ UNCHANGED <<dbVars, topic, sendFailures, faults>>

MarkSent(r) == /\ phase = "sent" /\ FirstOfBatch(r)
               /\ outbox' = [outbox EXCEPT ![r].status = "SENT"]
               /\ NextOfBatch(r)
               /\ UNCHANGED <<events, nextId, tx, topic, sendFailures, faults>>

\* Mutated form: a failed row is marked as sent.
RegisterFailureAsSent(r) ==
    /\ phase = "failed" /\ FirstOfBatch(r)
    /\ outbox' = [outbox EXCEPT ![r].status = "SENT", ![r].attempts = @ + 1]
    /\ NextOfBatch(r)
    /\ UNCHANGED <<events, nextId, tx, topic, sendFailures, faults>>

\* registerFailure: one attempt more, and the row waits for its backoff.
RegisterFailure(r) ==
    /\ phase = "failed" /\ FirstOfBatch(r)
    /\ outbox' = [outbox EXCEPT ![r].attempts = @ + 1, ![r].due = FALSE]
    /\ NextOfBatch(r)
    /\ UNCHANGED <<events, nextId, tx, topic, sendFailures, faults>>

\* The save after a success or a failure fails: it is logged, the row stays.
SaveFails(r) == /\ phase \in {"sent", "failed"} /\ FirstOfBatch(r)
                /\ faults < MaxFaults
                /\ NextOfBatch(r)
                /\ faults' = faults + 1
                /\ UNCHANGED <<dbVars, topic, sendFailures>>

BackoffElapses(r) == /\ outbox[r].status = "PENDING" /\ ~outbox[r].due
                     /\ outbox' = [outbox EXCEPT ![r].due = TRUE]
                     /\ UNCHANGED <<events, nextId, tx, workerVars, topic,
                                    sendFailures, faults>>

\* The process dies and starts again: its transactions roll back, a send may land.
Crash == /\ faults < MaxFaults
         /\ Abort(Requests)
         /\ IF phase = "send"
            THEN \E r \in batch : FirstOfBatch(r) /\ MayLand(r)
            ELSE UNCHANGED topic
         /\ batch' = {} /\ phase' = "idle"
         /\ faults' = faults + 1
         /\ UNCHANGED <<events, outbox, nextId, sendFailures>>

-----------------------------------------------------------------------------
RestStep == TxNext /\ UNCHANGED <<workerVars, topic, sendFailures, faults>>

\* What the worker does when nothing fails.
PublisherProgress ==
    \/ Poll
    \/ \E r \in Requests : SendAcked(r) \/ MarkSent(r) \/ RegisterFailure(r)

Next == \/ RestStep
        \/ PublisherProgress
        \/ \E r \in Requests :
              \/ SendFails(r) \/ SendInterrupted(r) \/ SaveFails(r)
              \/ BackoffElapses(r)
        \/ Crash

Spec == Init /\ [][Next]_vars

(***************************************************************************)
(* @Scheduled with a fixed delay runs the worker for ever, and time passes *)
(* for the rows in backoff.  No request has to arrive or to end.           *)
(***************************************************************************)
FairSpec == /\ Spec
            /\ WF_vars(PublisherProgress)
            /\ \A r \in Requests : WF_vars(BackoffElapses(r))

-----------------------------------------------------------------------------
(***************************************************************************)
(* The inductive invariant behind the safety properties.                   *)
(***************************************************************************)
\* The worker deals with PENDING rows alone.
BatchIsPending == \A r \in batch : outbox[r].status = "PENDING"

Shape == TypeOK /\ TxShape /\ BatchIsPending

\* What open transactions read, or will write back, was announced before.
ReadsAreAnnounced ==
    \A r \in Requests : tx[r].pc \in {"read", "enqueued", "committed"} =>
        /\ tx[r].type = "EVENT_UPDATED" => Announced(tx[r].event, tx[r].read)
        /\ tx[r].type = "EVENT_CANCELLED" => Announced(tx[r].event, tx[r].content)

\* The row whose send was acknowledged is in the topic before it is marked.
AckedIsDelivered ==
    phase = "sent" => \A r \in Requests : FirstOfBatch(r) => r \in Delivered

(***************************************************************************)
(* The one behind OrderWhileSendsSucceed.  A row has a higher id than the  *)
(* ones of its event that were committed before its transaction read it;   *)
(* while no send has failed, every PENDING row is due, so a poll that      *)
(* takes the first takes the others, or finds them in the topic.           *)
(***************************************************************************)
AfterIsEarlier ==
    \A r \in Requests : \A q \in tx[r].after :
        /\ q \in Committed /\ outbox[q].event = tx[r].event
        /\ tx[r].pc \in {"enqueued", "committed"} => outbox[q].id < tx[r].id

NothingInBackoff ==
    phase # "failed" /\ \A r \in Committed : outbox[r].status = "PENDING" => outbox[r].due

BatchInOrder ==
    \A r \in batch : \A q \in tx[r].after : q \in batch \cup Delivered

(***************************************************************************)
(* The one behind DuplicatesNeedFaults.  A message that is in the topic    *)
(* and may be sent again has been paid for by the fault that left its row  *)
(* PENDING.                                                                *)
(***************************************************************************)
AllCopies == UNION {Copies(r) : r \in Requests}

Resendable == {r \in Delivered : /\ outbox[r].status = "PENDING"
                                 /\ ~(phase = "sent" /\ FirstOfBatch(r))}

CopiesPaid ==
    /\ IsFiniteSet(Committed) /\ IsFiniteSet(AllCopies)
    /\ Cardinality(AllCopies) + Cardinality(Resendable)
          <= Cardinality(Delivered) + sendFailures + faults

-----------------------------------------------------------------------------
(***************************************************************************)
(* Properties                                                              *)
(***************************************************************************)
(***************************************************************************)
(* No silent state: whatever content an event has, and its being deleted,  *)
(* was announced by a committed outbox row, whichever way the transactions *)
(* on that event overlapped and rolled back.                               *)
(***************************************************************************)
EventsAreAnnounced ==
    \A e \in EventIds : events[e].status # "absent" =>
        /\ Announced(e, events[e].content)
        /\ events[e].status = "deleted" =>
              \E r \in NewsOf(e) : outbox[r].type = "EVENT_CANCELLED"

(***************************************************************************)
(* Every copy in the topic, a late or repeated one too, is the message of  *)
(* a committed transaction, exactly as it was committed, in the partition  *)
(* of its event: nothing rolled back is published, and the event may have  *)
(* changed in between (javadoc of EventOutboxService).                     *)
(***************************************************************************)
TopicIsCommittedNews ==
    \A p \in Partitions : \A i \in DOMAIN topic[p] :
        LET n == topic[p][i] IN
        /\ tx[n.msg].pc = "committed"
        /\ n = [msg |-> n.msg, type |-> tx[n.msg].type, event |-> tx[n.msg].event,
                content |-> tx[n.msg].content,
                previous |-> IF tx[n.msg].type = "EVENT_UPDATED"
                             THEN tx[n.msg].read ELSE None]
        /\ p = PartitionOf[n.event]

\* A row is SENT only when its message is in the topic (javadoc of EventOutbox).
SentIsDelivered == {r \in Committed : outbox[r].status = "SENT"} \subseteq Delivered

(***************************************************************************)
(* The previous value of an update's diff differs from the new one and is  *)
(* a value the event really had: a reader of the diffs never sees a value  *)
(* that no other message of the event, or the seed, gives it.              *)
(***************************************************************************)
DiffStartsFromAnnounced ==
    \A r \in Committed : outbox[r].type = "EVENT_UPDATED" =>
        /\ outbox[r].previous # outbox[r].content
        /\ Announced(outbox[r].event, outbox[r].previous)

\* Only a fault repeats a message: n faults leave at most n extra copies in all.
DuplicatesNeedFaults ==
    Cardinality(AllCopies) <= Cardinality(Delivered) + sendFailures + faults

(***************************************************************************)
(* While no send has failed, a message is never ahead of one that was      *)
(* committed before its own transaction read the event, whatever crashes   *)
(* and failed saves there were.                                            *)
(***************************************************************************)
OrderedAfter(r, q) ==
    \A p \in Partitions : \A j \in DOMAIN topic[p] :
        topic[p][j].msg = r => \E i \in 1..(j - 1) : topic[p][i].msg = q

OrderPerEvent == \A r \in Requests : \A q \in tx[r].after : OrderedAfter(r, q)

OrderWhileSendsSucceed == sendFailures = 0 => OrderPerEvent

\* The inductive invariant of the order, stated here for it needs OrderPerEvent.
OrderIsKept ==
    AfterIsEarlier /\ (sendFailures = 0 => NothingInBackoff /\ BatchInOrder /\ OrderPerEvent)

(***************************************************************************)
(* The rows keep what their transaction wrote, SENT is final, and a row    *)
(* that is SENT gets no further copy: polls, retries and restarts act on   *)
(* PENDING rows alone.                                                     *)
(***************************************************************************)
SentIsFinal ==
    [][\A r \in Requests : outbox[r].status = "SENT" =>
          outbox'[r] = outbox[r] /\ Copies(r)' = Copies(r)]_vars

\* Every committed message is in the topic and marked in the end.
EveryNewsIsSent ==
    \A r \in Requests : (outbox[r].status = "PENDING") ~> (outbox[r].status = "SENT")

\* The publisher implements at-least-once delivery of the committed messages.
Delivery == INSTANCE NewsDelivery WITH Messages <- Requests,
                                       accepted <- Committed,
                                       delivered <- Delivered

ImplementsDelivery == Delivery!NewsSpec

(***************************************************************************)
(* What the documentation says and the code does not do: OrderPerEvent     *)
(* above (README, item 4 of the outbox), and the next one.                 *)
(***************************************************************************)
\* A deleted event is not listed nor accessible again (javadoc of markDeleted).
DeletedStaysDeleted ==
    [][\A e \in EventIds : events[e].status = "deleted" =>
                           events'[e].status = "deleted"]_vars
=============================================================================
