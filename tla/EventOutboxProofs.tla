------------------------- MODULE EventOutboxProofs --------------------------
(***************************************************************************)
(* Safety of the transactional outbox, for every number of requests,       *)
(* events, partitions, failures and faults, and every batch size.  The     *)
(* first part is about the transactions of EventService alone: what it     *)
(* proves holds with the registrations beside them, too.                   *)
(***************************************************************************)
EXTENDS EventOutbox, FiniteSetTheorems, TLAPS

USE ConstantsAssumption, OutboxAssumption

LEMMA TxShapeInit == TxInit => TxShape
<1> SUFFICES ASSUME TxInit PROVE TxShape
  OBVIOUS
<1> USE ConstantsAssumption DEF TxInit, NoRow, NoTransaction
<1>1. TxTypeOK
  BY DEF TxTypeOK, EventRow, OutboxRow, Transaction, NewsTypes
<1>2. RowsOfCommitted /\ TransactionsOK /\ IdsAreUnique
  BY DEF RowsOfCommitted, TransactionsOK, IdsAreUnique
<1> QED
  BY <1>1, <1>2 DEF TxShape

\* The read step of a transaction preserves the shape.
LEMMA BeginShape ==
  ASSUME TxShape, NEW r \in Requests, NEW type \in NewsTypes, NEW e \in EventIds,
         NEW read \in Contents \cup {None}, NEW content \in Contents,
         type = "EVENT_UPDATED" => read \in Contents \ {content},
         Begin(r, type, e, read, content)
  PROVE  TxShape'
<1> USE DEF Begin, TxShape
<1>1. TxTypeOK'
  BY DEF TxTypeOK, Transaction, NewsOf, Committed
<1>2. RowsOfCommitted'
  BY DEF RowsOfCommitted, TxTypeOK, PendingRow
<1>3. TransactionsOK'
  BY DEF TransactionsOK, TxTypeOK
<1>4. IdsAreUnique'
  BY DEF IdsAreUnique, TxTypeOK
<1> QED
  BY <1>1, <1>2, <1>3, <1>4

LEMMA EnqueueShape ==
  ASSUME TxShape, NEW r \in Requests, Enqueue(r)
  PROVE  TxShape'
<1> USE DEF Enqueue, TxShape
<1>1. TxTypeOK'
  <2>0. tx[r] \in Transaction /\ nextId \in Nat
    BY DEF TxTypeOK
  <2>1. [[tx[r] EXCEPT !.pc = "enqueued"] EXCEPT !.id = nextId] \in Transaction
    BY <2>0 DEF Transaction
  <2>2. tx' \in [Requests -> Transaction]
    BY <2>1 DEF TxTypeOK
  <2> QED
    BY <2>2 DEF TxTypeOK
<1>2. RowsOfCommitted'
  BY DEF RowsOfCommitted, TxTypeOK, PendingRow
<1>3. TransactionsOK'
  BY DEF TransactionsOK, TxTypeOK
<1>4. IdsAreUnique'
  BY DEF IdsAreUnique, TxTypeOK, Transaction
<1> QED
  BY <1>1, <1>2, <1>3, <1>4

LEMMA CommitShape ==
  ASSUME TxShape, NEW r \in Requests, Commit(r)
  PROVE  TxShape'
<1> USE DEF Commit, TxShape
<1>1. tx[r] \in Transaction /\ tx[r].type \in NewsTypes
        /\ tx[r].event \in EventIds /\ tx[r].content \in Contents
  BY DEF TxTypeOK, TransactionsOK
<1>2. WrittenRow(tx[r]) \in EventRow /\ PendingRow(tx[r]) \in OutboxRow
  BY <1>1 DEF WrittenRow, EventRow, PendingRow, OutboxRow, Transaction
<1>3. TxTypeOK'
  <2>1. [tx[r] EXCEPT !.pc = "committed"] \in Transaction
    BY <1>1 DEF Transaction
  <2>2. /\ tx' \in [Requests -> Transaction]
        /\ events' \in [EventIds -> EventRow]
        /\ outbox' \in [Requests -> OutboxRow]
    BY <1>1, <1>2, <2>1 DEF TxTypeOK
  <2> QED
    BY <2>2 DEF TxTypeOK
<1>4. RowsOfCommitted'
  BY DEF RowsOfCommitted, TxTypeOK, PendingRow
<1>5. TransactionsOK'
  BY DEF TransactionsOK, TxTypeOK
<1>6. IdsAreUnique'
  BY DEF IdsAreUnique, TxTypeOK
<1> QED
  BY <1>3, <1>4, <1>5, <1>6

\* Rolling back any transactions leaves the shape of the others.
LEMMA AbortShape ==
  ASSUME TxShape, NEW S \in SUBSET Requests, Abort(S),
         UNCHANGED <<events, outbox, nextId>>
  PROVE  TxShape'
<1> USE DEF Abort, TxShape, NoTransaction
<1>1. TxTypeOK'
  BY DEF TxTypeOK, Transaction
<1>2. \A q \in Requests : tx'[q].pc \in {"read", "enqueued", "committed"} => tx'[q] = tx[q]
  OBVIOUS
<1>3. \A q \in Requests : tx'[q].pc = "committed" <=> tx[q].pc = "committed"
  BY DEF TxTypeOK, Transaction
<1>4. RowsOfCommitted'
  BY <1>2, <1>3 DEF RowsOfCommitted, PendingRow
<1>5. TransactionsOK'
  BY <1>2 DEF TransactionsOK
<1>6. IdsAreUnique'
  BY <1>2 DEF IdsAreUnique
<1> QED
  BY <1>1, <1>4, <1>5, <1>6

(***************************************************************************)
(* Every step of a transaction preserves the shape, and no step of one     *)
(* touches an outbox row that is already there.                            *)
(***************************************************************************)
LEMMA TxShapeStep ==
  ASSUME TxShape, TxNext
  PROVE  /\ TxShape'
         /\ \A q \in Requests : outbox[q].status # "none" => outbox'[q] = outbox[q]
<1>1. PICK r \in Requests :
         \/ \E e \in EventIds, c \in Contents :
               CreateEvent(r, e, c) \/ UpdateEvent(r, e, c)
         \/ \E e \in EventIds : DeleteEvent(r, e)
         \/ LeaveUnchanged(r)
         \/ Enqueue(r)
         \/ Commit(r)
         \/ Rollback(r)
  BY DEF TxNext
<1>2. \A e \in EventIds : events[e].status = "live" => events[e].content \in Contents
  BY DEF TxShape, TxTypeOK, EventRow
<1>3. ASSUME NEW e \in EventIds, NEW c \in Contents, CreateEvent(r, e, c)
      PROVE  TxShape' /\ outbox' = outbox
  BY <1>3, BeginShape, ZenonT(60) DEF CreateEvent, NewsTypes, Begin
<1>4. ASSUME NEW e \in EventIds, NEW c \in Contents, UpdateEvent(r, e, c)
      PROVE  TxShape' /\ outbox' = outbox
  <2>1. events[e].content \in Contents
    BY <1>2, <1>4 DEF UpdateEvent
  <2> QED
    BY <1>4, <2>1, BeginShape, ZenonT(60) DEF UpdateEvent, NewsTypes, Begin
<1>5. ASSUME NEW e \in EventIds, DeleteEvent(r, e)
      PROVE  TxShape' /\ outbox' = outbox
  BY <1>5, <1>2, BeginShape, ZenonT(60) DEF DeleteEvent, NewsTypes, Begin
<1>6. CASE LeaveUnchanged(r)
  <2>1. /\ tx[r].pc = "new"
        /\ tx' = [tx EXCEPT ![r].pc = "done"]
        /\ UNCHANGED <<events, outbox, nextId>>
    BY <1>6 DEF LeaveUnchanged
  <2> USE DEF TxShape
  <2>2. [tx[r] EXCEPT !.pc = "done"] \in Transaction
    <3>1. tx[r] \in Transaction
      BY DEF TxTypeOK
    <3> QED
      BY <3>1 DEF Transaction
  <2>3. TxTypeOK'
    BY <2>1, <2>2 DEF TxTypeOK
  <2>4. RowsOfCommitted'
    BY <2>1 DEF RowsOfCommitted, TxTypeOK, PendingRow
  <2>5. TransactionsOK' /\ IdsAreUnique'
    BY <2>1 DEF TransactionsOK, IdsAreUnique, TxTypeOK
  <2> QED
    BY <2>1, <2>3, <2>4, <2>5
<1>7. CASE Rollback(r)
  BY <1>7, AbortShape DEF Rollback
<1>8. CASE Enqueue(r)
  BY <1>8, EnqueueShape DEF Enqueue
<1>9. CASE Commit(r)
  <2>1. outbox[r].status = "none" /\ outbox' = [outbox EXCEPT ![r] = PendingRow(tx[r])]
    BY <1>9 DEF Commit, TxShape, RowsOfCommitted
  <2> QED
    BY <1>9, <2>1, CommitShape DEF TxShape, TxTypeOK
<1> QED
  BY <1>1, <1>3, <1>4, <1>5, <1>6, <1>7, <1>8, <1>9 DEF LeaveUnchanged, Rollback

-----------------------------------------------------------------------------
LEMMA ShapeInit == Init => Shape
<1> SUFFICES ASSUME Init PROVE Shape
  OBVIOUS
<1>1. TxShape
  BY TxShapeInit DEF Init
<1> QED
  BY <1>1 DEF Init, Shape, TypeOK, TxShape, BatchIsPending

\* The transactions leave the rows of the batch, and the worker, alone.
LEMMA RestShape ==
  ASSUME Shape, TxNext, UNCHANGED <<workerVars, topic, sendFailures, faults>>
  PROVE  Shape'
<1>1. TxShape' /\ \A q \in Requests : outbox[q].status # "none" => outbox'[q] = outbox[q]
  BY TxShapeStep DEF Shape
<1>2. BatchIsPending'
  BY <1>1 DEF Shape, TypeOK, BatchIsPending, workerVars
<1> QED
  BY <1>1, <1>2 DEF Shape, TypeOK, TxShape, workerVars

-----------------------------------------------------------------------------
\* The worker's steps leave the transactions alone and change one row at most.
LEMMA LandShape ==
  ASSUME Shape, NEW r \in Requests, FirstOfBatch(r), MayLand(r)
  PROVE  topic' \in [Partitions -> Seq(News)]
<1>1. tx[r].pc = "committed"
  BY DEF Shape, TxShape, RowsOfCommitted, BatchIsPending, FirstOfBatch
<1>2. NewsFromOutbox(r) \in News
  BY <1>1 DEF NewsFromOutbox, News, Shape, TxShape, RowsOfCommitted, TransactionsOK, TypeOK,
              TxTypeOK, OutboxRow
<1>3. PartitionOf[outbox[r].event] \in Partitions
  BY <1>2 DEF NewsFromOutbox, News
<1>4. \A p \in Partitions : topic[p] \in Seq(News)
  BY DEF Shape, TxShape, TypeOK
<1>5. CASE Land(r)
  BY <1>2, <1>3, <1>4, <1>5 DEF Land, Shape, TxShape, TypeOK
<1> QED
  BY <1>5 DEF MayLand, Shape, TxShape, TypeOK

LEMMA RowShape ==
  ASSUME Shape, NEW r \in Requests, outbox[r].status = "PENDING",
         NEW row \in OutboxRow,
         row.status \in {"PENDING", "SENT"},
         \A f \in {"id", "type", "event", "content", "previous"} : row[f] = outbox[r][f],
         outbox' = [outbox EXCEPT ![r] = row],
         UNCHANGED <<events, nextId, tx>>
  PROVE  TxTypeOK' /\ RowsOfCommitted' /\ TransactionsOK' /\ IdsAreUnique'
<1> USE DEF Shape, TxShape, TypeOK, TxTypeOK
<1>1. TxTypeOK'
  OBVIOUS
<1>2. /\ row.id = outbox[r].id /\ row.type = outbox[r].type
      /\ row.event = outbox[r].event /\ row.content = outbox[r].content
      /\ row.previous = outbox[r].previous
  OBVIOUS
<1>3. RowsOfCommitted'
  BY <1>2 DEF RowsOfCommitted, PendingRow
<1>4. TransactionsOK' /\ IdsAreUnique'
  BY DEF TransactionsOK, IdsAreUnique
<1> QED
  BY <1>1, <1>3, <1>4

LEMMA ShapeStep == Shape /\ [Next]_vars => Shape'
<1> SUFFICES ASSUME Shape, [Next]_vars PROVE Shape'
  OBVIOUS
<1> USE DEF Shape, TxShape, TypeOK, vars, dbVars, workerVars
<1>1. CASE RestStep
  BY <1>1, RestShape DEF RestStep
<1>2. CASE Poll
  <2>1. batch' \subseteq Requests /\ \A r \in batch' : outbox[r].status = "PENDING"
    BY <1>2 DEF Poll, Eligible, Committed
  <2> QED
    BY <1>2, <2>1 DEF Poll, TxTypeOK, RowsOfCommitted, TransactionsOK, IdsAreUnique,
                      BatchIsPending, PendingRow
<1>3. ASSUME NEW r \in Requests, SendAcked(r) PROVE Shape'
  <2>1. topic' \in [Partitions -> Seq(News)]
    BY <1>3, LandShape DEF SendAcked, MayLand
  <2> QED
    BY <1>3, <2>1 DEF SendAcked, TxTypeOK, RowsOfCommitted, TransactionsOK,
                      IdsAreUnique, BatchIsPending, PendingRow
<1>4. ASSUME NEW r \in Requests, SendFails(r) PROVE Shape'
  <2>1. topic' \in [Partitions -> Seq(News)]
    BY <1>4, LandShape DEF SendFails
  <2> QED
    BY <1>4, <2>1 DEF SendFails, TxTypeOK, RowsOfCommitted, TransactionsOK,
                      IdsAreUnique, BatchIsPending, PendingRow
<1>5. ASSUME NEW r \in Requests, SendInterrupted(r) PROVE Shape'
  <2>1. topic' \in [Partitions -> Seq(News)]
    BY <1>5, LandShape DEF SendInterrupted
  <2> QED
    BY <1>5, <2>1 DEF SendInterrupted, TxTypeOK, RowsOfCommitted, TransactionsOK,
                      IdsAreUnique, BatchIsPending, PendingRow
<1>6. ASSUME NEW r \in Requests, MarkSent(r) PROVE Shape'
  <2> DEFINE row == [outbox[r] EXCEPT !.status = "SENT"]
  <2>1. outbox[r].status = "PENDING" /\ outbox[r] \in OutboxRow
    BY <1>6 DEF MarkSent, FirstOfBatch, BatchIsPending, TxTypeOK
  <2>2. /\ row \in OutboxRow /\ row.status = "SENT"
        /\ \A f \in {"id", "type", "event", "content", "previous"} :
              row[f] = outbox[r][f]
    BY <2>1 DEF OutboxRow
  <2>3. TxTypeOK' /\ RowsOfCommitted' /\ TransactionsOK' /\ IdsAreUnique'
    BY <1>6, <2>1, <2>2, RowShape DEF MarkSent
  <2>4. BatchIsPending'
    BY <1>6 DEF MarkSent, NextOfBatch, BatchIsPending, TxTypeOK
  <2> QED
    BY <1>6, <2>3, <2>4 DEF MarkSent, NextOfBatch
<1>7. ASSUME NEW r \in Requests, RegisterFailure(r) PROVE Shape'
  <2> DEFINE row == [outbox[r] EXCEPT !.attempts = @ + 1, !.due = FALSE]
  <2>1. outbox[r].status = "PENDING" /\ outbox[r] \in OutboxRow
    BY <1>7 DEF RegisterFailure, FirstOfBatch, BatchIsPending, TxTypeOK
  <2>2. /\ row \in OutboxRow /\ row.status = "PENDING"
        /\ \A f \in {"id", "type", "event", "content", "previous"} :
              row[f] = outbox[r][f]
    <3> DEFINE tried == [outbox[r] EXCEPT !.attempts = @ + 1]
    <3>1. outbox[r].attempts + 1 \in Nat
      BY <2>1 DEF OutboxRow
    <3>2. /\ tried \in OutboxRow /\ tried.status = "PENDING"
          /\ \A f \in {"id", "type", "event", "content", "previous"} :
                tried[f] = outbox[r][f]
      BY <2>1, <3>1 DEF OutboxRow
    <3>3. row = [tried EXCEPT !.due = FALSE]
      OBVIOUS
    <3> HIDE DEF tried, row
    <3> QED
      BY <3>2, <3>3 DEF OutboxRow
  <2>5. outbox' = [outbox EXCEPT ![r] = row]
    BY <1>7 DEF RegisterFailure
  <2>3. TxTypeOK' /\ RowsOfCommitted' /\ TransactionsOK' /\ IdsAreUnique'
    BY <1>7, <2>1, <2>2, <2>5, RowShape DEF RegisterFailure
  <2>4. BatchIsPending'
    BY <1>7 DEF RegisterFailure, NextOfBatch, BatchIsPending, TxTypeOK
  <2> QED
    BY <1>7, <2>3, <2>4 DEF RegisterFailure, NextOfBatch
<1>8. ASSUME NEW r \in Requests, SaveFails(r) PROVE Shape'
  BY <1>8 DEF SaveFails, NextOfBatch, TxTypeOK, RowsOfCommitted, TransactionsOK,
              IdsAreUnique, BatchIsPending, PendingRow
<1>9. ASSUME NEW r \in Requests, BackoffElapses(r) PROVE Shape'
  <2> DEFINE row == [outbox[r] EXCEPT !.due = TRUE]
  <2>1. outbox[r].status = "PENDING" /\ outbox[r] \in OutboxRow
    BY <1>9 DEF BackoffElapses, TxTypeOK
  <2>2. /\ row \in OutboxRow /\ row.status = "PENDING"
        /\ \A f \in {"id", "type", "event", "content", "previous"} :
              row[f] = outbox[r][f]
    BY <2>1 DEF OutboxRow
  <2>3. TxTypeOK' /\ RowsOfCommitted' /\ TransactionsOK' /\ IdsAreUnique'
    BY <1>9, <2>1, <2>2, RowShape DEF BackoffElapses
  <2>4. BatchIsPending'
    BY <1>9 DEF BackoffElapses, BatchIsPending, TxTypeOK
  <2> QED
    BY <1>9, <2>3, <2>4 DEF BackoffElapses
<1>10. CASE Crash
  <2>1. TxTypeOK' /\ RowsOfCommitted' /\ TransactionsOK' /\ IdsAreUnique'
    <3>1. Abort(Requests) /\ UNCHANGED <<events, outbox, nextId>>
      BY <1>10 DEF Crash
    <3> QED
      BY <3>1, AbortShape DEF Shape, TxShape
  <2>2. topic' \in [Partitions -> Seq(News)]
    <3>1. CASE phase = "send"
      <4>1. PICK r \in batch : FirstOfBatch(r) /\ MayLand(r)
        BY <1>10, <3>1 DEF Crash
      <4> QED
        BY <4>1, LandShape DEF Shape, TxShape
    <3> QED
      BY <1>10, <3>1 DEF Crash
  <2> QED
    BY <1>10, <2>1, <2>2 DEF Crash, BatchIsPending
<1>11. CASE UNCHANGED vars
  BY <1>11 DEF TxTypeOK, RowsOfCommitted, TransactionsOK, IdsAreUnique,
               BatchIsPending, PendingRow
<1> QED
  BY <1>1, <1>2, <1>3, <1>4, <1>5, <1>6, <1>7, <1>8, <1>9, <1>10, <1>11
     DEF Next, PublisherProgress

(***************************************************************************)
(* Type correctness: the tables, the worker and the topic keep their types *)
(* whatever transactions, failures, restarts and retries interleave.       *)
(***************************************************************************)
THEOREM TypeCorrect == Spec => []TypeOK
<1>1. Shape => TypeOK
  BY DEF Shape, TxShape
<1> QED
  BY <1>1, ShapeInit, ShapeStep, PTL DEF Spec

-----------------------------------------------------------------------------
(***************************************************************************)
(* A visible row stays visible and keeps the news it carries.              *)
(***************************************************************************)
SameNews(r) == /\ outbox'[r].status # "none"
               /\ outbox'[r].id = outbox[r].id
               /\ outbox'[r].type = outbox[r].type
               /\ outbox'[r].event = outbox[r].event
               /\ outbox'[r].content = outbox[r].content
               /\ outbox'[r].previous = outbox[r].previous

LEMMA RowsPersist == Shape /\ [Next]_vars => \A r \in Committed : SameNews(r)
<1> SUFFICES ASSUME Shape, [Next]_vars, NEW r \in Requests, outbox[r].status # "none"
             PROVE  SameNews(r)
  BY DEF Committed
<1> USE DEF SameNews, vars, dbVars
<1>1. outbox \in [Requests -> OutboxRow] /\ outbox[r] \in OutboxRow
  BY DEF Shape, TxShape, TypeOK, TxTypeOK
<1>2. tx[r].pc = "committed"
  BY DEF Shape, TxShape, RowsOfCommitted
<1>3. CASE UNCHANGED outbox
  BY <1>3
<1>4. ASSUME NEW q \in Requests, Commit(q) PROVE SameNews(r)
  BY <1>1, <1>2, <1>4 DEF Commit
<1>5. ASSUME NEW q \in Requests, MarkSent(q) PROVE SameNews(r)
  BY <1>1, <1>5 DEF MarkSent, OutboxRow
<1>6. ASSUME NEW q \in Requests, RegisterFailure(q) PROVE SameNews(r)
  BY <1>1, <1>6 DEF RegisterFailure, OutboxRow
<1>7. ASSUME NEW q \in Requests, BackoffElapses(q) PROVE SameNews(r)
  BY <1>1, <1>7 DEF BackoffElapses, OutboxRow
<1>8. TxNext => UNCHANGED outbox \/ \E q \in Requests : Commit(q)
  BY DEF TxNext, CreateEvent, UpdateEvent, DeleteEvent, Begin, LeaveUnchanged, Enqueue,
         Rollback
<1> QED
  BY <1>3, <1>4, <1>5, <1>6, <1>7, <1>8
     DEF Next, RestStep, PublisherProgress, Poll, SendAcked, SendFails,
         SendInterrupted, SaveFails, Crash

LEMMA AnnouncedPersists ==
  ASSUME Shape, [Next]_vars, NEW e \in EventIds, NEW c, Announced(e, c)
  PROVE  Announced(e, c)'
<1>1. CASE e \in Seeded /\ c = SeedContent
  BY <1>1 DEF Announced
<1>2. ASSUME NEW r \in NewsOf(e), outbox[r].content = c,
             outbox[r].type # "EVENT_CANCELLED"
      PROVE  Announced(e, c)'
  BY <1>2, RowsPersist DEF Announced, NewsOf, Committed, SameNews
<1> QED
  BY <1>1, <1>2 DEF Announced

Announcement == EventsAreAnnounced /\ ReadsAreAnnounced

\* A step either keeps the data of a transaction or is the step that reads it.
LEMMA TransactionsPersist ==
  ASSUME Shape, [Next]_vars, NEW r \in Requests,
         tx'[r].pc \in {"read", "enqueued", "committed"}
  PROVE  \/ /\ tx[r].pc \in {"read", "enqueued", "committed"}
            /\ tx'[r].type = tx[r].type /\ tx'[r].event = tx[r].event
            /\ tx'[r].read = tx[r].read /\ tx'[r].content = tx[r].content
         \/ /\ UNCHANGED outbox
            /\ tx'[r].event \in EventIds
            /\ tx'[r].type \in {"EVENT_UPDATED", "EVENT_CANCELLED"} =>
                  /\ events[tx'[r].event].status = "live"
                  /\ tx'[r].read = events[tx'[r].event].content
            /\ tx'[r].type = "EVENT_CANCELLED" => tx'[r].content = tx'[r].read
<1> DEFINE Kept == /\ tx[r].pc \in {"read", "enqueued", "committed"}
                   /\ tx'[r].type = tx[r].type /\ tx'[r].event = tx[r].event
                   /\ tx'[r].read = tx[r].read /\ tx'[r].content = tx[r].content
           Fresh == /\ UNCHANGED outbox
                    /\ tx'[r].event \in EventIds
                    /\ tx'[r].type \in {"EVENT_UPDATED", "EVENT_CANCELLED"} =>
                          /\ events[tx'[r].event].status = "live"
                          /\ tx'[r].read = events[tx'[r].event].content
                    /\ tx'[r].type = "EVENT_CANCELLED" => tx'[r].content = tx'[r].read
<1>1. tx \in [Requests -> Transaction] /\ tx[r] \in Transaction
  BY DEF Shape, TxShape, TypeOK, TxTypeOK
<1>2. CASE UNCHANGED tx
  BY <1>2
<1>3. ASSUME NEW q \in Requests, NEW e \in EventIds, NEW c \in Contents,
             CreateEvent(q, e, c) \/ UpdateEvent(q, e, c)
      PROVE  Kept \/ Fresh
  BY <1>1, <1>3 DEF CreateEvent, UpdateEvent, Begin
<1>4. ASSUME NEW q \in Requests, LeaveUnchanged(q) PROVE Kept
  BY <1>1, <1>4 DEF LeaveUnchanged, Transaction
<1>5. ASSUME NEW q \in Requests, Enqueue(q) PROVE Kept
  BY <1>1, <1>5 DEF Enqueue, Transaction
<1>6. ASSUME NEW q \in Requests, Commit(q) PROVE Kept
  BY <1>1, <1>6 DEF Commit, Transaction
<1>7. ASSUME NEW S \in SUBSET Requests, Abort(S) PROVE Kept
  BY <1>1, <1>7 DEF Abort, NoTransaction
<1>8. ASSUME NEW q \in Requests, NEW e \in EventIds, DeleteEvent(q, e)
      PROVE  Kept \/ Fresh
  BY <1>1, <1>8 DEF DeleteEvent, Begin
<1>9. CASE TxNext
  BY <1>3, <1>4, <1>5, <1>6, <1>7, <1>8, <1>9 DEF TxNext, Rollback
<1> QED
  BY <1>2, <1>7, <1>9
     DEF Next, RestStep, PublisherProgress, Poll, SendAcked, SendFails, SendInterrupted,
         MarkSent, RegisterFailure, SaveFails, BackoffElapses, Crash, vars, dbVars

LEMMA AnnouncementStep ==
  Shape /\ Announcement /\ [Next]_vars => Announcement'
<1> SUFFICES ASSUME Shape, EventsAreAnnounced, ReadsAreAnnounced, [Next]_vars
             PROVE  EventsAreAnnounced' /\ ReadsAreAnnounced'
  BY DEF Announcement
<1>1. EventsAreAnnounced'
  <2> SUFFICES ASSUME NEW e \in EventIds, events'[e].status # "absent"
               PROVE  /\ Announced(e, events[e].content)'
                      /\ events'[e].status = "deleted" =>
                            \E r \in NewsOf(e)' : outbox'[r].type = "EVENT_CANCELLED"
    BY DEF EventsAreAnnounced
  <2>1. CASE events'[e] = events[e]
    <3>1. Announced(e, events[e].content)'
      BY <2>1, AnnouncedPersists DEF EventsAreAnnounced
    <3>2. \A r \in NewsOf(e) : r \in NewsOf(e)' /\ outbox'[r].type = outbox[r].type
      BY RowsPersist DEF NewsOf, Committed, SameNews
    <3> QED
      BY <2>1, <3>1, <3>2 DEF EventsAreAnnounced
  <2>2. ASSUME NEW r \in Requests, Commit(r), tx[r].event = e
        PROVE  /\ Announced(e, events[e].content)'
               /\ events'[e].status = "deleted" =>
                     \E q \in NewsOf(e)' : outbox'[q].type = "EVENT_CANCELLED"
    <3>1. /\ tx[r].pc = "enqueued" /\ tx[r].type \in NewsTypes
          /\ outbox'[r] = PendingRow(tx[r]) /\ events'[e] = WrittenRow(tx[r])
      BY <2>2 DEF Commit, Shape, TxShape, TransactionsOK, TypeOK, TxTypeOK
    <3>2. /\ r \in NewsOf(e)'
          /\ outbox'[r].type = tx[r].type /\ outbox'[r].content = tx[r].content
      BY <2>2, <3>1 DEF NewsOf, Committed, PendingRow
    <3>3. events'[e].content = tx[r].content
             /\ (events'[e].status = "deleted" => tx[r].type = "EVENT_CANCELLED")
      BY <3>1 DEF WrittenRow
    <3>4. ASSUME NEW c, c = tx[r].content PROVE Announced(e, c)'
      <4>1. CASE tx[r].type = "EVENT_CANCELLED"
        BY <2>2, <3>1, <3>4, <4>1, AnnouncedPersists DEF ReadsAreAnnounced
      <4>2. CASE tx[r].type # "EVENT_CANCELLED"
        BY <3>2, <3>4, <4>2 DEF Announced
      <4> QED
        BY <4>1, <4>2
    <3> QED
      BY <3>2, <3>3, <3>4 DEF Announced
  <2>3. events'[e] = events[e] \/ \E r \in Requests : Commit(r) /\ tx[r].event = e
    <3>1. TxNext => UNCHANGED events \/ \E r \in Requests : Commit(r)
      BY DEF TxNext, CreateEvent, UpdateEvent, DeleteEvent, Begin, LeaveUnchanged,
             Enqueue, Rollback
    <3>2. \A r \in Requests : Commit(r) /\ tx[r].event # e => events'[e] = events[e]
      BY DEF Commit, Shape, TxShape, TypeOK, TxTypeOK
    <3>3. UNCHANGED events \/ TxNext
      BY DEF Next, RestStep, PublisherProgress, Poll, SendAcked, SendFails,
             SendInterrupted, MarkSent, RegisterFailure, SaveFails, BackoffElapses,
             Crash, vars, dbVars
    <3> QED
      BY <3>1, <3>2, <3>3
  <2> QED
    BY <2>1, <2>2, <2>3
<1>2. ReadsAreAnnounced'
  <2> SUFFICES ASSUME NEW r \in Requests,
                      tx'[r].pc \in {"read", "enqueued", "committed"}
               PROVE  /\ tx'[r].type = "EVENT_UPDATED" => Announced(tx[r].event, tx[r].read)'
                      /\ tx'[r].type = "EVENT_CANCELLED" =>
                            Announced(tx[r].event, tx[r].content)'
    BY DEF ReadsAreAnnounced
  <2>1. tx'[r].event \in EventIds
    BY TransactionsPersist DEF Shape, TxShape, TransactionsOK
  <2>2. /\ tx'[r].type = "EVENT_UPDATED" => Announced(tx'[r].event, tx'[r].read)
        /\ tx'[r].type = "EVENT_CANCELLED" => Announced(tx'[r].event, tx'[r].content)
    BY TransactionsPersist DEF ReadsAreAnnounced, EventsAreAnnounced
  <2>3. \A c : Announced(tx'[r].event, c) => Announced(tx[r].event, c)'
    BY <2>1, AnnouncedPersists DEF Announced
  <2> QED
    BY <2>2, <2>3
<1> QED
  BY <1>1, <1>2

LEMMA AnnouncementInit == Init => Announcement
BY DEF Init, TxInit, NoRow, NoTransaction, Announcement, EventsAreAnnounced,
       ReadsAreAnnounced, Announced

(***************************************************************************)
(* No silent state: under every interleaving of creations, updates,        *)
(* deletions, rollbacks and crashes, the content of each event and its     *)
(* deletion were announced by a committed outbox row.                      *)
(***************************************************************************)
THEOREM EventsAlwaysAnnounced == Spec => []EventsAreAnnounced
<1>1. Shape /\ Announcement => EventsAreAnnounced
  BY DEF Announcement
<1> QED
  BY <1>1, ShapeInit, ShapeStep, AnnouncementInit, AnnouncementStep, PTL DEF Spec

(***************************************************************************)
(* The diff of every update starts from a value that was announced.        *)
(***************************************************************************)
THEOREM DiffsStartFromAnnounced == Spec => []DiffStartsFromAnnounced
<1>1. Shape /\ Announcement => DiffStartsFromAnnounced
  BY DEF Shape, TxShape, Announcement, RowsOfCommitted, TransactionsOK, ReadsAreAnnounced,
         DiffStartsFromAnnounced, Committed, PendingRow
<1> QED
  BY <1>1, ShapeInit, ShapeStep, AnnouncementInit, AnnouncementStep, PTL DEF Spec

-----------------------------------------------------------------------------
(***************************************************************************)
(* The topic only grows, by the news of the row that is being sent.        *)
(***************************************************************************)
LEMMA TopicGrows ==
  ASSUME Shape, [Next]_vars
  PROVE  UNCHANGED topic \/ \E r \in batch : phase = "send" /\ FirstOfBatch(r) /\ Land(r)
<1>1. \A r \in Requests : FirstOfBatch(r) => r \in batch
  BY DEF FirstOfBatch
<1> QED
  BY <1>1 DEF Next, RestStep, PublisherProgress, Poll, SendAcked, SendFails, SendInterrupted,
              MarkSent, RegisterFailure, SaveFails, BackoffElapses, Crash, MayLand, vars

LEMMA LandAppends ==
  ASSUME Shape, NEW r \in batch, Land(r)
  PROVE  /\ PartitionOf[outbox[r].event] \in Partitions
         /\ \A p \in Partitions :
               /\ \A i \in DOMAIN topic[p] : i \in DOMAIN topic'[p]
                                                /\ topic'[p][i] = topic[p][i]
               /\ \A i \in DOMAIN topic'[p] :
                     \/ i \in DOMAIN topic[p]
                     \/ /\ p = PartitionOf[outbox[r].event]
                        /\ topic'[p][i] = NewsFromOutbox(r)
         /\ \E i \in DOMAIN topic'[PartitionOf[outbox[r].event]] :
               topic'[PartitionOf[outbox[r].event]][i] = NewsFromOutbox(r)
<1> DEFINE k == PartitionOf[outbox[r].event]
           n == NewsFromOutbox(r)
<1>1. r \in Requests /\ outbox[r].event \in EventIds
  BY DEF Shape, TxShape, TypeOK, BatchIsPending, RowsOfCommitted, TransactionsOK
<1>2. n \in News
  BY <1>1 DEF NewsFromOutbox, News, Shape, TxShape, RowsOfCommitted, TransactionsOK, TypeOK,
              TxTypeOK, OutboxRow, BatchIsPending
<1>3. k \in Partitions /\ topic \in [Partitions -> Seq(News)]
  BY <1>1 DEF Shape, TxShape, TypeOK
<1>4. topic'[k] = Append(topic[k], n) /\ \A p \in Partitions \ {k} : topic'[p] = topic[p]
  BY <1>3 DEF Land
<1>5. /\ DOMAIN topic'[k] = 1..(Len(topic[k]) + 1) /\ DOMAIN topic[k] = 1..Len(topic[k])
      /\ Len(topic[k]) \in Nat
      /\ topic'[k][Len(topic[k]) + 1] = n
      /\ \A i \in 1..Len(topic[k]) : topic'[k][i] = topic[k][i]
  <2> HIDE DEF k, n
  <2>1. topic[k] \in Seq(News)
    BY <1>3
  <2> QED
    BY <1>2, <1>4, <2>1
<1> HIDE DEF k, n
<1>6. /\ \A i \in DOMAIN topic[k] : i \in DOMAIN topic'[k] /\ topic'[k][i] = topic[k][i]
      /\ \A i \in DOMAIN topic'[k] : i \in DOMAIN topic[k] \/ topic'[k][i] = n
      /\ \E i \in DOMAIN topic'[k] : topic'[k][i] = n
  BY <1>5
<1>7. \A p \in Partitions :
         /\ \A i \in DOMAIN topic[p] : i \in DOMAIN topic'[p] /\ topic'[p][i] = topic[p][i]
         /\ \A i \in DOMAIN topic'[p] : i \in DOMAIN topic[p] \/ (p = k /\ topic'[p][i] = n)
  BY <1>4, <1>6
<1> QED
  BY <1>3, <1>6, <1>7 DEF k, n

LEMMA LandDelivers ==
  ASSUME Shape, NEW r \in batch, Land(r)
  PROVE  /\ Delivered' = Delivered \cup {r}
         /\ \A q \in Requests \ {r} : Copies(q)' = Copies(q)
<1>1. r \in Requests /\ NewsFromOutbox(r).msg = r
  BY DEF Shape, TxShape, TypeOK, NewsFromOutbox
<1>2. Delivered' = Delivered \cup {r}
  BY <1>1, LandAppends DEF Delivered
<1>3. ASSUME NEW q \in Requests \ {r} PROVE Copies(q)' = Copies(q)
  <2>1. \A p \in Partitions :
           {i \in DOMAIN topic'[p] : topic'[p][i].msg = q}
             = {i \in DOMAIN topic[p] : topic[p][i].msg = q}
    BY <1>1, LandAppends
  <2> QED
    BY <2>1 DEF Copies
<1> QED
  BY <1>2, <1>3

LEMMA CommittedStays ==
  ASSUME Shape, [Next]_vars, NEW r \in Requests, tx[r].pc = "committed"
  PROVE  tx'[r] = tx[r]
<1>1. tx \in [Requests -> Transaction]
  BY DEF Shape, TxShape, TypeOK, TxTypeOK
<1>2. TxNext => tx'[r] = tx[r]
  BY <1>1 DEF TxNext, CreateEvent, UpdateEvent, DeleteEvent, Begin, LeaveUnchanged,
              Enqueue, Commit, Rollback, Abort
<1>3. Crash => tx'[r] = tx[r]
  BY <1>1 DEF Crash, Abort
<1> QED
  BY <1>2, <1>3
     DEF Next, RestStep, PublisherProgress, Poll, SendAcked, SendFails, SendInterrupted,
         MarkSent, RegisterFailure, SaveFails, BackoffElapses, vars, dbVars

LEMMA TopicStep ==
  Shape /\ TopicIsCommittedNews /\ [Next]_vars => TopicIsCommittedNews'
<1> SUFFICES ASSUME Shape, TopicIsCommittedNews, [Next]_vars,
                    NEW p \in Partitions, NEW i \in DOMAIN topic'[p]
             PROVE  LET n == topic'[p][i] IN
                    /\ tx'[n.msg].pc = "committed"
                    /\ n = [msg |-> n.msg, type |-> tx'[n.msg].type,
                            event |-> tx'[n.msg].event, content |-> tx'[n.msg].content,
                            previous |-> IF tx'[n.msg].type = "EVENT_UPDATED"
                                         THEN tx'[n.msg].read ELSE None]
                    /\ p = PartitionOf[n.event]
  BY DEF TopicIsCommittedNews
<1>1. CASE i \in DOMAIN topic[p] /\ topic'[p][i] = topic[p][i]
  <2>1. topic[p][i].msg \in Requests
    <3>1. topic[p] \in Seq(News)
      BY DEF Shape, TxShape, TypeOK
    <3>2. topic[p][i] \in News
      BY <1>1, <3>1
    <3> QED
      BY <3>2 DEF News
  <2>2. tx[topic[p][i].msg].pc = "committed"
    BY <1>1 DEF TopicIsCommittedNews
  <2>3. tx'[topic[p][i].msg] = tx[topic[p][i].msg]
    BY <2>1, <2>2, CommittedStays
  <2> DEFINE m == topic[p][i]
  <2>4. /\ m = [msg |-> m.msg, type |-> tx[m.msg].type, event |-> tx[m.msg].event,
                content |-> tx[m.msg].content,
                previous |-> IF tx[m.msg].type = "EVENT_UPDATED"
                             THEN tx[m.msg].read ELSE None]
        /\ p = PartitionOf[m.event]
    BY <1>1, ZenonT(60) DEF TopicIsCommittedNews
  <2>5. topic'[p][i] = m /\ tx'[m.msg] = tx[m.msg]
    BY <1>1, <2>3
  <2> HIDE DEF m
  <2>6. tx'[m.msg].pc = "committed"
    BY <2>2, <2>5 DEF m
  <2> QED
    BY <2>4, <2>5, <2>6
<1>2. ASSUME NEW r \in batch, Land(r), p = PartitionOf[outbox[r].event],
             topic'[p][i] = NewsFromOutbox(r)
      PROVE  LET n == topic'[p][i] IN
             /\ tx'[n.msg].pc = "committed"
             /\ n = [msg |-> n.msg, type |-> tx'[n.msg].type,
                     event |-> tx'[n.msg].event, content |-> tx'[n.msg].content,
                     previous |-> IF tx'[n.msg].type = "EVENT_UPDATED"
                                  THEN tx'[n.msg].read ELSE None]
             /\ p = PartitionOf[n.event]
  <2>1. r \in Requests /\ tx[r].pc = "committed"
    BY DEF Shape, TxShape, TypeOK, BatchIsPending, RowsOfCommitted
  <2>2. tx'[r] = tx[r]
    BY <2>1, CommittedStays
  <2> QED
    BY <1>2, <2>1, <2>2, SMTT(30) DEF NewsFromOutbox, Shape, TxShape, RowsOfCommitted, PendingRow
<1>3. ASSUME NEW r \in batch, Land(r)
      PROVE  \/ i \in DOMAIN topic[p] /\ topic'[p][i] = topic[p][i]
             \/ p = PartitionOf[outbox[r].event] /\ topic'[p][i] = NewsFromOutbox(r)
  BY <1>3, LandAppends
<1>4. CASE UNCHANGED topic
  BY <1>1, <1>4
<1>5. CASE \E r \in batch : Land(r)
  <2> PICK r \in batch : Land(r)
    BY <1>5
  <2> QED
    BY <1>1, <1>2, <1>3
<1> QED
  BY <1>4, <1>5, TopicGrows

(***************************************************************************)
(* What the topic holds, first copies and repeated ones, is what committed *)
(* transactions enqueued: unchanged since then, and in their event's       *)
(* partition.                                                              *)
(***************************************************************************)
THEOREM TopicHoldsCommittedNews == Spec => []TopicIsCommittedNews
<1>1. Init => TopicIsCommittedNews
  BY DEF Init, TopicIsCommittedNews
<1> QED
  BY <1>1, ShapeInit, ShapeStep, TopicStep, PTL DEF Spec

-----------------------------------------------------------------------------
SendInv == SentIsDelivered /\ AckedIsDelivered

LEMMA FirstIsUnique ==
  ASSUME Shape, NEW r \in Requests, NEW q \in Requests, FirstOfBatch(r), FirstOfBatch(q)
  PROVE  r = q
<1>1. tx[r].pc = "committed" /\ tx[q].pc = "committed"
  BY DEF FirstOfBatch, Shape, TxShape, BatchIsPending, RowsOfCommitted
<1>2. outbox[r].id = tx[r].id /\ outbox[q].id = tx[q].id
  BY <1>1 DEF Shape, TxShape, RowsOfCommitted
<1>3. ~(outbox[q].id < outbox[r].id) /\ ~(outbox[r].id < outbox[q].id)
  BY DEF FirstOfBatch, Earlier
<1>4. outbox[q].id \in Nat /\ outbox[r].id \in Nat
  BY DEF Shape, TxShape, TypeOK, TxTypeOK, OutboxRow
<1> QED
  BY <1>1, <1>2, <1>3, <1>4 DEF Shape, TxShape, IdsAreUnique

LEMMA DeliveredGrows ==
  ASSUME Shape, [Next]_vars
  PROVE  Delivered \subseteq Delivered'
<1>1. UNCHANGED topic => Delivered' = Delivered
  BY DEF Delivered
<1> QED
  BY <1>1, TopicGrows, LandDelivers

LEMMA SendStep == Shape /\ SendInv /\ [Next]_vars => SendInv'
<1> SUFFICES ASSUME Shape, SentIsDelivered, AckedIsDelivered, [Next]_vars
             PROVE  SentIsDelivered' /\ AckedIsDelivered'
  BY DEF SendInv
<1>0. outbox \in [Requests -> OutboxRow]
  BY DEF Shape, TxShape, TypeOK, TxTypeOK
<1>1. SentIsDelivered'
  <2> SUFFICES ASSUME NEW r \in Requests, outbox'[r].status = "SENT"
               PROVE  r \in Delivered'
    BY DEF SentIsDelivered, Committed
  <2>1. CASE outbox[r].status = "SENT"
    BY <2>1, DeliveredGrows DEF SentIsDelivered, Committed
  <2>2. CASE MarkSent(r)
    BY <2>2, DeliveredGrows DEF MarkSent, AckedIsDelivered
  <2>3. outbox[r].status = "SENT" \/ MarkSent(r)
    <3>1. TxNext => outbox[r].status = "SENT"
      BY <1>0 DEF TxNext, CreateEvent, UpdateEvent, DeleteEvent, Begin, LeaveUnchanged,
                  Enqueue, Commit, Rollback, PendingRow
    <3>2. ASSUME NEW q \in Requests, RegisterFailure(q) \/ BackoffElapses(q)
          PROVE  outbox[r].status = "SENT"
      BY <1>0, <3>2 DEF RegisterFailure, BackoffElapses, OutboxRow
    <3>3. ASSUME NEW q \in Requests, MarkSent(q)
          PROVE  outbox[r].status = "SENT" \/ MarkSent(r)
      BY <1>0, <3>3 DEF MarkSent
    <3> QED
      BY <3>1, <3>2, <3>3
         DEF Next, RestStep, PublisherProgress, Poll, SendAcked, SendFails,
             SendInterrupted, SaveFails, Crash, vars, dbVars
  <2> QED
    BY <2>1, <2>2, <2>3
<1>2. AckedIsDelivered'
  <2> SUFFICES ASSUME phase' = "sent", NEW r \in Requests, FirstOfBatch(r)'
               PROVE  r \in Delivered'
    BY DEF AckedIsDelivered
  <2>1. \A q \in batch : outbox[q].status # "none"
    BY DEF Shape, TxShape, BatchIsPending
  <2>2. \A q \in batch : q \in Requests /\ outbox'[q].id = outbox[q].id
    BY <2>1, RowsPersist DEF Committed, SameNews, Shape, TxShape, TypeOK
  <2>3. CASE batch' = batch
    <3>1. FirstOfBatch(r)
      BY <2>2, <2>3 DEF FirstOfBatch, Earlier
    <3>2. CASE phase = "sent"
      BY <3>1, <3>2, DeliveredGrows DEF AckedIsDelivered
    <3>3. ASSUME NEW q \in Requests, SendAcked(q) PROVE r \in Delivered'
      BY <3>1, <3>3, FirstIsUnique, LandDelivers DEF SendAcked, FirstOfBatch
    <3>4. phase = "sent" \/ \E q \in Requests : SendAcked(q)
      BY DEF Next, RestStep, PublisherProgress, Poll, MarkSent, RegisterFailure, SendFails,
             SendInterrupted, SaveFails, BackoffElapses, NextOfBatch, Crash, vars,
             workerVars
    <3> QED
      BY <3>2, <3>3, <3>4
  <2>4. batch' = batch
    BY DEF Next, RestStep, PublisherProgress, Poll, SendAcked, MarkSent, RegisterFailure,
           SendFails, SendInterrupted, SaveFails, BackoffElapses, NextOfBatch, Crash, vars,
           workerVars
  <2> QED
    BY <2>3, <2>4
<1> QED
  BY <1>1, <1>2

(***************************************************************************)
(* A row is marked SENT only once its message is in the topic, across      *)
(* failed saves, retries and crashes between the send and the mark.        *)
(***************************************************************************)
THEOREM SentAreDelivered == Spec => []SentIsDelivered
<1>1. Init => SendInv
  BY DEF Init, TxInit, NoRow, SendInv, SentIsDelivered, AckedIsDelivered, Committed
<1>2. SendInv => SentIsDelivered
  BY DEF SendInv
<1> QED
  BY <1>1, <1>2, ShapeInit, ShapeStep, SendStep, PTL DEF Spec

\* What the next theorem says of one step.
LEMMA SentKeeps ==
  ASSUME Shape, [Next]_vars, NEW r \in Requests, outbox[r].status = "SENT"
  PROVE  outbox'[r] = outbox[r] /\ Copies(r)' = Copies(r)
<1>0. outbox \in [Requests -> OutboxRow]
  BY DEF Shape, TxShape, TypeOK, TxTypeOK
<1>1. r \notin batch
  BY DEF Shape, TxShape, BatchIsPending
<1>2. outbox'[r] = outbox[r]
  <2>1. tx[r].pc = "committed"
    BY DEF Shape, TxShape, RowsOfCommitted
  <2>2. TxNext => outbox'[r] = outbox[r]
    BY <1>0, <2>1 DEF TxNext, CreateEvent, UpdateEvent, DeleteEvent, Begin,
                      LeaveUnchanged, Enqueue, Commit, Rollback
  <2>3. ASSUME NEW q \in Requests,
               MarkSent(q) \/ RegisterFailure(q) \/ BackoffElapses(q)
        PROVE  outbox'[r] = outbox[r]
    <3>1. q # r
      BY <1>1, <2>3 DEF MarkSent, RegisterFailure, BackoffElapses, FirstOfBatch
    <3> QED
      BY <1>0, <2>3, <3>1 DEF MarkSent, RegisterFailure, BackoffElapses
  <2> QED
    BY <2>2, <2>3
       DEF Next, RestStep, PublisherProgress, Poll, SendAcked, SendFails,
           SendInterrupted, SaveFails, Crash, vars, dbVars
<1>3. Copies(r)' = Copies(r)
  <2>1. UNCHANGED topic => Copies(r)' = Copies(r)
    BY DEF Copies
  <2> QED
    BY <1>1, <2>1, TopicGrows, LandDelivers
<1> QED
  BY <1>2, <1>3

(***************************************************************************)
(* A SENT row never changes and its message never gets another copy.       *)
(***************************************************************************)
THEOREM SentStaysFinal == Spec => SentIsFinal
<1>1. Shape /\ [Next]_vars =>
        [\A r \in Requests : outbox[r].status = "SENT" =>
            outbox'[r] = outbox[r] /\ Copies(r)' = Copies(r)]_vars
  BY SentKeeps
<1> QED
  BY <1>1, ShapeInit, ShapeStep, PTL DEF Spec, SentIsFinal

-----------------------------------------------------------------------------
(***************************************************************************)
(* The committed messages grow one at a time, and only by a commit.        *)
(***************************************************************************)
LEMMA CommittedGrows ==
  ASSUME Shape, [Next]_vars
  PROVE  \/ Committed' = Committed
         \/ \E r \in Requests \ Committed :
               /\ Commit(r) /\ UNCHANGED <<workerVars, topic, sendFailures, faults>>
               /\ Committed' = Committed \cup {r}
<1>0. outbox \in [Requests -> OutboxRow]
  BY DEF Shape, TxShape, TypeOK, TxTypeOK
<1>1. ASSUME NEW r \in Requests, Commit(r)
      PROVE  r \notin Committed /\ Committed' = Committed \cup {r}
  <2>1. r \notin Committed
    BY <1>1 DEF Commit, Committed, Shape, TxShape, RowsOfCommitted
  <2>2. Committed' = Committed \cup {r}
    BY <1>0, <1>1 DEF Commit, Committed, PendingRow
  <2> QED
    BY <2>1, <2>2
<1>2. Committed \subseteq Committed'
  BY RowsPersist DEF Committed, SameNews
<1>3. UNCHANGED outbox => Committed' = Committed
  BY DEF Committed
<1>4. ASSUME NEW q \in Requests,
             MarkSent(q) \/ RegisterFailure(q) \/ BackoffElapses(q)
      PROVE  Committed' \subseteq Committed
  <2>1. outbox[q].status = "PENDING"
    BY <1>4 DEF MarkSent, RegisterFailure, BackoffElapses, FirstOfBatch, Shape, TxShape,
                BatchIsPending
  <2> QED
    BY <1>0, <1>4, <2>1 DEF MarkSent, RegisterFailure, BackoffElapses, Committed
<1>5. TxNext => UNCHANGED outbox \/ \E r \in Requests : Commit(r)
  BY DEF TxNext, CreateEvent, UpdateEvent, DeleteEvent, Begin, LeaveUnchanged,
         Enqueue, Rollback
<1>6. RestStep => \/ UNCHANGED outbox
                  \/ /\ \E r \in Requests : Commit(r)
                     /\ UNCHANGED <<workerVars, topic, sendFailures, faults>>
  BY <1>5 DEF RestStep
<1>7. UNCHANGED outbox \/ RestStep \/ \E q \in Requests :
         MarkSent(q) \/ RegisterFailure(q) \/ BackoffElapses(q)
  BY DEF Next, PublisherProgress, Poll, SendAcked, SendFails, SendInterrupted, SaveFails,
         Crash, vars, dbVars
<1> QED
  BY <1>1, <1>2, <1>3, <1>4, <1>6, <1>7

(***************************************************************************)
(* Every step of the outbox is a step of NewsDelivery or leaves it alone:  *)
(* a message is accepted when its transaction commits, and delivered when  *)
(* its first copy lands, never before and never otherwise.                 *)
(***************************************************************************)
THEOREM SafeDelivery == Spec => Delivery!NewsSafety
<1>1. Init => Delivery!NewsInit
  BY DEF Init, TxInit, NoRow, Delivery!NewsInit, Committed, Delivered
<1>2. Shape /\ [Next]_vars => [Delivery!NewsNext]_<<Committed, Delivered>>
  <2> SUFFICES ASSUME Shape, [Next]_vars
               PROVE  Delivery!NewsNext \/ UNCHANGED <<Committed, Delivered>>
    OBVIOUS
  <2>1. UNCHANGED topic => Delivered' = Delivered
    BY DEF Delivered
  <2>2. ASSUME NEW r \in Requests \ Committed, UNCHANGED topic,
               Committed' = Committed \cup {r}
        PROVE  Delivery!NewsNext
    BY <2>1, <2>2 DEF Delivery!NewsNext, Delivery!Accept
  <2>3. ASSUME Committed' = Committed
        PROVE  Delivery!NewsNext \/ UNCHANGED <<Committed, Delivered>>
    <3>1. ASSUME NEW r \in batch, Land(r)
          PROVE  Delivery!NewsNext \/ Delivered' = Delivered
      <4>1. r \in Committed
        BY DEF Shape, TxShape, TypeOK, BatchIsPending, Committed
      <4>2. Delivered' = Delivered \cup {r}
        BY <3>1, LandDelivers
      <4> QED
        BY <2>3, <4>1, <4>2 DEF Delivery!NewsNext, Delivery!Deliver, Committed
    <3> QED
      BY <2>1, <2>3, <3>1, TopicGrows
  <2> QED
    BY <2>2, <2>3, CommittedGrows
<1> QED
  BY <1>1, <1>2, ShapeInit, ShapeStep, PTL DEF Spec, Delivery!NewsSafety, Delivery!nvars

-----------------------------------------------------------------------------
(***************************************************************************)
(* The order of the messages of an event.                                  *)
(***************************************************************************)
OrderInv == /\ Shape /\ TopicIsCommittedNews /\ SendInv
            /\ IsFiniteSet(Committed) /\ OrderIsKept

\* A finite number of transactions has committed.
LEMMA CommittedStaysFinite ==
  ASSUME Shape, [Next]_vars, IsFiniteSet(Committed)
  PROVE  IsFiniteSet(Committed')
BY CommittedGrows, FS_AddElement

\* What a step does to the history field: the transaction reads, goes on or is over.
LEMMA AfterPersists ==
  ASSUME Shape, [Next]_vars, NEW r \in Requests
  PROVE  \/ tx'[r].after = {}
         \/ /\ tx'[r].after = NewsOf(tx'[r].event) /\ tx'[r].pc = "read"
         \/ /\ tx'[r].after = tx[r].after /\ tx'[r].event = tx[r].event
            /\ tx'[r].pc \in {"enqueued", "committed"} =>
                  \/ tx[r].pc \in {"enqueued", "committed"} /\ tx'[r].id = tx[r].id
                  \/ tx'[r].id = nextId
<1> DEFINE Ended == tx'[r].after = {}
           Fresh == tx'[r].after = NewsOf(tx'[r].event) /\ tx'[r].pc = "read"
           Kept == /\ tx'[r].after = tx[r].after /\ tx'[r].event = tx[r].event
                   /\ tx'[r].pc \in {"enqueued", "committed"} =>
                         \/ tx[r].pc \in {"enqueued", "committed"} /\ tx'[r].id = tx[r].id
                         \/ tx'[r].id = nextId
<1>1. tx \in [Requests -> Transaction] /\ tx[r] \in Transaction
  BY DEF Shape, TxShape, TypeOK, TxTypeOK
<1>2. CASE UNCHANGED tx
  BY <1>2
<1>3. ASSUME NEW q \in Requests, NEW e \in EventIds, NEW c \in Contents,
             CreateEvent(q, e, c) \/ UpdateEvent(q, e, c) \/ DeleteEvent(q, e)
      PROVE  Fresh \/ Kept
  <2>1. PICK type, read, content : Begin(q, type, e, read, content)
    BY <1>3 DEF CreateEvent, UpdateEvent, DeleteEvent
  <2>2. CASE q = r
    BY <1>1, <2>1, <2>2 DEF Begin
  <2>3. CASE q # r
    BY <1>1, <2>1, <2>3 DEF Begin
  <2> QED
    BY <2>2, <2>3
<1>4. ASSUME NEW q \in Requests, LeaveUnchanged(q) PROVE Kept
  BY <1>1, <1>4 DEF LeaveUnchanged, Transaction
<1>5. ASSUME NEW q \in Requests, Enqueue(q) PROVE Kept
  BY <1>1, <1>5 DEF Enqueue, Transaction
<1>6. ASSUME NEW q \in Requests, Commit(q) PROVE Kept
  BY <1>1, <1>6 DEF Commit, Transaction
<1>7. ASSUME NEW S \in SUBSET Requests, Abort(S) PROVE Ended \/ Kept
  BY <1>1, <1>7 DEF Abort, NoTransaction
<1>8. ASSUME NEW q \in Requests, NEW e \in EventIds, DeleteEvent(q, e)
      PROVE  Fresh \/ Kept
  BY <1>3, <1>8
<1>9. CASE TxNext
  BY <1>3, <1>4, <1>5, <1>6, <1>7, <1>8, <1>9 DEF TxNext, Rollback
<1> QED
  BY <1>2, <1>7, <1>9
     DEF Next, RestStep, PublisherProgress, Poll, SendAcked, SendFails, SendInterrupted,
         MarkSent, RegisterFailure, SaveFails, BackoffElapses, Crash, vars, dbVars

LEMMA AfterIsEarlierStep ==
  ASSUME Shape, AfterIsEarlier, [Next]_vars
  PROVE  AfterIsEarlier'
<1> SUFFICES ASSUME NEW r \in Requests, NEW q \in tx'[r].after
             PROVE  /\ q \in Committed' /\ outbox'[q].event = tx'[r].event
                    /\ tx'[r].pc \in {"enqueued", "committed"} => outbox'[q].id < tx'[r].id
  BY DEF AfterIsEarlier
<1>1. \A c \in Committed : /\ c \in Committed' /\ outbox'[c].event = outbox[c].event
                           /\ outbox'[c].id = outbox[c].id
  BY RowsPersist DEF Committed, SameNews
<1>2. \A c \in Committed : outbox[c].id < nextId
  BY DEF Committed, Shape, TxShape, RowsOfCommitted, IdsAreUnique
<1>3. CASE tx'[r].after = NewsOf(tx'[r].event) /\ tx'[r].pc = "read"
  BY <1>1, <1>3 DEF NewsOf
<1>4. CASE /\ tx'[r].after = tx[r].after /\ tx'[r].event = tx[r].event
           /\ tx'[r].pc \in {"enqueued", "committed"} =>
                 \/ tx[r].pc \in {"enqueued", "committed"} /\ tx'[r].id = tx[r].id
                 \/ tx'[r].id = nextId
  BY <1>1, <1>2, <1>4 DEF AfterIsEarlier
<1> QED
  BY <1>3, <1>4, AfterPersists

LEMMA NothingInBackoffStep ==
  ASSUME Shape, NothingInBackoff, [Next]_vars, sendFailures' = 0, sendFailures = 0
  PROVE  NothingInBackoff'
<1>0. outbox \in [Requests -> OutboxRow]
  BY DEF Shape, TxShape, TypeOK, TxTypeOK
<1>1. \A r \in Requests : ~SendFails(r) /\ ~RegisterFailure(r)
  BY DEF SendFails, RegisterFailure, NothingInBackoff
<1>2. phase' # "failed"
  BY <1>1 DEF NothingInBackoff, Next, RestStep, PublisherProgress, Poll, SendAcked,
              SendInterrupted, MarkSent, SaveFails, BackoffElapses, NextOfBatch, Crash,
              vars, workerVars
<1>3. ASSUME NEW r \in Requests, outbox'[r].status = "PENDING" PROVE outbox'[r].due
  <2>1. CASE outbox'[r] = outbox[r]
    BY <1>3, <2>1 DEF NothingInBackoff, Committed
  <2>2. ASSUME NEW q \in Requests, Commit(q) PROVE outbox'[r].due \/ outbox'[r] = outbox[r]
    BY <1>0, <2>2 DEF Commit, PendingRow
  <2>3. ASSUME NEW q \in Requests, MarkSent(q) PROVE outbox'[r] = outbox[r]
    BY <1>0, <1>3, <2>3 DEF MarkSent, OutboxRow
  <2>4. ASSUME NEW q \in Requests, BackoffElapses(q)
        PROVE  outbox'[r].due \/ outbox'[r] = outbox[r]
    BY <1>0, <2>4 DEF BackoffElapses, OutboxRow
  <2>5. TxNext => UNCHANGED outbox \/ \E q \in Requests : Commit(q)
    BY DEF TxNext, CreateEvent, UpdateEvent, DeleteEvent, Begin, LeaveUnchanged,
           Enqueue, Rollback
  <2>6. UNCHANGED outbox \/ \E q \in Requests : Commit(q) \/ MarkSent(q) \/ BackoffElapses(q)
    BY <1>1, <2>5 DEF Next, RestStep, PublisherProgress, Poll, SendAcked, SendInterrupted,
                      SaveFails, Crash, vars, dbVars
  <2> QED
    BY <2>1, <2>2, <2>3, <2>4, <2>6
<1> QED
  BY <1>2, <1>3 DEF NothingInBackoff, Committed

(***************************************************************************)
(* A poll takes, with a row, the PENDING ones that are due and have lower  *)
(* ids.                                                                    *)
(***************************************************************************)
LEMMA PollTakesEarlier ==
  ASSUME Shape, IsFiniteSet(Committed), Poll, NEW r \in batch', NEW q \in Eligible,
         outbox[q].id < outbox[r].id
  PROVE  q \in batch'
<1>1. /\ r \in Eligible /\ Cardinality(Earlier(Eligible, r)) < BatchSize
      /\ batch' = {c \in Eligible : Cardinality(Earlier(Eligible, c)) < BatchSize}
  BY DEF Poll
<1>2. \A c \in Eligible : outbox[c].id \in Nat
  BY DEF Eligible, Committed, Shape, TxShape, TypeOK, TxTypeOK, OutboxRow
<1>3. Earlier(Eligible, q) \subseteq Earlier(Eligible, r)
  BY <1>1, <1>2 DEF Earlier
<1>4. Earlier(Eligible, r) \subseteq Committed
  BY DEF Earlier, Eligible
<1>5. IsFiniteSet(Earlier(Eligible, r))
  BY <1>4, FS_Subset
<1>6. /\ IsFiniteSet(Earlier(Eligible, q))
      /\ Cardinality(Earlier(Eligible, q)) <= Cardinality(Earlier(Eligible, r))
  BY <1>3, <1>5, FS_Subset
<1>7. /\ Cardinality(Earlier(Eligible, q)) \in Nat
      /\ Cardinality(Earlier(Eligible, r)) \in Nat
  BY <1>5, <1>6, FS_CardinalityType
<1> QED
  BY <1>1, <1>6, <1>7

LEMMA BatchInOrderStep ==
  ASSUME OrderInv, [Next]_vars, sendFailures = 0, sendFailures' = 0
  PROVE  BatchInOrder'
<1> USE DEF OrderInv
<1>0. NothingInBackoff /\ BatchInOrder /\ AfterIsEarlier
  BY DEF OrderIsKept
<1> SUFFICES ASSUME NEW r \in batch', NEW q \in tx'[r].after
             PROVE  q \in batch' \cup Delivered'
  BY DEF BatchInOrder
<1>1. Delivered \subseteq Delivered'
  BY DeliveredGrows
<1>2. \A c \in batch : c \in Requests /\ tx'[c] = tx[c]
  <2>1. \A c \in batch : c \in Requests /\ tx[c].pc = "committed"
    BY DEF Shape, TxShape, TypeOK, BatchIsPending, RowsOfCommitted
  <2> QED
    BY <2>1, CommittedStays
<1>3. CASE batch' = batch
  BY <1>0, <1>1, <1>2, <1>3 DEF BatchInOrder
<1>4. ASSUME NEW s \in Requests, MarkSent(s) \/ SaveFails(s)
      PROVE  q \in batch' \cup Delivered'
  <2>1. FirstOfBatch(s) /\ batch' = batch \ {s} /\ phase = "sent"
    BY <1>0, <1>4 DEF MarkSent, SaveFails, NextOfBatch, NothingInBackoff
  <2>2. s \in Delivered
    BY <2>1 DEF SendInv, AckedIsDelivered
  <2> QED
    BY <1>0, <1>1, <1>2, <2>1, <2>2 DEF BatchInOrder
<1>5. CASE Poll
  <2>1. r \in Eligible /\ UNCHANGED tx
    BY <1>5 DEF Poll, dbVars
  <2>2. r \in Requests /\ tx[r].pc = "committed" /\ outbox[r].id = tx[r].id
    BY <2>1 DEF Eligible, Committed, Shape, TxShape, RowsOfCommitted
  <2>3. q \in Committed /\ outbox[q].id < outbox[r].id
    BY <1>0, <2>1, <2>2 DEF AfterIsEarlier
  <2>4. CASE outbox[q].status = "SENT"
    BY <1>1, <2>3, <2>4 DEF SendInv, SentIsDelivered
  <2>5. CASE outbox[q].status = "PENDING"
    <3>1. q \in Eligible
      BY <1>0, <2>3, <2>5 DEF NothingInBackoff, Eligible
    <3> QED
      BY <1>5, <2>3, <3>1, PollTakesEarlier
  <2>6. outbox[q].status \in {"PENDING", "SENT"}
    BY <2>3 DEF Committed, Shape, TxShape, RowsOfCommitted
  <2> QED
    BY <2>4, <2>5, <2>6
<1>6. CASE batch' = {}
  BY <1>6
<1>7. \/ batch' \in {batch, {}} \/ Poll
      \/ \E s \in Requests : MarkSent(s) \/ SaveFails(s)
  <2>1. \A s \in Requests : ~RegisterFailure(s)
    BY <1>0 DEF RegisterFailure, NothingInBackoff
  <2> QED
    BY <2>1 DEF Next, RestStep, PublisherProgress, SendAcked, SendFails, SendInterrupted,
                BackoffElapses, Crash, vars, workerVars
<1> QED
  BY <1>3, <1>4, <1>5, <1>6, <1>7

\* The new copy comes after all the others of its partition.
LEMMA LandAtEnd ==
  ASSUME Shape, NEW r \in batch, Land(r), NEW p \in Partitions, NEW j \in DOMAIN topic'[p]
  PROVE  /\ j \in Nat /\ DOMAIN topic[p] = 1..Len(topic[p]) /\ Len(topic[p]) \in Nat
         /\ \/ /\ j \in DOMAIN topic[p]
               /\ \A i \in 1..j : i \in DOMAIN topic[p] /\ topic'[p][i] = topic[p][i]
            \/ /\ p = PartitionOf[outbox[r].event] /\ j = Len(topic[p]) + 1
               /\ topic'[p][j] = NewsFromOutbox(r)
               /\ \A i \in DOMAIN topic[p] : i \in 1..(j - 1) /\ topic'[p][i] = topic[p][i]
<1>1. topic \in [Partitions -> Seq(News)] /\ topic[p] \in Seq(News)
  BY DEF Shape, TxShape, TypeOK
<1>2. DOMAIN topic[p] = 1..Len(topic[p]) /\ Len(topic[p]) \in Nat
  BY <1>1
<1>3. CASE topic'[p] = topic[p]
  BY <1>2, <1>3
<1>4. CASE p = PartitionOf[outbox[r].event]
  <2>1. r \in Requests /\ tx[r].pc = "committed"
    BY DEF Shape, TxShape, TypeOK, BatchIsPending, RowsOfCommitted
  <2>2. NewsFromOutbox(r) \in News
    BY <2>1 DEF NewsFromOutbox, News, Shape, TxShape, RowsOfCommitted, TransactionsOK,
                TypeOK, TxTypeOK, OutboxRow
  <2>3. topic'[p] = Append(topic[p], NewsFromOutbox(r))
    BY <1>1, <1>4 DEF Land
  <2>4. /\ DOMAIN topic'[p] = 1..(Len(topic[p]) + 1)
        /\ topic'[p][Len(topic[p]) + 1] = NewsFromOutbox(r)
        /\ \A i \in 1..Len(topic[p]) : topic'[p][i] = topic[p][i]
    BY <1>1, <2>2, <2>3
  <2>5. CASE j = Len(topic[p]) + 1
    <3>1. j \in Nat /\ 1..(j - 1) = DOMAIN topic[p]
      BY <1>2, <2>5
    <3>2. topic'[p][j] = NewsFromOutbox(r)
      BY <2>4, <2>5
    <3>3. \A i \in DOMAIN topic[p] : i \in 1..(j - 1) /\ topic'[p][i] = topic[p][i]
      BY <1>2, <2>4, <3>1
    <3> QED
      BY <1>2, <1>4, <2>5, <3>1, <3>2, <3>3
  <2>6. CASE j \in 1..Len(topic[p])
    <3>1. j \in Nat /\ \A i \in 1..j : i \in 1..Len(topic[p])
      BY <1>2, <2>6
    <3> QED
      BY <1>2, <2>4, <2>6, <3>1
  <2> QED
    BY <1>2, <2>4, <2>5, <2>6
<1>5. topic'[p] = topic[p] \/ p = PartitionOf[outbox[r].event]
  BY <1>1 DEF Land
<1> QED
  BY <1>3, <1>4, <1>5

\* What the order needs to know of a copy.
LEMMA CopyIsCommitted ==
  ASSUME TopicIsCommittedNews, NEW p \in Partitions, NEW i \in DOMAIN topic[p]
  PROVE  /\ tx[topic[p][i].msg].pc = "committed"
         /\ p = PartitionOf[tx[topic[p][i].msg].event]
<1> DEFINE n == topic[p][i]
<1>1. /\ tx[n.msg].pc = "committed" /\ p = PartitionOf[n.event]
      /\ n = [msg |-> n.msg, type |-> tx[n.msg].type, event |-> tx[n.msg].event,
              content |-> tx[n.msg].content,
              previous |-> IF tx[n.msg].type = "EVENT_UPDATED"
                           THEN tx[n.msg].read ELSE None]
  BY DEF TopicIsCommittedNews
<1> HIDE DEF n
<1>2. n.event = tx[n.msg].event
  BY <1>1
<1> QED
  BY <1>1, <1>2 DEF n

LEMMA OrderPerEventStep ==
  ASSUME OrderInv, [Next]_vars, sendFailures = 0
  PROVE  OrderPerEvent'
<1> USE DEF OrderInv
<1>0. BatchInOrder /\ OrderPerEvent /\ AfterIsEarlier
  BY DEF OrderIsKept
<1>t. \A p \in Partitions : topic[p] \in Seq(News) /\ DOMAIN topic[p] = 1..Len(topic[p])
  BY DEF Shape, TxShape, TypeOK
<1> SUFFICES ASSUME NEW r \in Requests, NEW q \in tx'[r].after, NEW p \in Partitions,
                    NEW j \in DOMAIN topic'[p], topic'[p][j].msg = r
             PROVE  \E i \in 1..(j - 1) : topic'[p][i].msg = q
  BY DEF OrderPerEvent, OrderedAfter
<1>1. ASSUME j \in DOMAIN topic[p], \A i \in 1..j : topic'[p][i] = topic[p][i]
      PROVE  \E i \in 1..(j - 1) : topic'[p][i].msg = q
  <2>1. j \in Nat /\ j \in 1..j
    BY <1>t, <1>1
  <2>2. topic[p][j].msg = r
    BY <1>1, <2>1
  <2>3. tx[r].pc = "committed"
    BY <1>1, <2>2, CopyIsCommitted
  <2>4. q \in tx[r].after
    BY <2>3, CommittedStays
  <2>5. PICK i \in 1..(j - 1) : topic[p][i].msg = q
    BY <1>0, <1>1, <2>2, <2>4 DEF OrderPerEvent, OrderedAfter
  <2>6. i \in 1..j
    BY <2>1
  <2> QED
    BY <1>1, <2>5, <2>6
<1>2. CASE UNCHANGED topic
  BY <1>1, <1>2
<1>3. ASSUME NEW s \in batch, FirstOfBatch(s), Land(s), p = PartitionOf[outbox[s].event],
             topic'[p][j] = NewsFromOutbox(s),
             \A i \in DOMAIN topic[p] : i \in 1..(j - 1) /\ topic'[p][i] = topic[p][i]
      PROVE  \E i \in 1..(j - 1) : topic'[p][i].msg = q
  <2>1. s = r
    BY <1>3 DEF NewsFromOutbox
  <2>2. tx[r].pc = "committed" /\ outbox[r].id = tx[r].id /\ outbox[r].event = tx[r].event
    BY <1>3, <2>1 DEF Shape, TxShape, BatchIsPending, RowsOfCommitted
  <2>3. q \in tx[r].after
    BY <2>2, CommittedStays
  <2>4. q \in Committed /\ outbox[q].id < outbox[r].id /\ outbox[q].event = outbox[r].event
    BY <1>0, <2>2, <2>3 DEF AfterIsEarlier
  <2>5. q \notin batch
    BY <1>3, <2>1, <2>4 DEF FirstOfBatch, Earlier
  <2>6. q \in Delivered
    BY <1>0, <1>3, <2>1, <2>3, <2>5 DEF BatchInOrder
  <2>7. PICK k \in Partitions : \E i \in DOMAIN topic[k] : topic[k][i].msg = q
    BY <2>6 DEF Delivered
  <2>8. PICK i \in DOMAIN topic[k] : topic[k][i].msg = q
    BY <2>7
  <2>9. k = PartitionOf[tx[q].event]
    BY <2>8, CopyIsCommitted
  <2>10. tx[q].event = outbox[q].event
    BY <2>4 DEF Committed, Shape, TxShape, RowsOfCommitted
  <2>11. k = p
    BY <1>3, <2>1, <2>4, <2>9, <2>10
  <2> QED
    BY <1>3, <2>8, <2>11
<1>4. ASSUME NEW s \in batch, FirstOfBatch(s), Land(s)
      PROVE  \E i \in 1..(j - 1) : topic'[p][i].msg = q
  BY <1>1, <1>3, <1>4, LandAtEnd
<1> QED
  BY <1>2, <1>4, TopicGrows

LEMMA OrderInvInit == Init => OrderInv
<1> SUFFICES ASSUME Init PROVE OrderInv
  OBVIOUS
<1>1. Shape /\ TopicIsCommittedNews /\ SendInv
  BY ShapeInit DEF Init, TxInit, NoRow, TopicIsCommittedNews, SendInv, SentIsDelivered,
                   AckedIsDelivered, Committed
<1>2. Committed = {}
  BY DEF Init, TxInit, NoRow, Committed
<1>3. AfterIsEarlier /\ OrderPerEvent
  BY DEF Init, TxInit, NoTransaction, AfterIsEarlier, OrderPerEvent
<1>4. NothingInBackoff /\ BatchInOrder
  BY <1>2 DEF Init, NothingInBackoff, BatchInOrder
<1> QED
  BY <1>1, <1>2, <1>3, <1>4, FS_EmptySet DEF OrderInv, OrderIsKept

LEMMA OrderInvStep == OrderInv /\ [Next]_vars => OrderInv'
<1> SUFFICES ASSUME OrderInv, [Next]_vars PROVE OrderInv'
  OBVIOUS
<1>1. Shape' /\ TopicIsCommittedNews' /\ SendInv' /\ IsFiniteSet(Committed')
  BY ShapeStep, TopicStep, SendStep, CommittedStaysFinite DEF OrderInv
<1>2. AfterIsEarlier'
  BY AfterIsEarlierStep DEF OrderInv, OrderIsKept
<1>3. sendFailures' = 0 => sendFailures = 0
  <2>1. sendFailures \in Nat
    BY DEF OrderInv, Shape, TypeOK
  <2>2. sendFailures' \in {sendFailures, sendFailures + 1}
    BY DEF Next, RestStep, PublisherProgress, Poll, SendAcked, SendFails, SendInterrupted,
           MarkSent, RegisterFailure, SaveFails, BackoffElapses, Crash, vars
  <2> QED
    BY <2>1, <2>2
<1>4. ASSUME sendFailures' = 0 PROVE NothingInBackoff' /\ BatchInOrder' /\ OrderPerEvent'
  <2>1. sendFailures = 0
    BY <1>3, <1>4
  <2>2. NothingInBackoff'
    BY <1>4, <2>1, NothingInBackoffStep DEF OrderInv, OrderIsKept
  <2> QED
    BY <1>4, <2>1, <2>2, BatchInOrderStep, OrderPerEventStep
<1> QED
  BY <1>1, <1>2, <1>4 DEF OrderInv, OrderIsKept

(***************************************************************************)
(* As long as no send has failed, the messages of an event are in the      *)
(* topic in the order in which their transactions followed each other,     *)
(* whatever batches, crashes, interruptions and failed saves there were.   *)
(***************************************************************************)
THEOREM OrderIsKeptWhileSendsSucceed == Spec => []OrderWhileSendsSucceed
<1>1. OrderInv => OrderWhileSendsSucceed
  BY DEF OrderInv, OrderIsKept, OrderWhileSendsSucceed
<1> QED
  BY <1>1, OrderInvInit, OrderInvStep, PTL DEF Spec

-----------------------------------------------------------------------------
(***************************************************************************)
(* The copies and what paid for them.                                      *)
(***************************************************************************)
PaidInv == Shape /\ TopicIsCommittedNews /\ CopiesPaid

LEMMA CopiesAre ==
  Shape => AllCopies = UNION {{p} \X DOMAIN topic[p] : p \in Partitions}
<1> SUFFICES ASSUME Shape
             PROVE  AllCopies = UNION {{p} \X DOMAIN topic[p] : p \in Partitions}
  OBVIOUS
<1>1. \A p \in Partitions : \A i \in DOMAIN topic[p] : topic[p][i].msg \in Requests
  <2> TAKE p \in Partitions
  <2>1. topic[p] \in Seq(News)
    BY DEF Shape, TxShape, TypeOK
  <2>2. \A i \in DOMAIN topic[p] : topic[p][i] \in News
    BY <2>1
  <2> QED
    BY <2>2 DEF News
<1>2. ASSUME NEW x, x \in AllCopies
      PROVE  x \in UNION {{p} \X DOMAIN topic[p] : p \in Partitions}
  <2>1. PICK r \in Requests : x \in Copies(r)
    BY <1>2 DEF AllCopies
  <2>2. PICK p \in Partitions : x \in {p} \X {i \in DOMAIN topic[p] : topic[p][i].msg = r}
    BY <2>1 DEF Copies
  <2>3. x \in {p} \X DOMAIN topic[p]
    BY <2>2
  <2> QED
    BY <2>3
<1>3. ASSUME NEW p \in Partitions, NEW x, x \in {p} \X DOMAIN topic[p]
      PROVE  x \in AllCopies
  <2>1. PICK i \in DOMAIN topic[p] : x = <<p, i>>
    BY <1>3
  <2>2. topic[p][i].msg \in Requests
    BY <1>1
  <2>3. x \in {p} \X {j \in DOMAIN topic[p] : topic[p][j].msg = topic[p][i].msg}
    BY <2>1
  <2>4. x \in Copies(topic[p][i].msg)
    BY <2>3 DEF Copies
  <2> QED
    BY <2>2, <2>4 DEF AllCopies
<1> QED
  BY <1>2, <1>3

LEMMA CopiesWillBe ==
  (Shape => AllCopies = UNION {{p} \X DOMAIN topic[p] : p \in Partitions})'
BY CopiesAre, PTL

\* A send that lands adds one copy.
LEMMA LandAddsCopy ==
  ASSUME Shape, Shape', NEW r \in batch, Land(r)
  PROVE  \E x : AllCopies' \subseteq AllCopies \cup {x}
<1> DEFINE k == PartitionOf[outbox[r].event]
           new == <<k, Len(topic[k]) + 1>>
<1>1. AllCopies = UNION {{p} \X DOMAIN topic[p] : p \in Partitions}
  BY CopiesAre
<1>2. AllCopies' = UNION {{p} \X DOMAIN topic'[p] : p \in Partitions}
  BY CopiesWillBe
<1>3. \A p \in Partitions : \A j \in DOMAIN topic'[p] :
         j \in DOMAIN topic[p] \/ <<p, j>> = new
  BY LandAtEnd
<1> HIDE DEF new
<1>4. ASSUME NEW p \in Partitions, NEW x, x \in {p} \X DOMAIN topic'[p]
      PROVE  x \in AllCopies \cup {new}
  <2>1. PICK j \in DOMAIN topic'[p] : x = <<p, j>>
    BY <1>4
  <2>2. CASE j \in DOMAIN topic[p]
    <3>1. x \in {p} \X DOMAIN topic[p]
      BY <2>1, <2>2
    <3> QED
      BY <1>1, <3>1
  <2> QED
    BY <1>3, <2>1, <2>2
<1>5. AllCopies' \subseteq AllCopies \cup {new}
  BY <1>2, <1>4
<1> QED
  BY <1>5

LEMMA DeliveredAreCommitted ==
  Shape /\ TopicIsCommittedNews => Delivered \subseteq Committed
<1> SUFFICES ASSUME Shape, TopicIsCommittedNews, NEW r \in Requests, NEW p \in Partitions,
                    NEW i \in DOMAIN topic[p], topic[p][i].msg = r
             PROVE  r \in Committed
  BY DEF Delivered
<1>1. tx[r].pc = "committed"
  BY CopyIsCommitted
<1> QED
  BY <1>1 DEF Committed, Shape, TxShape, RowsOfCommitted

LEMMA DeliveredWillBeCommitted ==
  (Shape /\ TopicIsCommittedNews => Delivered \subseteq Committed)'
BY DeliveredAreCommitted, PTL

\* The steps that leave the batch and the phase alone leave the first row first.
LEMMA FirstStays ==
  ASSUME Shape, [Next]_vars, UNCHANGED batch, NEW r
  PROVE  FirstOfBatch(r)' <=> FirstOfBatch(r)
<1>1. \A q \in batch : q \in Requests /\ outbox[q].status # "none"
  BY DEF Shape, TxShape, TypeOK, BatchIsPending
<1>2. \A q \in batch : outbox'[q].id = outbox[q].id
  BY <1>1, RowsPersist DEF Committed, SameNews
<1> QED
  BY <1>2 DEF FirstOfBatch, Earlier

(***************************************************************************)
(* A message that was in the topic may be sent again after a step if it    *)
(* might before, or if the acknowledged row was not marked for a fault.    *)
(***************************************************************************)
LEMMA ResendableStep ==
  ASSUME Shape, TopicIsCommittedNews, [Next]_vars,
         NEW q \in Resendable', q \in Delivered, q \notin Resendable
  PROVE  /\ phase = "sent" /\ FirstOfBatch(q) /\ UNCHANGED <<topic, sendFailures>>
         /\ faults' = faults + 1
<1>1. q \in Requests /\ outbox'[q].status = "PENDING"
  BY DEF Resendable, Delivered
<1>2. outbox[q].status = "PENDING"
  <2>1. q \in Committed
    BY DeliveredAreCommitted
  <2>2. outbox[q].status \in {"PENDING", "SENT"}
    BY <2>1 DEF Committed, Shape, TxShape, RowsOfCommitted
  <2> QED
    BY <1>1, <2>2, SentKeeps
<1>3. phase = "sent" /\ FirstOfBatch(q)
  BY <1>1, <1>2 DEF Resendable
<1>4. ~(phase' = "sent" /\ FirstOfBatch(q)')
  BY DEF Resendable
<1>5. ~UNCHANGED <<batch, phase>>
  BY <1>3, <1>4, FirstStays
<1>6. \A r \in Requests : ~MarkSent(r)
  <2>1. ASSUME MarkSent(q) PROVE FALSE
    BY <1>1, <2>1 DEF MarkSent, Shape, TxShape, TypeOK, TxTypeOK, OutboxRow
  <2> QED
    BY <1>1, <1>3, <2>1, FirstIsUnique DEF MarkSent
<1>7. Crash \/ \E r \in Requests : SaveFails(r)
  BY <1>3, <1>5, <1>6 DEF Next, RestStep, PublisherProgress, Poll, SendAcked, SendFails,
     SendInterrupted, RegisterFailure, BackoffElapses, vars, workerVars
<1> QED
  BY <1>3, <1>7 DEF Crash, SaveFails

\* What a step costs when it sends again: Resendable loses the row, or a fault pays.
LEMMA CostOfSend ==
  ASSUME Shape, TopicIsCommittedNews, [Next]_vars,
         NEW r \in batch, phase = "send", FirstOfBatch(r), Land(r)
  PROVE  \/ Resendable' \subseteq Resendable \ {r}
         \/ /\ Resendable' \subseteq Resendable \cup {r}
            /\ sendFailures' + faults' = sendFailures + faults + 1
<1>1. Delivered' = Delivered \cup {r}
  BY LandDelivers
<1>2. Resendable' \subseteq Resendable \cup {r}
  <2>1. Resendable' \subseteq Delivered'
    BY DEF Resendable
  <2> QED
    BY <1>1, <2>1, ResendableStep
<1>3. ASSUME NEW q \in Requests, SendAcked(q) PROVE r \notin Resendable'
  <2>1. phase' = "sent" /\ UNCHANGED batch
    BY <1>3 DEF SendAcked
  <2>2. FirstOfBatch(r)'
    BY <2>1, FirstStays
  <2> QED
    BY <2>1, <2>2 DEF Resendable
<1>4. sendFailures \in Nat /\ faults \in Nat
  BY DEF Shape, TypeOK
<1>5. ~UNCHANGED topic
  <2>1. r \in Requests
    BY DEF Shape, TxShape, TypeOK
  <2>2. PartitionOf[outbox[r].event] \in Partitions
    BY LandAppends
  <2>3. topic[PartitionOf[outbox[r].event]] \in Seq(News)
    BY <2>2 DEF Shape, TxShape, TypeOK
  <2>4. topic'[PartitionOf[outbox[r].event]] =
          Append(topic[PartitionOf[outbox[r].event]], NewsFromOutbox(r))
    BY <2>2 DEF Land, Shape, TxShape, TypeOK
  <2>5. Len(topic'[PartitionOf[outbox[r].event]])
          = Len(topic[PartitionOf[outbox[r].event]]) + 1
    BY <2>3, <2>4
  <2>6. Len(topic[PartitionOf[outbox[r].event]]) \in Nat
    BY <2>3
  <2> QED
    BY <2>5, <2>6
<1>6. \/ \E q \in Requests : SendAcked(q)
      \/ (\E q \in Requests : SendFails(q) \/ SendInterrupted(q)) \/ Crash
  BY <1>5 DEF Next, RestStep, PublisherProgress, Poll, MarkSent, RegisterFailure,
              SaveFails, BackoffElapses, vars
<1>7. (\E q \in Requests : SendFails(q) \/ SendInterrupted(q)) \/ Crash
         => sendFailures' + faults' = sendFailures + faults + 1
  BY <1>4 DEF SendFails, SendInterrupted, Crash
<1> QED
  BY <1>2, <1>3, <1>6, <1>7

LEMMA CountersGrow ==
  ASSUME Shape, [Next]_vars
  PROVE  /\ sendFailures \in Nat /\ faults \in Nat /\ sendFailures' \in Nat /\ faults' \in Nat
         /\ sendFailures <= sendFailures' /\ faults <= faults'
<1>1. sendFailures \in Nat /\ faults \in Nat
  BY DEF Shape, TypeOK
<1>2. CASE UNCHANGED <<sendFailures, faults>>
  BY <1>1, <1>2
<1>3. CASE sendFailures' = sendFailures + 1 /\ UNCHANGED faults
  BY <1>1, <1>3
<1>4. CASE faults' = faults + 1 /\ UNCHANGED sendFailures
  BY <1>1, <1>4
<1>5. CASE RestStep \/ Poll \/ UNCHANGED vars
  BY <1>2, <1>5 DEF RestStep, Poll, vars
<1>6. ASSUME NEW r \in Requests,
             SendAcked(r) \/ MarkSent(r) \/ RegisterFailure(r) \/ BackoffElapses(r)
      PROVE  UNCHANGED <<sendFailures, faults>>
  BY <1>6 DEF SendAcked, MarkSent, RegisterFailure, BackoffElapses
<1>7. ASSUME NEW r \in Requests, SendFails(r)
      PROVE  sendFailures' = sendFailures + 1 /\ UNCHANGED faults
  BY <1>7 DEF SendFails
<1>8. ASSUME NEW r \in Requests, SendInterrupted(r) \/ SaveFails(r)
      PROVE  faults' = faults + 1 /\ UNCHANGED sendFailures
  BY <1>8 DEF SendInterrupted, SaveFails
<1>9. CASE Crash
  BY <1>4, <1>9 DEF Crash
<1> QED
  BY <1>2, <1>3, <1>4, <1>5, <1>6, <1>7, <1>8, <1>9 DEF Next, PublisherProgress

\* One element more or less, for the sets that the invariant counts.
LEMMA Counting ==
  ASSUME NEW S, IsFiniteSet(S), NEW T, NEW x
  PROVE  /\ Cardinality(S) \in Nat
         /\ T \subseteq S =>
               IsFiniteSet(T) /\ Cardinality(T) \in Nat /\ Cardinality(T) <= Cardinality(S)
         /\ T \subseteq S \cup {x} =>
               IsFiniteSet(T) /\ Cardinality(T) \in Nat /\ Cardinality(T) <= Cardinality(S) + 1
         /\ (x \in S /\ T \subseteq S \ {x}) =>
               IsFiniteSet(T) /\ Cardinality(T) \in Nat /\ Cardinality(T) + 1 <= Cardinality(S)
<1>1. Cardinality(S) \in Nat
  BY FS_CardinalityType
<1>2. ASSUME T \subseteq S
      PROVE  IsFiniteSet(T) /\ Cardinality(T) \in Nat /\ Cardinality(T) <= Cardinality(S)
  BY <1>2, FS_Subset, FS_CardinalityType
<1>3. ASSUME T \subseteq S \cup {x}
      PROVE  /\ IsFiniteSet(T) /\ Cardinality(T) \in Nat
             /\ Cardinality(T) <= Cardinality(S) + 1
  <2>1. IsFiniteSet(S \cup {x}) /\ Cardinality(S \cup {x}) \in Nat
    BY FS_AddElement, FS_CardinalityType
  <2>2. Cardinality(S \cup {x}) <= Cardinality(S) + 1
    <3>1. Cardinality(S \cup {x}) = IF x \in S THEN Cardinality(S) ELSE Cardinality(S) + 1
      BY FS_AddElement, ZenonT(60)
    <3> QED
      BY <1>1, <3>1
  <2>3. IsFiniteSet(T) /\ Cardinality(T) \in Nat /\ Cardinality(T) <= Cardinality(S \cup {x})
    BY <1>3, <2>1, FS_Subset, FS_CardinalityType, SMTT(30)
  <2> QED
    BY <1>1, <2>1, <2>2, <2>3
<1>4. ASSUME x \in S, T \subseteq S \ {x}
      PROVE  /\ IsFiniteSet(T) /\ Cardinality(T) \in Nat
             /\ Cardinality(T) + 1 <= Cardinality(S)
  <2>1. /\ IsFiniteSet(S \ {x}) /\ Cardinality(S \ {x}) \in Nat
        /\ Cardinality(S \ {x}) = Cardinality(S) - 1
    BY <1>4, FS_RemoveElement, FS_CardinalityType
  <2>2. IsFiniteSet(T) /\ Cardinality(T) \in Nat /\ Cardinality(T) <= Cardinality(S \ {x})
    BY <1>4, <2>1, FS_Subset, FS_CardinalityType, SMTT(30)
  <2> QED
    BY <1>1, <2>1, <2>2
<1> QED
  BY <1>1, <1>2, <1>3, <1>4

LEMMA CopiesPaidStep ==
  ASSUME PaidInv, [Next]_vars
  PROVE  CopiesPaid'
<1> USE DEF PaidInv
<1>1. Shape' /\ TopicIsCommittedNews' /\ IsFiniteSet(Committed')
  BY ShapeStep, TopicStep, CommittedStaysFinite DEF CopiesPaid
<1>2. /\ IsFiniteSet(AllCopies) /\ IsFiniteSet(Delivered) /\ IsFiniteSet(Resendable)
      /\ Resendable \subseteq Delivered
  BY DeliveredAreCommitted, FS_Subset DEF CopiesPaid, Resendable
<1>3. IsFiniteSet(Delivered') /\ IsFiniteSet(Resendable') /\ Resendable' \subseteq Delivered'
  <2>1. Delivered' \subseteq Committed'
    BY <1>1, DeliveredWillBeCommitted
  <2>2. Resendable' \subseteq Delivered'
    BY DEF Resendable
  <2> QED
    BY <1>1, <2>1, <2>2, FS_Subset
<1> DEFINE a == Cardinality(AllCopies)
           a1 == Cardinality(AllCopies')
           d == Cardinality(Delivered)
           d1 == Cardinality(Delivered')
           s == Cardinality(Resendable)
           s1 == Cardinality(Resendable')
           n == sendFailures + faults
           n1 == sendFailures' + faults'
<1>4. /\ a \in Nat /\ d \in Nat /\ s \in Nat /\ n \in Nat /\ n1 \in Nat /\ n <= n1
      /\ d1 \in Nat /\ s1 \in Nat
      /\ a + s <= d + n
  <2>1. a \in Nat /\ d \in Nat /\ s \in Nat
    BY <1>2, FS_CardinalityType
  <2>2. d1 \in Nat /\ s1 \in Nat
    BY <1>3, FS_CardinalityType
  <2>3. a + s <= d + sendFailures + faults
    BY DEF CopiesPaid
  <2> HIDE DEF a, d, s, d1, s1
  <2>4. n \in Nat /\ n1 \in Nat /\ n <= n1
    BY CountersGrow
  <2>5. a + s <= d + n
    BY CountersGrow, <2>1, <2>3
  <2> QED
    BY <2>1, <2>2, <2>4, <2>5
<1>5. ASSUME IsFiniteSet(AllCopies'), a1 \in Nat, a1 + s1 <= d1 + n1 PROVE CopiesPaid'
  BY <1>1, <1>4, <1>5, CountersGrow DEF CopiesPaid
<1>6. CASE UNCHANGED topic
  <2>1. AllCopies' = AllCopies /\ Delivered' = Delivered
    BY <1>6 DEF AllCopies, Copies, Delivered
  <2>2. CASE Resendable' \subseteq Resendable
    <3>1. s1 <= s
      BY <1>2, <2>2, Counting
    <3>2. a1 = a /\ d1 = d /\ IsFiniteSet(AllCopies')
      BY <1>2, <2>1
    <3> HIDE DEF a, a1, d, d1, s, s1, n, n1
    <3>3. a1 + s1 <= d1 + n1
      BY <1>4, <3>1, <3>2
    <3> QED
      BY <1>4, <1>5, <3>2, <3>3
  <2>3. ASSUME NEW q \in Resendable', q \notin Resendable PROVE CopiesPaid'
    <3>1. phase = "sent" /\ FirstOfBatch(q) /\ n1 = n + 1
      BY <1>3, <2>1, <2>3, ResendableStep, CountersGrow
    <3>2. ASSUME NEW t \in Resendable', t \notin Resendable PROVE t = q
      <4>1. FirstOfBatch(t) /\ t \in Requests /\ q \in Requests
        BY <1>3, <2>1, <2>3, <3>2, ResendableStep DEF Delivered
      <4> QED
        BY <3>1, <4>1, FirstIsUnique
    <3>3. Resendable' \subseteq Resendable \cup {q}
      BY <3>2
    <3>4. s1 <= s + 1
      BY <1>2, <3>3, Counting
    <3>5. a1 = a /\ d1 = d /\ IsFiniteSet(AllCopies')
      BY <1>2, <2>1
    <3> HIDE DEF a, a1, d, d1, s, s1, n, n1
    <3>6. a1 + s1 <= d1 + n1
      BY <1>4, <3>1, <3>4, <3>5
    <3> QED
      BY <1>4, <1>5, <3>5, <3>6
  <2> QED
    BY <2>2, <2>3
<1>7. ASSUME NEW r \in batch, phase = "send", FirstOfBatch(r), Land(r) PROVE CopiesPaid'
  <2>1. IsFiniteSet(AllCopies') /\ a1 \in Nat /\ a1 <= a + 1
    BY <1>1, <1>2, <1>7, LandAddsCopy, Counting
  <2>2. Delivered' = Delivered \cup {r} /\ r \in Requests /\ outbox[r].status = "PENDING"
    BY <1>7, LandDelivers DEF Shape, TxShape, TypeOK, BatchIsPending
  <2>3. \/ Resendable' \subseteq Resendable \ {r}
        \/ Resendable' \subseteq Resendable \cup {r} /\ n1 = n + 1
    BY <1>7, CostOfSend, CountersGrow
  <2>4. CASE r \in Delivered
    <3>1. r \in Resendable
      BY <1>7, <2>2, <2>4 DEF Resendable
    <3>2. d1 = d
      BY <2>2, <2>4
    <3>3. s1 + 1 <= s \/ (s1 <= s /\ n1 = n + 1)
      BY <1>2, <2>3, <3>1, Counting
    <3> HIDE DEF a, a1, d, d1, s, s1, n, n1
    <3>4. a1 + s1 <= d1 + n1
      BY <1>4, <2>1, <3>2, <3>3
    <3> QED
      BY <1>5, <2>1, <3>4
  <2>5. CASE r \notin Delivered
    <3>1. d1 = d + 1
      BY <1>2, <2>2, <2>5, FS_AddElement
    <3>2. s1 <= s \/ (s1 <= s + 1 /\ n1 = n + 1)
      BY <1>2, <2>3, Counting
    <3> HIDE DEF a, a1, d, d1, s, s1, n, n1
    <3>3. a1 + s1 <= d1 + n1
      BY <1>4, <2>1, <3>1, <3>2
    <3> QED
      BY <1>5, <2>1, <3>3
  <2> QED
    BY <2>4, <2>5
<1> QED
  BY <1>6, <1>7, TopicGrows

LEMMA PaidInvInit == Init => PaidInv
<1> SUFFICES ASSUME Init PROVE PaidInv
  OBVIOUS
<1>1. Shape /\ TopicIsCommittedNews
  BY ShapeInit DEF Init, TopicIsCommittedNews
<1>2. Committed = {} /\ Delivered = {} /\ Resendable = {} /\ AllCopies = {}
  BY DEF Init, TxInit, NoRow, Committed, Delivered, Resendable, AllCopies, Copies
<1>3. sendFailures = 0 /\ faults = 0
  BY DEF Init
<1> QED
  BY <1>1, <1>2, <1>3, FS_EmptySet DEF PaidInv, CopiesPaid

(***************************************************************************)
(* The topic holds no more copies than messages, failed sends and faults:  *)
(* a repeated copy is always the price of a failed send, a failed save, an *)
(* interruption or a crash, and each of them repeats one message at most.  *)
(***************************************************************************)
THEOREM DuplicatesCostFaults == Spec => []DuplicatesNeedFaults
<1>1. PaidInv => DuplicatesNeedFaults
  <2> SUFFICES ASSUME PaidInv PROVE DuplicatesNeedFaults
    OBVIOUS
  <2>1. IsFiniteSet(Delivered) /\ IsFiniteSet(Resendable) /\ IsFiniteSet(AllCopies)
    BY DeliveredAreCommitted, FS_Subset DEF PaidInv, CopiesPaid, Resendable
  <2>2. /\ Cardinality(Delivered) \in Nat /\ Cardinality(Resendable) \in Nat
        /\ Cardinality(AllCopies) \in Nat /\ sendFailures \in Nat /\ faults \in Nat
    BY <2>1, FS_CardinalityType DEF PaidInv, Shape, TypeOK
  <2> QED
    BY <2>2 DEF PaidInv, CopiesPaid, DuplicatesNeedFaults
<1>2. PaidInv /\ [Next]_vars => PaidInv'
  BY ShapeStep, TopicStep, CopiesPaidStep DEF PaidInv
<1> QED
  BY <1>1, <1>2, PaidInvInit, PTL DEF Spec
=============================================================================
