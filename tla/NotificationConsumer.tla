------------------------ MODULE NotificationConsumer ------------------------
(***************************************************************************)
(* The consumer of the notification service (notifications/src): one       *)
(* record of museum.events at a time is turned into a row of notifications *)
(* for each recipient, or copied to notification-dlq, and then its offset  *)
(* is committed.  Users mark their rows as read through its API.           *)
(*                                                                         *)
(* Kafka is external, through kafkajs: when eachMessage throws, the same   *)
(* record is delivered again.  The offsets count from 1; `committed` and   *)
(* `position` are the last ones committed and resolved.  So are the users  *)
(* and the registrations, which backend-rest changes meanwhile.            *)
(*                                                                         *)
(* Data abstraction: a record's value is a message, with its newsType and  *)
(* event, or one that parseNewsMessage refuses; a row is its is_read.  The *)
(* number of INSERTs tried depends on a clock, so each failure may be the  *)
(* last.                                                                   *)
(***************************************************************************)
EXTENDS Naturals, Sequences, FiniteSets

CONSTANTS Partitions,      \* partitions of museum.events
          Messages,        \* the values of messageId
          PartitionOf,     \* where the copies of a message land
          Invalid,         \* messages that parseNewsMessage refuses
          Creations,       \* messages whose newsType is EVENT_CREATED
          EventOf,         \* the event of a message
          EventIds, Users,
          SeedVisitors,    \* users that the database scripts load
          ChunkSize,       \* rows of one INSERT
          None,            \* no partition
          MaxRecords,      \* bound: records of each partition
          MaxFaults        \* bound: faults

ASSUME NotificationAssumption == /\ PartitionOf \in [Messages -> Partitions]
                                 /\ Invalid \subseteq Messages
                                 /\ Creations \subseteq Messages
                                 /\ EventOf \in [Messages -> EventIds]
                                 /\ SeedVisitors \subseteq Users
                                 /\ IsFiniteSet(Users)
                                 /\ ChunkSize \in Nat \ {0}
                                 /\ None \notin Partitions
                                 /\ MaxRecords \in Nat
                                 /\ MaxFaults \in Nat

VARIABLES topic,           \* museum.events
          committed,       \* last offset that the group committed
          position,        \* last offset that the consumer resolved
          at,              \* the partition whose next record is in hand
          pc,              \* what the handler does with it
          tx,              \* the open transaction: recipients, and rows inserted
          status,          \* of the process
          notifications,   \* table notifications, as committed
          deadLetters,     \* the records copied to notification-dlq
          visitors,        \* the users with role VISITANTE
          registrations,   \* table events_registrations
          faults,          \* faults so far
          saved,           \* history: the records whose transaction committed
          steady           \* history: recipients of m ever since it was published

kafkaVars == <<topic, committed>>
handlerVars == <<position, at, pc, tx, status>>
userVars == <<visitors, registrations>>
storeVars == <<notifications, deadLetters, saved>>
vars == <<kafkaVars, handlerVars, userVars, storeVars, faults, steady>>

Record == [partition : Partitions, offset : Nat \ {0}]
NoTx == [to |-> {}, inserted |-> {}]

TypeOK == /\ topic \in [Partitions -> Seq(Messages)]
          /\ committed \in [Partitions -> Nat]
          /\ position \in [Partitions -> Nat]
          /\ at \in Partitions \cup {None}
          /\ pc \in {"idle", "save", "insert", "deadletter", "commit"}
          /\ tx \in [to : SUBSET Users, inserted : SUBSET Users]
          /\ status \in {"running", "stopping", "down"}
          /\ notifications \in [Messages -> [Users -> {"none", "unread", "read"}]]
          /\ deadLetters \subseteq Record
          /\ visitors \subseteq Users
          /\ registrations \subseteq EventIds \X Users
          /\ faults \in 0..MaxFaults
          /\ saved \subseteq Record
          /\ steady \in [Messages -> SUBSET Users]
          /\ at = None <=> pc = "idle"
          /\ tx.inserted \subseteq tx.to

Init == /\ topic = [p \in Partitions |-> <<>>]
        /\ committed = [p \in Partitions |-> 0]
        /\ position = committed
        /\ at = None
        /\ pc = "idle"
        /\ tx = NoTx
        /\ status = "running"
        /\ notifications = [m \in Messages |-> [u \in Users |-> "none"]]
        /\ deadLetters = {}
        /\ visitors = SeedVisitors
        /\ registrations = {}
        /\ faults = 0
        /\ saved = {}
        /\ steady = [m \in Messages |-> {}]

At(p, o) == [partition |-> p, offset |-> o]
MessageOf(rec) == topic[rec.partition][rec.offset]
Current == At(at, position[at] + 1)
Message == MessageOf(Current)

Published == {m \in Messages : \E i \in DOMAIN topic[PartitionOf[m]] :
                                  topic[PartitionOf[m]][i] = m}

Fault == /\ faults < MaxFaults
         /\ faults' = faults + 1

Notified(m) == {u \in Users : notifications[m][u] # "none"}

\* findRecipientIds: all the visitors, or those registered for the event.
FindRecipients(m) == IF m \in Creations
                     THEN visitors
                     ELSE {u \in Users : <<EventOf[m], u>> \in registrations}

-----------------------------------------------------------------------------
(***************************************************************************)
(* Kafka and the users                                                     *)
(***************************************************************************)
\* backend-rest appends a message, for the first time or once more.
Publish(m) == LET p == PartitionOf[m] IN
              /\ Len(topic[p]) < MaxRecords
              /\ topic' = [topic EXCEPT ![p] = Append(@, m)]
              /\ steady' = IF m \in Published THEN steady
                           ELSE [steady EXCEPT ![m] = FindRecipients(m)]
              /\ UNCHANGED <<committed, handlerVars, userVars, storeVars, faults>>

\* backend-rest adds a user, or a registration.
SignUp(u) == /\ u \notin visitors
             /\ visitors' = visitors \cup {u}
             /\ UNCHANGED registrations

Join(e, u) == /\ u \in visitors
              /\ <<e, u>> \notin registrations
              /\ registrations' = registrations \cup {<<e, u>>}
              /\ UNCHANGED visitors

UsersGrow == /\ \E u \in Users : SignUp(u) \/ \E e \in EventIds : Join(e, u)
             /\ UNCHANGED <<kafkaVars, handlerVars, storeVars, faults, steady>>

Leave(e, u) == /\ <<e, u>> \in registrations
               /\ registrations' = registrations \ {<<e, u>>}
               /\ steady' = [m \in Messages |->
                                IF m \in Creations \/ EventOf[m] # e
                                THEN steady[m] ELSE steady[m] \ {u}]
               /\ UNCHANGED <<kafkaVars, handlerVars, storeVars, visitors, faults>>

\* PATCH /api/notifications/read
MarkAllRead(u) ==
    /\ notifications' = [m \in Messages |->
                            IF u \in Notified(m)
                            THEN [notifications[m] EXCEPT ![u] = "read"]
                            ELSE notifications[m]]
    /\ UNCHANGED <<kafkaVars, handlerVars, userVars, deadLetters, saved, faults, steady>>

-----------------------------------------------------------------------------
(***************************************************************************)
(* handle                                                                  *)
(***************************************************************************)
\* eachMessage: the next record of some partition, one at a time.
Take(p) == /\ status # "down" /\ pc = "idle"
           /\ position[p] < Len(topic[p])
           /\ at' = p
           /\ pc' = IF topic[p][position[p] + 1] \in Invalid THEN "deadletter" ELSE "save"
           /\ UNCHANGED <<kafkaVars, position, tx, status, userVars, storeVars,
                          faults, steady>>

\* saveNotifications: the transaction begins with its SELECT.
BeginSave == /\ pc = "save"
             /\ tx' = [to |-> FindRecipients(Message), inserted |-> {}]
             /\ pc' = "insert"
             /\ UNCHANGED <<kafkaVars, position, at, status, userVars, storeVars,
                            faults, steady>>

\* Mutated form: a row that is there becomes unread again.
UpsertResettingRead(m, S) ==
    [notifications EXCEPT ![m] = [u \in Users |-> IF u \in S THEN "unread" ELSE @[u]]]

\* INSERT ... ON DUPLICATE KEY UPDATE id = id: the rows that are there stay.
Upsert(m, S) ==
    [notifications EXCEPT ![m] =
        [u \in Users |-> IF u \in S /\ @[u] = "none" THEN "unread" ELSE @[u]]]

\* The next ChunkSize recipients, or those that are left.
IsChunk(C) == /\ C # {} /\ C \subseteq tx.to \ tx.inserted
              /\ Cardinality(C) <= ChunkSize
              /\ Cardinality(C) = ChunkSize \/ C = tx.to \ tx.inserted

\* Mutated form: each INSERT commits on its own.
InsertChunkAutocommit == /\ pc = "insert"
                         /\ \E C \in SUBSET Users :
                               /\ IsChunk(C)
                               /\ tx' = [tx EXCEPT !.inserted = @ \cup C]
                               /\ notifications' = Upsert(Message, C)
                         /\ UNCHANGED <<kafkaVars, position, at, pc, status, userVars,
                                        deadLetters, saved, faults, steady>>

InsertChunk == /\ pc = "insert"
               /\ \E C \in SUBSET Users :
                     /\ IsChunk(C)
                     /\ tx' = [tx EXCEPT !.inserted = @ \cup C]
               /\ UNCHANGED <<kafkaVars, position, at, pc, status, userVars, storeVars,
                              faults, steady>>

\* The transaction commits in MySQL.
Land == /\ pc = "insert"
        /\ tx.inserted = tx.to
        /\ notifications' = Upsert(Message, tx.inserted)
        /\ saved' = saved \cup {Current}
        /\ UNCHANGED deadLetters

CommitSave == /\ Land
              /\ pc' = "commit"
              /\ tx' = NoTx
              /\ UNCHANGED <<kafkaVars, position, at, status, userVars, faults, steady>>

\* Mutated form: the record stays in hand.
LetGoKeepingIt == UNCHANGED at /\ pc' = "idle" /\ tx' = NoTx

\* The record in hand is let go: eachMessage throws, and it comes again.
LetGo == at' = None /\ pc' = "idle" /\ tx' = NoTx

(***************************************************************************)
(* The connection, a statement or the COMMIT fails; that one may have been *)
(* carried out.  Then there is another try, or the time for retries is     *)
(* over, or a heartbeat of the wait throws.                                *)
(***************************************************************************)
SaveFails ==
    /\ pc \in {"save", "insert"}
    /\ Fault
    /\ Land \/ UNCHANGED storeVars
    /\ \/ LetGo
       \/ pc' \in {"save", "deadletter"} /\ tx' = NoTx /\ UNCHANGED at
    /\ UNCHANGED <<kafkaVars, position, status, userVars, steady>>

DeadLetterSucceeds == /\ pc = "deadletter"
                      /\ deadLetters' = deadLetters \cup {Current}
                      /\ pc' = "commit"
                      /\ UNCHANGED <<kafkaVars, position, at, tx, status, userVars,
                                     notifications, saved, faults, steady>>

\* Mutated form: the failure of the DLQ is ignored.
DeadLetterFailsAndGoesOn == /\ pc = "deadletter"
                            /\ Fault
                            /\ pc' = "commit"
                            /\ UNCHANGED <<kafkaVars, position, at, tx, status, userVars,
                                           storeVars, steady>>

\* FatalConsumerError: onFatal begins the shutdown.
DeadLetterFails == /\ pc = "deadletter"
                   /\ Fault
                   /\ deadLetters' \in {deadLetters, deadLetters \cup {Current}}
                   /\ LetGo
                   /\ status' = "stopping"
                   /\ UNCHANGED <<kafkaVars, position, userVars, notifications, saved,
                                  steady>>

CommittedUpTo(rec) == [committed EXCEPT ![rec.partition] = rec.offset]

CommitSucceeds == /\ pc = "commit"
                  /\ committed' = CommittedUpTo(Current)
                  /\ position' = [position EXCEPT ![at] = @ + 1]
                  /\ LetGo
                  /\ UNCHANGED <<topic, status, userVars, storeVars, faults, steady>>

\* The broker may have the offset; the record comes again all the same.
CommitFails == /\ pc = "commit"
               /\ Fault
               /\ committed' \in {committed, CommittedUpTo(Current)}
               /\ LetGo
               /\ UNCHANGED <<topic, position, status, userVars, storeVars, steady>>

-----------------------------------------------------------------------------
(***************************************************************************)
(* The process                                                             *)
(***************************************************************************)
\* The consumer leaves the group and joins it again, between two records.
Rejoin == /\ status # "down" /\ pc = "idle"
          /\ Fault
          /\ position' = committed
          /\ UNCHANGED <<kafkaVars, at, pc, tx, status, userVars, storeVars, steady>>

\* SIGTERM: what the handler does goes on until the process exits.
Shutdown == /\ status = "running"
            /\ Fault
            /\ status' = "stopping"
            /\ UNCHANGED <<kafkaVars, position, at, pc, tx, userVars, storeVars, steady>>

\* MySQL rolls back the transaction that is open.
GoDown == /\ status' = "down"
          /\ LetGo
          /\ UNCHANGED <<kafkaVars, position, userVars, storeVars, steady>>

Exit == status = "stopping" /\ GoDown /\ UNCHANGED faults

Crash == status # "down" /\ Fault /\ GoDown

\* Mutated form: fromBeginning is FALSE and nothing was committed yet.
RestartAtEnd ==
    /\ status = "down"
    /\ status' = "running"
    /\ position' = [p \in Partitions |-> IF committed[p] = 0 THEN Len(topic[p])
                                                            ELSE committed[p]]
    /\ LetGo
    /\ UNCHANGED <<kafkaVars, userVars, storeVars, faults, steady>>

\* restart: unless-stopped; a new consumer starts at the committed offsets.
Restart == /\ status = "down"
           /\ status' = "running"
           /\ position' = committed
           /\ LetGo
           /\ UNCHANGED <<kafkaVars, userVars, storeVars, faults, steady>>

-----------------------------------------------------------------------------
HandlerNext == \/ \E p \in Partitions : Take(p)
               \/ BeginSave \/ InsertChunk \/ CommitSave \/ SaveFails
               \/ DeadLetterSucceeds \/ DeadLetterFails
               \/ CommitSucceeds \/ CommitFails

ProcessNext == Rejoin \/ Shutdown \/ Exit \/ Crash \/ Restart

BackendNext == \/ \E m \in Messages : Publish(m)
               \/ UsersGrow
               \/ \E e \in EventIds, u \in Users : Leave(e, u)

Next == \/ HandlerNext \/ ProcessNext \/ BackendNext
        \/ \E u \in Users : MarkAllRead(u)

Spec == Init /\ [][Next]_vars

(***************************************************************************)
(* kafkajs goes on to the next record, of whatever partition; each step of *)
(* the handler ends or times out; the shutdown has a deadline, and then    *)
(* the container restarts.  Nothing is assumed of the users.               *)
(***************************************************************************)
FairSpec == /\ Spec
            /\ \A p \in Partitions : WF_vars(Take(p))
            /\ WF_vars(BeginSave) /\ WF_vars(InsertChunk) /\ WF_vars(CommitSave)
            /\ WF_vars(DeadLetterSucceeds) /\ WF_vars(CommitSucceeds)
            /\ WF_vars(Exit) /\ WF_vars(Restart)

-----------------------------------------------------------------------------
\* A record is dealt with when its transaction committed or the DLQ has a copy.
Handled(rec) == rec \in saved \cup deadLetters

HandledMessages == {m \in Messages : \E rec \in saved \cup deadLetters : MessageOf(rec) = m}

(***************************************************************************)
(* The inductive invariant behind NothingIsSkipped: the handler's record   *)
(* is in the topic, and is handled by the time its offset is committed;    *)
(* the consumer has gone past handled records only.                        *)
(***************************************************************************)
OffsetsExist ==
    /\ \A p \in Partitions : committed[p] <= Len(topic[p]) /\ position[p] <= Len(topic[p])
    /\ at # None => position[at] < Len(topic[at])

PassedIsHandled == \A p \in Partitions : \A o \in 1..position[p] : Handled(At(p, o))

CommitIsHandled == pc = "commit" => Handled(Current)

(***************************************************************************)
(* The one behind SavesAreWhole: who was a recipient ever since the        *)
(* publication is one now, and is in the SELECT of the transaction; only   *)
(* records of the topic are saved, and their messages alone are notified.  *)
(***************************************************************************)
SteadyAreRecipients == \A m \in Messages : steady[m] \subseteq FindRecipients(m)

TxIsWhole == pc = "insert" => steady[Message] \subseteq tx.to

SavedExist == \A rec \in saved : rec.offset \in 1..Len(topic[rec.partition])

InTheirPartition ==
    \A p \in Partitions : \A o \in 1..Len(topic[p]) : PartitionOf[topic[p][o]] = p

NotifiedIsPublished == \A m \in Messages : Notified(m) # {} => m \in Published

-----------------------------------------------------------------------------
(***************************************************************************)
(* Properties                                                              *)
(***************************************************************************)
(***************************************************************************)
(* No message is lost: whatever retries, shutdowns, crashes and rejoins    *)
(* there were, every record up to a committed offset was saved whole or is *)
(* in the DLQ (README, `El offset de Kafka se confirma recien despues del  *)
(* INSERT`, and the comments of processor.js and kafka.js).                *)
(***************************************************************************)
NothingIsSkipped ==
    \A p \in Partitions : \A o \in 1..committed[p] : Handled(At(p, o))

(***************************************************************************)
(* All or nothing: as soon as one row of a message can be seen, or once it *)
(* is saved, every user that was a recipient from its publication on has   *)
(* one, in however many INSERTs and attempts they were written             *)
(* (saveNotifications, `o se guardan todas o ninguna`).                    *)
(***************************************************************************)
SavesAreWhole ==
    \A m \in Messages :
        Notified(m) # {} \/ (\E rec \in saved : MessageOf(rec) = m)
            => steady[m] \subseteq Notified(m)

(***************************************************************************)
(* What a user has read stays read, and no notification goes away, though  *)
(* the message is delivered and saved again.                               *)
(***************************************************************************)
ReadStaysRead ==
    [][\A m \in Messages, u \in Users :
          /\ notifications[m][u] = "read" => notifications'[m][u] = "read"
          /\ u \in Notified(m) => notifications'[m][u] # "none"]_vars

(***************************************************************************)
(* The consumer implements at-least-once delivery of what is published:    *)
(* every message is saved or in the DLQ in the end, and nothing else is.   *)
(***************************************************************************)
Delivery == INSTANCE NewsDelivery WITH accepted <- Published,
                                       delivered <- HandledMessages

EveryMessageIsHandled == Delivery!NewsSpec
=============================================================================
