--------------------------- MODULE AuditConsumer ----------------------------
(***************************************************************************)
(* The consumer of the audit service (audit/main.go): consumeLoop fetches  *)
(* the records of museum.events and puts them in a channel, persistLoop    *)
(* takes them one by one, inserts each in audit_log or copies it to the    *)
(* topic audit-dlq, and then commits its offset.                           *)
(*                                                                         *)
(* Kafka is external: partitions that grow at the end (the outbox of       *)
(* backend-rest may append a message more than once), an offset that the   *)
(* group has committed, and a group that may reassign the partitions, when *)
(* the reader goes back to the committed offsets.  The offsets count from  *)
(* 1, and `committed` is the last one committed.                           *)
(*                                                                         *)
(* Data abstraction: a record's value is a message, and all that matters   *)
(* of it is whether persistLoop's checks accept it and whether audit_log   *)
(* admits its columns.                                                     *)
(***************************************************************************)
EXTENDS Naturals, Sequences, FiniteSets

CONSTANTS Partitions,      \* partitions of museum.events
          Messages,        \* the values of messageId
          PartitionOf,     \* where the copies of a message land
          Malformed,       \* messages that fail persistLoop's checks
          Rejected,        \* messages that no INSERT into audit_log admits
          Buffer,          \* records in flight: the channel and both goroutines' own
          InsertAttempts,  \* INSERTs that are tried for one record
          None,            \* no row
          MaxRecords,      \* bound: records of each partition
          MaxDbFailures,   \* bound: INSERTs of good messages that fail
          MaxFaults        \* bound: other faults

Record == [partition : Partitions, offset : Nat \ {0}]

ASSUME AuditAssumption == /\ PartitionOf \in [Messages -> Partitions]
                          /\ Malformed \subseteq Messages
                          /\ Rejected \subseteq Messages \ Malformed
                          /\ Buffer \in Nat \ {0}
                          /\ InsertAttempts \in Nat \ {0}
                          /\ MaxRecords \in Nat
                          /\ MaxDbFailures \in Nat
                          /\ MaxFaults \in Nat
                          /\ None \notin Record

VARIABLES topic,           \* museum.events
          committed,       \* last offset that the group committed
          position,        \* last offset that the reader fetched
          inFlight,        \* fetched records, the first one in persistLoop's hands
          pc,              \* what persistLoop does with it
          attempts,        \* INSERTs of it that failed
          status,          \* of the process
          auditLog,        \* table audit_log: the record stored for a messageId
          deadLetters,     \* the records copied to audit-dlq
          dbFailures,      \* failed INSERTs of good messages so far
          faults           \* other faults so far

kafkaVars == <<topic, committed>>
loopVars == <<position, inFlight, pc, attempts, status>>
storeVars == <<auditLog, deadLetters>>
vars == <<kafkaVars, loopVars, storeVars, dbFailures, faults>>

TypeOK == /\ topic \in [Partitions -> Seq(Messages)]
          /\ committed \in [Partitions -> Nat]
          /\ position \in [Partitions -> Nat]
          /\ inFlight \in Seq(Record)
          /\ pc \in {"take", "insert", "deadletter", "commit"}
          /\ attempts \in 0..InsertAttempts
          /\ status \in {"running", "cancelled", "down"}
          /\ auditLog \in [Messages -> Record \cup {None}]
          /\ deadLetters \subseteq Record
          /\ dbFailures \in 0..MaxDbFailures
          /\ faults \in 0..MaxFaults

Init == /\ topic = [p \in Partitions |-> <<>>]
        /\ committed = [p \in Partitions |-> 0]
        /\ position = committed
        /\ inFlight = <<>>
        /\ pc = "take"
        /\ attempts = 0
        /\ status = "running"
        /\ auditLog = [m \in Messages |-> None]
        /\ deadLetters = {}
        /\ dbFailures = 0
        /\ faults = 0

MessageOf(rec) == topic[rec.partition][rec.offset]
Current == Head(inFlight)
Message == MessageOf(Current)

Fault == /\ faults < MaxFaults
         /\ faults' = faults + 1

-----------------------------------------------------------------------------
(***************************************************************************)
(* Kafka                                                                   *)
(***************************************************************************)
\* The publisher appends a message, for the first time or once more.
Publish(m) == LET p == PartitionOf[m] IN
              /\ Len(topic[p]) < MaxRecords
              /\ topic' = [topic EXCEPT ![p] = Append(@, m)]
              /\ UNCHANGED <<committed, loopVars, storeVars, dbFailures, faults>>

\* The group is reassigned; what is in the channel stays there.
Rejoin == /\ status # "down"
          /\ position # committed
          /\ Fault
          /\ position' = committed
          /\ UNCHANGED <<kafkaVars, inFlight, pc, attempts, status, storeVars, dbFailures>>

\* consumeLoop: each partition in the order of its offsets, if there is space.
Fetch(p) == /\ status = "running"
            /\ position[p] < Len(topic[p])
            /\ Len(inFlight) < Buffer
            /\ position' = [position EXCEPT ![p] = @ + 1]
            /\ inFlight' = Append(inFlight, [partition |-> p, offset |-> position[p] + 1])
            /\ UNCHANGED <<kafkaVars, pc, attempts, status, storeVars, dbFailures, faults>>

-----------------------------------------------------------------------------
(***************************************************************************)
(* persistLoop                                                             *)
(***************************************************************************)
\* Mutated form: the attempts of the record before are not forgotten.
TakeWithoutReset == /\ status = "running" /\ pc = "take" /\ inFlight # <<>>
                    /\ pc' = IF Message \in Malformed THEN "deadletter" ELSE "insert"
                    /\ UNCHANGED <<kafkaVars, position, inFlight, attempts, status,
                                   storeVars, dbFailures, faults>>

Take == /\ status = "running" /\ pc = "take" /\ inFlight # <<>>
        /\ pc' = IF Message \in Malformed THEN "deadletter" ELSE "insert"
        /\ attempts' = 0
        /\ UNCHANGED <<kafkaVars, position, inFlight, status, storeVars,
                       dbFailures, faults>>

\* Mutated form: the INSERT replaces the row (REPLACE INTO).
StoreReplacing(log, rec) == [log EXCEPT ![MessageOf(rec)] = rec]

\* INSERT ... ON DUPLICATE KEY UPDATE id = id: the row that is there stays.
Store(log, rec) == [log EXCEPT ![MessageOf(rec)] = IF @ = None THEN rec ELSE @]

InsertSucceeds == /\ pc = "insert"
                  /\ Message \notin Rejected
                  /\ auditLog' = Store(auditLog, Current)
                  /\ pc' = "commit"
                  /\ UNCHANGED <<kafkaVars, position, inFlight, attempts, status,
                                 deadLetters, dbFailures, faults>>

\* Mutated form: one attempt less (attempt < 5).
InsertFailsOnceLess ==
    /\ pc = "insert"
    /\ status = "running"
    /\ IF Message \in Rejected
       THEN UNCHANGED <<auditLog, dbFailures>>
       ELSE /\ dbFailures < MaxDbFailures
            /\ dbFailures' = dbFailures + 1
            /\ auditLog' \in {auditLog, Store(auditLog, Current)}
    /\ attempts' = attempts + 1
    /\ pc' = IF attempts' + 1 = InsertAttempts THEN "deadletter" ELSE "insert"
    /\ UNCHANGED <<kafkaVars, position, inFlight, status, deadLetters, faults>>

\* A failed INSERT of a good message may have stored it; the next one is tried.
InsertFails ==
    /\ pc = "insert"
    /\ status = "running"
    /\ IF Message \in Rejected
       THEN UNCHANGED <<auditLog, dbFailures>>
       ELSE /\ dbFailures < MaxDbFailures
            /\ dbFailures' = dbFailures + 1
            /\ auditLog' \in {auditLog, Store(auditLog, Current)}
    /\ attempts' = attempts + 1
    /\ pc' = IF attempts' = InsertAttempts THEN "deadletter" ELSE "insert"
    /\ UNCHANGED <<kafkaVars, position, inFlight, status, deadLetters, faults>>

DeadLetterSucceeds == /\ pc = "deadletter"
                      /\ deadLetters' = deadLetters \cup {Current}
                      /\ pc' = "commit"
                      /\ UNCHANGED <<kafkaVars, position, inFlight, attempts, status,
                                     auditLog, dbFailures, faults>>

\* The next record, whether or not the offset of this one was committed.
NextRecord == /\ inFlight' = Tail(inFlight)
              /\ pc' = "take"
              /\ UNCHANGED <<topic, position, attempts, status, storeVars, dbFailures>>

CommittedUpTo(rec) == [committed EXCEPT ![rec.partition] = rec.offset]

CommitSucceeds == /\ pc = "commit"
                  /\ committed' = CommittedUpTo(Current)
                  /\ NextRecord
                  /\ UNCHANGED faults

\* The error is logged and nothing else.  The broker may have the offset.
CommitFails == /\ pc = "commit"
               /\ Fault
               /\ committed' \in {committed, CommittedUpTo(Current)}
               /\ NextRecord

-----------------------------------------------------------------------------
(***************************************************************************)
(* The process: what it has in flight is lost with it.                     *)
(***************************************************************************)
GoDown == /\ status' = "down"
          /\ inFlight' = <<>>
          /\ pc' = "take"
          /\ attempts' = 0
          /\ UNCHANGED <<kafkaVars, position, dbFailures>>

\* Mutated form: the record is skipped when the DLQ does not answer.
DeadLetterFailsAndGoesOn == /\ pc = "deadletter"
                            /\ Fault
                            /\ pc' = "commit"
                            /\ UNCHANGED <<kafkaVars, position, inFlight, attempts,
                                           status, storeVars, dbFailures>>

\* The DLQ does not answer, or too late: the process stops without committing.
DeadLetterFails == /\ pc = "deadletter"
                   /\ Fault
                   /\ deadLetters' \in {deadLetters, deadLetters \cup {Current}}
                   /\ GoDown
                   /\ UNCHANGED auditLog

\* SIGTERM cancels the context.
Cancel == /\ status = "running"
          /\ Fault
          /\ status' = "cancelled"
          /\ UNCHANGED <<kafkaVars, position, inFlight, pc, attempts, storeVars, dbFailures>>

(***************************************************************************)
(* persistLoop sees that the context is cancelled: in its INSERT or in the *)
(* wait after it, in the write to the DLQ, or with the next record of the  *)
(* channel, which it takes only to find that out.  The statement that was  *)
(* cancelled may have been carried out.  A commit has its own context.     *)
(***************************************************************************)
StopOnCancel ==
    /\ status = "cancelled"
    /\ pc # "commit"
    /\ \/ UNCHANGED storeVars
       \/ /\ pc = "insert" /\ Message \notin Rejected
          /\ auditLog' = Store(auditLog, Current)
          /\ UNCHANGED deadLetters
       \/ /\ inFlight # <<>>
          /\ pc = "deadletter" \/ (pc = "take" /\ Message \in Malformed)
          /\ deadLetters' = deadLetters \cup {Current}
          /\ UNCHANGED auditLog
    /\ GoDown
    /\ UNCHANGED faults

\* The process dies.
Crash == /\ status # "down"
         /\ Fault
         /\ GoDown
         /\ UNCHANGED storeVars

\* Mutated form: StartOffset is LastOffset and nothing was committed yet.
RestartAtEnd ==
    /\ status = "down"
    /\ status' = "running"
    /\ position' = [p \in Partitions |-> IF committed[p] = 0 THEN Len(topic[p])
                                                            ELSE committed[p]]
    /\ UNCHANGED <<kafkaVars, inFlight, pc, attempts, storeVars, dbFailures, faults>>

\* restart: unless-stopped; the reader starts at the committed offsets.
Restart == /\ status = "down"
           /\ status' = "running"
           /\ position' = committed
           /\ UNCHANGED <<kafkaVars, inFlight, pc, attempts, storeVars, dbFailures, faults>>

-----------------------------------------------------------------------------
Next == \/ \E m \in Messages : Publish(m)
        \/ \E p \in Partitions : Fetch(p)
        \/ Take \/ InsertSucceeds \/ DeadLetterSucceeds \/ CommitSucceeds
        \/ Rejoin \/ InsertFails \/ CommitFails \/ DeadLetterFails
        \/ Cancel \/ StopOnCancel \/ Crash \/ Restart

Spec == Init /\ [][Next]_vars

(***************************************************************************)
(* consumeLoop and persistLoop are goroutines that the Go scheduler runs,  *)
(* a failing INSERT is tried again, and the container restarts.            *)
(***************************************************************************)
FairSpec == /\ Spec
            /\ \A p \in Partitions : WF_vars(Fetch(p))
            /\ WF_vars(Take) /\ WF_vars(InsertSucceeds \/ InsertFails)
            /\ WF_vars(DeadLetterSucceeds) /\ WF_vars(CommitSucceeds)
            /\ WF_vars(StopOnCancel) /\ WF_vars(Restart)

-----------------------------------------------------------------------------
\* A record is dealt with when its message has a row or it has a copy in the DLQ.
Handled(rec) == auditLog[MessageOf(rec)] # None \/ rec \in deadLetters

At(p, o) == [partition |-> p, offset |-> o]

(***************************************************************************)
(* The inductive invariant behind NothingIsSkipped.  A record in flight    *)
(* may be there twice, after a Rejoin, but whatever comes before it in its *)
(* partition is handled or precedes it; whatever the reader went past is   *)
(* handled or in flight.                                                   *)
(***************************************************************************)
OffsetsExist ==
    /\ \A p \in Partitions : committed[p] <= Len(topic[p]) /\ position[p] <= Len(topic[p])
    /\ \A i \in DOMAIN inFlight : inFlight[i].offset <= Len(topic[inFlight[i].partition])

InFlightInOrder ==
    \A i \in DOMAIN inFlight : \A o \in 1..(inFlight[i].offset - 1) :
        LET rec == At(inFlight[i].partition, o)
        IN  Handled(rec) \/ \E j \in 1..(i - 1) : inFlight[j] = rec

FetchedIsInFlight ==
    status # "down" => \A p \in Partitions : \A o \in 1..position[p] :
        Handled(At(p, o)) \/ \E j \in DOMAIN inFlight : inFlight[j] = At(p, o)

Busy == /\ pc # "take" => inFlight # <<>>
        /\ pc = "insert" => attempts < InsertAttempts
        /\ pc = "commit" => Handled(Current)

(***************************************************************************)
(* The inductive invariant behind DeadLettersNeedFailures.  The failed     *)
(* INSERTs pay for the good records of the DLQ, and for the good one that  *)
(* persistLoop is trying to store or to copy.                              *)
(***************************************************************************)
Good(rec) == MessageOf(rec) \notin Malformed \cup Rejected

GoodDeadLetters == {rec \in deadLetters : Good(rec)}

Spent == IF pc \in {"insert", "deadletter"} /\ Good(Current) THEN attempts ELSE 0

DeadLettersPaid ==
    /\ \A rec \in deadLetters : rec.offset <= Len(topic[rec.partition])
    /\ pc = "deadletter" /\ Good(Current) => attempts = InsertAttempts
    /\ IsFiniteSet(GoodDeadLetters)
    /\ Cardinality(GoodDeadLetters) * InsertAttempts + Spent <= dbFailures

\* The publisher puts a message in its own partition.
InTheirPartition ==
    \A p \in Partitions : \A o \in DOMAIN topic[p] : PartitionOf[topic[p][o]] = p

-----------------------------------------------------------------------------
(***************************************************************************)
(* Properties                                                              *)
(***************************************************************************)
(***************************************************************************)
(* No message is lost: whatever retries, restarts, failed commits and      *)
(* reassignments there were, every record up to a committed offset is in   *)
(* audit_log or in the DLQ (README, `El offset se confirma recien despues  *)
(* del INSERT`, and the comments of main and persistLoop).                 *)
(***************************************************************************)
NothingIsSkipped ==
    \A p \in Partitions : \A o \in 1..committed[p] : Handled(At(p, o))

(***************************************************************************)
(* A message goes to the DLQ only for its own sake: each good record there *)
(* cost as many failed INSERTs as the loop allows one record.              *)
(***************************************************************************)
DeadLettersNeedFailures ==
    Cardinality(GoodDeadLetters) * InsertAttempts <= dbFailures

(***************************************************************************)
(* The audit log only grows: a message that Kafka delivers again, from a   *)
(* later offset or after a restart, leaves the row of its first storing.   *)
(***************************************************************************)
RowsAreFinal ==
    [][\A m \in Messages : auditLog[m] # None => auditLog'[m] = auditLog[m]]_vars

\* The messages in the topic, and those that the service has dealt with.
Published == {m \in Messages : \E i \in DOMAIN topic[PartitionOf[m]] :
                                  topic[PartitionOf[m]][i] = m}

Audited == {m \in Messages : \/ auditLog[m] # None
                             \/ \E rec \in deadLetters : MessageOf(rec) = m}

(***************************************************************************)
(* The consumer implements at-least-once delivery of what is published to  *)
(* audit_log or the DLQ: nothing else ever gets there, and every message   *)
(* does in the end.                                                        *)
(***************************************************************************)
Delivery == INSTANCE NewsDelivery WITH accepted <- Published, delivered <- Audited

EveryMessageIsAudited == Delivery!NewsSpec
=============================================================================
