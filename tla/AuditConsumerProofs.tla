------------------------ MODULE AuditConsumerProofs -------------------------
(***************************************************************************)
(* The audit consumer loses no message, for every number of partitions,    *)
(* messages, failures and restarts, and every size of its channel.         *)
(***************************************************************************)
EXTENDS AuditConsumer, FiniteSetTheorems, TLAPS

USE AuditAssumption

AuditInv == /\ TypeOK /\ Busy /\ OffsetsExist
            /\ InFlightInOrder /\ FetchedIsInFlight /\ NothingIsSkipped

\* A record in persistLoop's hands is in the topic.
LEMMA CurrentExists ==
  ASSUME TypeOK, OffsetsExist, inFlight # <<>>
  PROVE  /\ Current \in Record /\ Current = inFlight[1] /\ 1 \in DOMAIN inFlight
         /\ Current.offset \in 1..Len(topic[Current.partition])
         /\ Message \in Messages
<1>1. inFlight \in Seq(Record) /\ Len(inFlight) \in Nat /\ Len(inFlight) > 0
  BY DEF TypeOK
<1>2. Current \in Record /\ Current = inFlight[1] /\ 1 \in DOMAIN inFlight
  BY <1>1 DEF Current
<1>3. Current.partition \in Partitions /\ Current.offset \in Nat \ {0}
  BY <1>2 DEF Record
<1>4. Current.offset \in 1..Len(topic[Current.partition])
  BY <1>2, <1>3 DEF OffsetsExist, TypeOK
<1>5. topic[Current.partition] \in Seq(Messages)
  BY <1>3 DEF TypeOK
<1> QED
  BY <1>2, <1>4, <1>5 DEF Message, MessageOf

LEMMA TypeStep == AuditInv /\ [Next]_vars => TypeOK'
<1> SUFFICES ASSUME AuditInv, [Next]_vars PROVE TypeOK'
  OBVIOUS
<1> USE DEF AuditInv
<1>0. /\ topic \in [Partitions -> Seq(Messages)] /\ committed \in [Partitions -> Nat]
      /\ position \in [Partitions -> Nat] /\ inFlight \in Seq(Record)
      /\ auditLog \in [Messages -> Record \cup {None}]
      /\ attempts \in 0..InsertAttempts /\ faults \in 0..MaxFaults
  BY DEF TypeOK
<1>f. Fault => faults' \in 0..MaxFaults
  BY <1>0 DEF Fault
<1>c. inFlight # <<>> => /\ Current \in Record /\ Message \in Messages
                         /\ MessageOf(Current) \in Messages
                         /\ Current.partition \in Partitions /\ Current.offset \in Nat
  BY CurrentExists DEF Message, Record
<1>s. inFlight # <<>> => Store(auditLog, Current) \in [Messages -> Record \cup {None}]
  BY <1>0, <1>c DEF Store
<1>t. inFlight # <<>> => Tail(inFlight) \in Seq(Record)
  BY <1>0
<1>u. inFlight # <<>> => CommittedUpTo(Current) \in [Partitions -> Nat]
  BY <1>0, <1>c DEF CommittedUpTo
<1> USE DEF TypeOK, kafkaVars, loopVars, storeVars
<1>1. ASSUME NEW m \in Messages, Publish(m) PROVE TypeOK'
  <2>1. PartitionOf[m] \in Partitions /\ topic[PartitionOf[m]] \in Seq(Messages)
    OBVIOUS
  <2>2. Append(topic[PartitionOf[m]], m) \in Seq(Messages)
    BY <2>1
  <2> QED
    BY <1>1, <2>2 DEF Publish
<1>2. ASSUME NEW p \in Partitions, Fetch(p) PROVE TypeOK'
  <2>1. position[p] \in Nat
    OBVIOUS
  <2>2. [partition |-> p, offset |-> position[p] + 1] \in Record
    BY <2>1 DEF Record
  <2>3. /\ inFlight' = Append(inFlight, [partition |-> p, offset |-> position[p] + 1])
        /\ position' = [position EXCEPT ![p] = position[p] + 1]
    BY <1>2 DEF Fetch
  <2>4. inFlight' \in Seq(Record)
    BY <1>0, <2>2, <2>3
  <2>5. position' \in [Partitions -> Nat]
    BY <1>0, <2>1, <2>3
  <2> QED
    BY <1>2, <2>4, <2>5 DEF Fetch
<1>3. CASE Take
  BY <1>3 DEF Take
<1>4. CASE InsertSucceeds
  BY <1>4, <1>s DEF InsertSucceeds, Busy
<1>5. CASE InsertFails
  <2>1. attempts + 1 \in 0..InsertAttempts
    BY <1>5 DEF InsertFails, Busy
  <2>2. auditLog' \in [Messages -> Record \cup {None}]
    BY <1>5, <1>s DEF InsertFails, Busy
  <2>3. dbFailures' \in 0..MaxDbFailures
    BY <1>5 DEF InsertFails
  <2> QED
    BY <1>5, <2>1, <2>2, <2>3 DEF InsertFails
<1>6. CASE DeadLetterSucceeds
  BY <1>6, <1>c DEF DeadLetterSucceeds, Busy
<1>7. CASE CommitSucceeds
  BY <1>7, <1>t, <1>u DEF CommitSucceeds, NextRecord, Busy
<1>8. CASE CommitFails
  BY <1>8, <1>f, <1>t, <1>u DEF CommitFails, NextRecord, Busy
<1>9. CASE DeadLetterFails
  BY <1>9, <1>f, <1>c DEF DeadLetterFails, GoDown, Busy
<1>10. CASE Cancel
  BY <1>10, <1>f DEF Cancel
<1>14. CASE Rejoin
  BY <1>14, <1>f DEF Rejoin
<1>15. CASE Crash
  BY <1>15, <1>f DEF Crash, GoDown
<1>11. CASE StopOnCancel
  <2>1. deadLetters' \subseteq Record /\ auditLog' \in [Messages -> Record \cup {None}]
    BY <1>11, <1>c, <1>s DEF StopOnCancel, Busy
  <2> QED
    BY <1>11, <2>1 DEF StopOnCancel, GoDown
<1>12. CASE Restart
  BY <1>12 DEF Restart
<1>13. CASE UNCHANGED vars
  BY <1>13 DEF vars
<1> HIDE DEF TypeOK, AuditInv, kafkaVars, loopVars, storeVars
<1> QED
  BY <1>1, <1>2, <1>3, <1>4, <1>5, <1>6, <1>7, <1>8, <1>9, <1>10, <1>11, <1>12, <1>13,
      <1>14, <1>15 DEF Next

-----------------------------------------------------------------------------
(***************************************************************************)
(* The topic and the two stores only grow, so a record that is handled     *)
(* stays handled.                                                          *)
(***************************************************************************)
TopicGrows == \A p \in Partitions :
                 /\ Len(topic[p]) \in Nat /\ Len(topic'[p]) \in Nat
                 /\ Len(topic[p]) <= Len(topic'[p])
                 /\ \A o \in 1..Len(topic[p]) : topic'[p][o] = topic[p][o]

RowsStay == \A m \in Messages : auditLog[m] # None => auditLog'[m] = auditLog[m]

LEMMA StoreKeeps ==
  ASSUME TypeOK, OffsetsExist, inFlight # <<>>
  PROVE  \A m \in Messages :
            auditLog[m] # None => Store(auditLog, Current)[m] = auditLog[m]
BY CurrentExists DEF TypeOK, Store

LEMMA AppendKeeps ==
  ASSUME NEW s \in Seq(Messages), NEW m \in Messages
  PROVE  /\ Len(s) \in Nat /\ Len(Append(s, m)) = Len(s) + 1
         /\ \A o \in 1..Len(s) : Append(s, m)[o] = s[o]
OBVIOUS

LEMMA Growth ==
  ASSUME AuditInv, [Next]_vars
  PROVE  TopicGrows /\ RowsStay /\ deadLetters \subseteq deadLetters'
<1> USE DEF AuditInv
<1>1. CASE UNCHANGED topic
  <2>1. TopicGrows
    <3>1. \A p \in Partitions : topic[p] \in Seq(Messages)
      BY DEF TypeOK
    <3> QED
      BY <1>1, <3>1 DEF TopicGrows
  <2>2. RowsStay /\ deadLetters \subseteq deadLetters'
    <3>1. CASE UNCHANGED auditLog
      <4>1. RowsStay
        BY <3>1 DEF RowsStay
      <4>2. deadLetters \subseteq deadLetters'
        BY <1>1 DEF Next, vars, kafkaVars, loopVars, storeVars, Publish, Fetch, Take,
              InsertSucceeds, InsertFails, DeadLetterSucceeds, CommitSucceeds, CommitFails,
              DeadLetterFails, NextRecord, GoDown, Cancel, Crash, Rejoin, StopOnCancel, Restart
      <4> QED
        BY <4>1, <4>2
    <3>2. CASE auditLog' # auditLog
      <4>1. InsertSucceeds \/ InsertFails \/ StopOnCancel
        BY <3>2 DEF Next, vars, kafkaVars, loopVars, storeVars, Publish, Fetch, Take,
              DeadLetterSucceeds, CommitSucceeds, CommitFails,
              DeadLetterFails, NextRecord, GoDown, Cancel, Crash, Rejoin, Restart
      <4>2. /\ pc = "insert" /\ auditLog' = Store(auditLog, Current)
            /\ UNCHANGED deadLetters
        BY <3>2, <4>1 DEF InsertSucceeds, InsertFails, StopOnCancel, storeVars
      <4> QED
        BY <4>2, StoreKeeps DEF Busy, RowsStay
    <3> QED
      BY <3>1, <3>2
  <2> QED
    BY <2>1, <2>2
<1>2. CASE topic' # topic
  <2>1. PICK m \in Messages : Publish(m)
    BY <1>2 DEF Next, vars, kafkaVars, loopVars, storeVars, Fetch, Take, InsertSucceeds,
          InsertFails, DeadLetterSucceeds, CommitSucceeds, CommitFails, DeadLetterFails,
          NextRecord, GoDown, Cancel, Crash, Rejoin, StopOnCancel, Restart
  <2>2. \A p \in Partitions : topic[p] \in Seq(Messages)
    BY DEF TypeOK
  <2>3. TopicGrows
    <3>1. PICK q \in Partitions : topic' = [topic EXCEPT ![q] = Append(topic[q], m)]
      BY <2>1 DEF Publish
    <3>2. \A p \in Partitions : topic'[p] \in {topic[p], Append(topic[p], m)}
      BY <3>1 DEF TypeOK
    <3>3. ASSUME NEW p \in Partitions
          PROVE  /\ Len(topic[p]) \in Nat /\ Len(topic'[p]) \in Nat
                 /\ Len(topic[p]) <= Len(topic'[p])
                 /\ \A o \in 1..Len(topic[p]) : topic'[p][o] = topic[p][o]
      <4>1. PICK s \in Seq(Messages) : s = topic[p]
        BY <2>2
      <4>2. /\ Len(s) \in Nat /\ Len(Append(s, m)) = Len(s) + 1
            /\ \A o \in 1..Len(s) : Append(s, m)[o] = s[o]
        BY AppendKeeps
      <4>3. topic'[p] = s \/ topic'[p] = Append(s, m)
        BY <3>2, <4>1
      <4> QED
        BY <4>1, <4>2, <4>3
    <3> QED
      BY <3>3 DEF TopicGrows
  <2>4. UNCHANGED storeVars
    BY <2>1 DEF Publish
  <2> QED
    BY <2>3, <2>4 DEF RowsStay, storeVars
<1> QED
  BY <1>1, <1>2

LEMMA HandledStays ==
  ASSUME AuditInv, [Next]_vars, NEW p \in Partitions, NEW o \in 1..Len(topic[p]),
         Handled(At(p, o))
  PROVE  Handled(At(p, o))'
<1>1. TopicGrows /\ RowsStay /\ deadLetters \subseteq deadLetters'
  BY Growth
<1>2. At(p, o).partition = p /\ At(p, o).offset = o
  BY DEF At
<1>3. topic[p] \in Seq(Messages) /\ topic[p][o] \in Messages
  BY DEF AuditInv, TypeOK
<1>4. MessageOf(At(p, o))' = MessageOf(At(p, o)) /\ MessageOf(At(p, o)) \in Messages
  BY <1>1, <1>2, <1>3 DEF MessageOf, TopicGrows
<1> QED
  BY <1>1, <1>4 DEF Handled, RowsStay

-----------------------------------------------------------------------------
\* What is in flight is made of records of the topic.
LEMMA InFlightExists ==
  ASSUME AuditInv, NEW i \in DOMAIN inFlight
  PROVE  /\ inFlight[i] \in Record /\ inFlight[i].partition \in Partitions
         /\ inFlight[i].offset \in 1..Len(topic[inFlight[i].partition])
         /\ inFlight[i] = At(inFlight[i].partition, inFlight[i].offset)
<1>1. inFlight[i] \in Record
  BY DEF AuditInv, TypeOK
<1>2. Len(topic[inFlight[i].partition]) \in Nat
  BY <1>1 DEF AuditInv, TypeOK, Record
<1> QED
  BY <1>1, <1>2 DEF AuditInv, OffsetsExist, Record, At

Ordered == OffsetsExist /\ InFlightInOrder /\ FetchedIsInFlight /\ NothingIsSkipped

\* The steps that move neither the reader nor the queue nor the commits.
LEMMA QuietStep ==
  ASSUME AuditInv, [Next]_vars, UNCHANGED <<position, inFlight, committed>>,
         status = "down" => status' = "down"
  PROVE  Ordered'
<1> USE DEF AuditInv
<1>1. TopicGrows
  BY Growth
<1>2. \A p \in Partitions : committed[p] \in Nat /\ position[p] \in Nat
        /\ committed[p] <= Len(topic[p]) /\ position[p] <= Len(topic[p])
  BY DEF TypeOK, OffsetsExist
<1>3. OffsetsExist'
  BY <1>1, <1>2, InFlightExists DEF OffsetsExist, TopicGrows
<1>4. InFlightInOrder'
  <2> SUFFICES ASSUME NEW i \in DOMAIN inFlight, NEW o \in 1..(inFlight[i].offset - 1)
               PROVE  LET rec == At(inFlight[i].partition, o)
                      IN  Handled(rec)' \/ \E j \in 1..(i - 1) : inFlight[j] = rec
    BY DEF InFlightInOrder
  <2>1. /\ inFlight[i].partition \in Partitions
        /\ o \in 1..Len(topic[inFlight[i].partition])
    BY <1>1, InFlightExists DEF TopicGrows
  <2> QED
    BY <2>1, HandledStays DEF InFlightInOrder
<1>5. FetchedIsInFlight'
  <2> SUFFICES ASSUME status # "down", NEW p \in Partitions, NEW o \in 1..position[p]
               PROVE  Handled(At(p, o))' \/ \E j \in DOMAIN inFlight : inFlight[j] = At(p, o)
    BY DEF FetchedIsInFlight
  <2>1. o \in 1..Len(topic[p])
    BY <1>1, <1>2 DEF TopicGrows
  <2> QED
    BY <2>1, HandledStays DEF FetchedIsInFlight
<1>6. NothingIsSkipped'
  <2> SUFFICES ASSUME NEW p \in Partitions, NEW o \in 1..committed[p]
               PROVE  Handled(At(p, o))'
    BY DEF NothingIsSkipped
  <2>1. o \in 1..Len(topic[p])
    BY <1>1, <1>2 DEF TopicGrows
  <2> QED
    BY <2>1, HandledStays DEF NothingIsSkipped
<1> QED
  BY <1>3, <1>4, <1>5, <1>6 DEF Ordered

\* The steps that forget the queue, or send the reader back to the commits.
LEMMA BackStep ==
  ASSUME AuditInv, [Next]_vars, UNCHANGED committed,
         inFlight' \in {inFlight, <<>>},
         (status' = "down" /\ position' = position) \/ position' = committed
  PROVE  Ordered'
<1> USE DEF AuditInv
<1>1. TopicGrows
  BY Growth
<1>2. \A p \in Partitions : committed[p] \in Nat /\ position[p] \in Nat
        /\ committed[p] <= Len(topic[p]) /\ position[p] <= Len(topic[p])
  BY DEF TypeOK, OffsetsExist
<1>3. OffsetsExist'
  BY <1>1, <1>2, InFlightExists DEF OffsetsExist, TopicGrows
<1>4. InFlightInOrder'
  <2> SUFFICES ASSUME inFlight' = inFlight, NEW i \in DOMAIN inFlight,
                      NEW o \in 1..(inFlight[i].offset - 1)
               PROVE  LET rec == At(inFlight[i].partition, o)
                      IN  Handled(rec)' \/ \E j \in 1..(i - 1) : inFlight[j] = rec
    BY DEF InFlightInOrder
  <2>1. /\ inFlight[i].partition \in Partitions
        /\ o \in 1..Len(topic[inFlight[i].partition])
    BY <1>1, InFlightExists DEF TopicGrows
  <2> QED
    BY <2>1, HandledStays DEF InFlightInOrder
<1>6. NothingIsSkipped'
  <2> SUFFICES ASSUME NEW p \in Partitions, NEW o \in 1..committed[p]
               PROVE  Handled(At(p, o))'
    BY DEF NothingIsSkipped
  <2>1. o \in 1..Len(topic[p])
    BY <1>1, <1>2 DEF TopicGrows
  <2> QED
    BY <2>1, HandledStays DEF NothingIsSkipped
<1>5. FetchedIsInFlight'
  BY <1>6 DEF FetchedIsInFlight, NothingIsSkipped
<1> QED
  BY <1>3, <1>4, <1>5, <1>6 DEF Ordered

\* The reader fetches the record that follows what it went past.
LEMMA FetchStep ==
  ASSUME AuditInv, NEW q \in Partitions, Fetch(q)
  PROVE  Ordered'
<1> USE DEF AuditInv
<1> DEFINE new == At(q, position[q] + 1)
           n == Len(inFlight)
<1>0. /\ inFlight \in Seq(Record) /\ n \in Nat /\ DOMAIN inFlight = 1..n
      /\ \A p \in Partitions : /\ Len(topic[p]) \in Nat /\ committed[p] \in Nat
                               /\ position[p] \in Nat
                               /\ committed[p] <= Len(topic[p])
                               /\ position[p] <= Len(topic[p])
  BY DEF TypeOK, OffsetsExist
<1>1. /\ new \in Record /\ new.partition = q /\ new.offset = position[q] + 1
      /\ position[q] + 1 <= Len(topic[q]) /\ status = "running" /\ status' = status
      /\ position' = [position EXCEPT ![q] = position[q] + 1]
      /\ inFlight' = Append(inFlight, new)
      /\ UNCHANGED <<topic, committed, auditLog, deadLetters>>
  BY <1>0 DEF Fetch, At, Record, kafkaVars, storeVars
<1>2. /\ DOMAIN inFlight' = 1..(n + 1) /\ inFlight'[n + 1] = new
      /\ \A i \in 1..n : inFlight'[i] = inFlight[i]
  BY <1>0, <1>1
<1>3. \A rec : Handled(rec)' <=> Handled(rec)
  BY <1>1 DEF Handled, MessageOf
<1>p. position \in [Partitions -> Nat]
  BY DEF TypeOK
<1>4. OffsetsExist'
  <2>1. \A i \in 1..n : inFlight[i].offset <= Len(topic[inFlight[i].partition])
    BY <1>0 DEF OffsetsExist
  <2>2. \A i \in DOMAIN inFlight' : inFlight'[i].offset <= Len(topic[inFlight'[i].partition])
    BY <1>0, <1>1, <1>2, <2>1
  <2>3. \A p \in Partitions : position'[p] <= Len(topic[p])
    BY <1>0, <1>1, <1>p
  <2> QED
    BY <1>0, <1>1, <2>2, <2>3 DEF OffsetsExist
<1>5. InFlightInOrder'
  <2> SUFFICES ASSUME NEW i \in 1..(n + 1), NEW o \in 1..(inFlight'[i].offset - 1)
               PROVE  LET rec == At(inFlight'[i].partition, o)
                      IN  Handled(rec) \/ \E j \in 1..(i - 1) : inFlight'[j] = rec
    BY <1>2, <1>3 DEF InFlightInOrder
  <2>1. CASE i \in 1..n
    <3>1. \A j \in 1..i : j \in DOMAIN inFlight /\ inFlight'[j] = inFlight[j]
      BY <1>0, <1>2, <2>1
    <3>2. i \in DOMAIN inFlight /\ o \in 1..(inFlight[i].offset - 1)
      BY <1>0, <2>1, <3>1
    <3>3. \/ Handled(At(inFlight[i].partition, o))
          \/ \E j \in 1..(i - 1) : inFlight[j] = At(inFlight[i].partition, o)
      BY <3>2 DEF InFlightInOrder
    <3> QED
      BY <1>0, <2>1, <3>1, <3>3
  <2>2. CASE i = n + 1
    <3>1. inFlight'[i].partition = q /\ o \in 1..position[q]
      BY <1>0, <1>1, <1>2, <2>2
    <3>2. Handled(At(q, o)) \/ \E j \in 1..n : inFlight[j] = At(q, o)
      BY <1>0, <1>1, <3>1 DEF FetchedIsInFlight
    <3>3. 1..(i - 1) = 1..n
      BY <1>0, <2>2
    <3> QED
      BY <1>2, <3>1, <3>2, <3>3
  <2> QED
    BY <1>0, <2>1, <2>2
<1>6. FetchedIsInFlight'
  <2> SUFFICES ASSUME NEW p \in Partitions, NEW o \in 1..position'[p]
               PROVE  Handled(At(p, o)) \/ \E j \in 1..(n + 1) : inFlight'[j] = At(p, o)
    BY <1>2, <1>3 DEF FetchedIsInFlight
  <2>1. CASE p = q /\ o = position[q] + 1
    BY <1>0, <1>2, <2>1
  <2>2. CASE o \in 1..position[p]
    <3>1. Handled(At(p, o)) \/ \E j \in 1..n : inFlight[j] = At(p, o)
      BY <1>0, <1>1, <2>2 DEF FetchedIsInFlight
    <3> QED
      BY <1>0, <1>2, <3>1
  <2> QED
    BY <1>0, <1>1, <1>p, <2>1, <2>2
<1>7. NothingIsSkipped'
  BY <1>1, <1>3 DEF NothingIsSkipped
<1> QED
  BY <1>4, <1>5, <1>6, <1>7 DEF Ordered

(***************************************************************************)
(* The first record leaves the queue: it is handled, and so is everything  *)
(* before it, so the offset may be committed, or not.                      *)
(***************************************************************************)
LEMMA CommitStep ==
  ASSUME AuditInv, pc = "commit", NextRecord,
         committed' \in {committed, CommittedUpTo(Current)}
  PROVE  Ordered'
<1> USE DEF AuditInv
<1> DEFINE n == Len(inFlight)
<1>0. /\ inFlight \in Seq(Record) /\ n \in Nat \ {0} /\ DOMAIN inFlight = 1..n
      /\ inFlight # <<>> /\ Handled(Current) /\ Current = inFlight[1]
      /\ Current.offset \in 1..Len(topic[Current.partition])
      /\ Current.partition \in Partitions
      /\ Current = At(Current.partition, Current.offset)
  <2>1. inFlight # <<>> /\ Handled(Current) /\ inFlight \in Seq(Record)
    BY DEF Busy, TypeOK
  <2> QED
    BY <2>1, CurrentExists DEF Record, At
<1>1. /\ inFlight' = Tail(inFlight) /\ UNCHANGED <<topic, position, status>>
      /\ UNCHANGED <<auditLog, deadLetters>>
  BY DEF NextRecord, storeVars
<1>2. /\ DOMAIN inFlight' = 1..(n - 1)
      /\ \A i \in 1..(n - 1) : inFlight'[i] = inFlight[i + 1]
  BY <1>0, <1>1
<1>3. \A rec : Handled(rec)' <=> Handled(rec)
  BY <1>1 DEF Handled, MessageOf
<1>4. \A o \in 1..Current.offset : Handled(At(Current.partition, o))
  <2> SUFFICES ASSUME NEW o \in 1..Current.offset
               PROVE  Handled(At(Current.partition, o))
    OBVIOUS
  <2>1. CASE o = Current.offset
    BY <1>0, <2>1
  <2>2. CASE o \in 1..(Current.offset - 1)
    <3>1. ~ \E j \in 1..(1 - 1) : inFlight[j] = At(Current.partition, o)
      OBVIOUS
    <3> QED
      BY <1>0, <2>2, <3>1 DEF InFlightInOrder
  <2> QED
    BY <1>0, <2>1, <2>2
<1>5. /\ committed \in [Partitions -> Nat] /\ position \in [Partitions -> Nat]
      /\ \A p \in Partitions : Len(topic[p]) \in Nat
      /\ \A p \in Partitions : committed[p] <= Len(topic[p]) /\ position[p] <= Len(topic[p])
  BY DEF TypeOK, OffsetsExist
<1>6. \A p \in Partitions : committed'[p] = committed[p] \/
         (p = Current.partition /\ committed'[p] = Current.offset)
  BY <1>5 DEF CommittedUpTo
<1>7. OffsetsExist'
  <2>1. ASSUME NEW i \in DOMAIN inFlight'
        PROVE  inFlight'[i].offset <= Len(topic[inFlight'[i].partition])
    <3>1. i + 1 \in DOMAIN inFlight /\ inFlight'[i] = inFlight[i + 1]
      BY <1>0, <1>2
    <3> QED
      BY <3>1 DEF OffsetsExist
  <2>2. \A p \in Partitions : committed'[p] <= Len(topic[p])
    BY <1>0, <1>5, <1>6
  <2> QED
    BY <1>1, <1>5, <2>1, <2>2 DEF OffsetsExist
<1>8. InFlightInOrder'
  <2> SUFFICES ASSUME NEW i \in 1..(n - 1), NEW o \in 1..(inFlight'[i].offset - 1),
                      NEW rec, rec = At(inFlight'[i].partition, o)
               PROVE  Handled(rec) \/ \E j \in 1..(i - 1) : inFlight'[j] = rec
    BY <1>2, <1>3 DEF InFlightInOrder
  <2>0. i + 1 \in 1..n /\ inFlight'[i] = inFlight[i + 1]
    BY <1>0, <1>2
  <2>1. Handled(rec) \/ \E j \in 1..((i + 1) - 1) : inFlight[j] = rec
    BY <1>0, <2>0 DEF InFlightInOrder
  <2>2. ASSUME NEW j \in 1..((i + 1) - 1), inFlight[j] = rec, ~Handled(rec)
        PROVE  \E k \in 1..(i - 1) : inFlight'[k] = rec
    <3>1. j # 1
      BY <1>0, <2>2
    <3>2. j - 1 \in 1..(i - 1) /\ j - 1 \in 1..(n - 1) /\ (j - 1) + 1 = j
      BY <1>0, <2>2, <3>1
    <3>3. inFlight'[j - 1] = rec
      BY <1>2, <2>2, <3>2
    <3> QED
      BY <3>2, <3>3
  <2> QED
    BY <2>1, <2>2
<1>9. FetchedIsInFlight'
  <2> SUFFICES ASSUME status # "down", NEW p \in Partitions, NEW o \in 1..position[p]
               PROVE  Handled(At(p, o)) \/ \E j \in 1..(n - 1) : inFlight'[j] = At(p, o)
    BY <1>1, <1>2, <1>3 DEF FetchedIsInFlight
  <2>1. Handled(At(p, o)) \/ \E j \in 1..n : inFlight[j] = At(p, o)
    BY <1>0 DEF FetchedIsInFlight
  <2>2. ASSUME NEW j \in 1..n, inFlight[j] = At(p, o), ~Handled(At(p, o))
        PROVE  \E k \in 1..(n - 1) : inFlight'[k] = At(p, o)
    <3>1. j # 1
      BY <1>0, <2>2
    <3>2. j - 1 \in 1..(n - 1) /\ (j - 1) + 1 = j
      BY <1>0, <2>2, <3>1
    <3>3. inFlight'[j - 1] = At(p, o)
      BY <1>2, <2>2, <3>2
    <3> QED
      BY <3>2, <3>3
  <2> QED
    BY <2>1, <2>2
<1>10. NothingIsSkipped'
  <2> SUFFICES ASSUME NEW p \in Partitions, NEW o \in 1..committed'[p]
               PROVE  Handled(At(p, o))
    BY <1>3 DEF NothingIsSkipped
  <2> QED
    BY <1>4, <1>6 DEF NothingIsSkipped
<1> QED
  BY <1>7, <1>8, <1>9, <1>10 DEF Ordered

LEMMA BusyStep == AuditInv /\ [Next]_vars => Busy'
<1> SUFFICES ASSUME AuditInv, [Next]_vars PROVE Busy'
  OBVIOUS
<1> USE DEF AuditInv
<1>0. inFlight \in Seq(Record)
  BY DEF TypeOK
<1>1. CASE pc' = "take"
  BY <1>1 DEF Busy
<1>2. CASE InsertSucceeds \/ DeadLetterSucceeds
  <2>1. inFlight # <<>> /\ inFlight' = inFlight /\ pc' = "commit" /\ UNCHANGED topic
    BY <1>2 DEF InsertSucceeds, DeadLetterSucceeds, Busy, kafkaVars
  <2>2. MessageOf(Current)' = MessageOf(Current) /\ Current' = Current
    BY <2>1 DEF MessageOf, Current
  <2>3. CASE InsertSucceeds
    <3>1. auditLog'[MessageOf(Current)] # None
      BY <2>1, <2>3, CurrentExists DEF InsertSucceeds, Store, Message, TypeOK
    <3> QED
      BY <2>1, <2>2, <3>1 DEF Busy, Handled
  <2>4. CASE DeadLetterSucceeds
    BY <2>1, <2>2, <2>4 DEF DeadLetterSucceeds, Busy, Handled
  <2> QED
    BY <1>2, <2>3, <2>4
<1>3. CASE Take
  BY <1>3 DEF Take, Busy
<1>4. CASE InsertFails
  BY <1>4 DEF InsertFails, Busy, TypeOK
<1>5. ASSUME pc = "commit", UNCHANGED <<inFlight, pc, attempts>>
      PROVE  Busy'
  <2>1. /\ inFlight # <<>> /\ Current.partition \in Partitions
        /\ Current.offset \in 1..Len(topic[Current.partition])
        /\ Current = At(Current.partition, Current.offset)
    BY <1>5, CurrentExists DEF Busy, Record, At
  <2>2. Handled(Current)'
    BY <1>5, <2>1, HandledStays DEF Busy, Current
  <2> QED
    BY <1>5, <2>1, <2>2 DEF Busy
<1>6. ASSUME pc # "commit", UNCHANGED <<inFlight, pc, attempts>>
      PROVE  Busy'
  BY <1>6 DEF Busy
<1>7. ASSUME NEW p \in Partitions, Fetch(p)
      PROVE  Busy'
  <2>1. /\ inFlight' = Append(inFlight, [partition |-> p, offset |-> position[p] + 1])
        /\ UNCHANGED <<topic, pc, attempts, auditLog, deadLetters>>
    BY <1>7 DEF Fetch, kafkaVars, storeVars
  <2>2. inFlight' # <<>>
    BY <1>0, <2>1
  <2>3. inFlight # <<>> => Current' = Current
    BY <1>0, <2>1 DEF Current
  <2> QED
    BY <2>1, <2>2, <2>3 DEF Busy, Handled, MessageOf
<1> QED
  <2>1. Next \/ UNCHANGED vars
    OBVIOUS
  <2>2. (\E m \in Messages : Publish(m)) \/ Rejoin \/ Cancel \/ Restart \/ UNCHANGED vars
          => UNCHANGED <<inFlight, pc, attempts>>
    BY DEF Publish, Rejoin, Cancel, Restart, vars, loopVars
  <2>3. CommitSucceeds \/ CommitFails \/ DeadLetterFails \/ StopOnCancel \/ Crash
          => pc' = "take"
    BY DEF CommitSucceeds, CommitFails, NextRecord, DeadLetterFails, StopOnCancel, Crash,
           GoDown
  <2> QED
    BY <1>1, <1>2, <1>3, <1>4, <1>5, <1>6, <1>7, <2>1, <2>2, <2>3 DEF Next

LEMMA AuditInvStep == AuditInv /\ [Next]_vars => AuditInv'
<1> SUFFICES ASSUME AuditInv, [Next]_vars PROVE AuditInv'
  OBVIOUS
<1>1. TypeOK' /\ Busy'
  BY TypeStep, BusyStep
<1>2. CASE \E p \in Partitions : Fetch(p)
  BY <1>1, <1>2, FetchStep DEF AuditInv, Ordered
<1>3. CASE CommitSucceeds \/ CommitFails
  BY <1>1, <1>3, CommitStep DEF CommitSucceeds, CommitFails, AuditInv, Ordered
<1>4. CASE Rejoin \/ Restart \/ DeadLetterFails \/ StopOnCancel \/ Crash
  <2>1. /\ UNCHANGED committed /\ inFlight' \in {inFlight, <<>>}
        /\ (status' = "down" /\ position' = position) \/ position' = committed
    BY <1>4 DEF Rejoin, Restart, DeadLetterFails, StopOnCancel, Crash, GoDown, kafkaVars
  <2> QED
    BY <1>1, <2>1, BackStep DEF AuditInv, Ordered
<1>5. CASE \/ \E m \in Messages : Publish(m)
           \/ Take \/ InsertSucceeds \/ InsertFails \/ DeadLetterSucceeds \/ Cancel
           \/ UNCHANGED vars
  <2>1. /\ UNCHANGED <<position, inFlight, committed>>
        /\ status = "down" => status' = "down"
    BY <1>5 DEF Publish, Take, InsertSucceeds, InsertFails, DeadLetterSucceeds, Cancel,
                vars, kafkaVars, loopVars
  <2> QED
    BY <1>1, <2>1, QuietStep DEF AuditInv, Ordered
<1> QED
  BY <1>2, <1>3, <1>4, <1>5 DEF Next

LEMMA AuditInvInit == Init => AuditInv
<1> SUFFICES ASSUME Init PROVE AuditInv
  OBVIOUS
<1> USE DEF Init
<1>1. TypeOK
  BY DEF TypeOK
<1>2. OffsetsExist /\ InFlightInOrder /\ FetchedIsInFlight /\ NothingIsSkipped /\ Busy
  BY DEF OffsetsExist, InFlightInOrder, FetchedIsInFlight, NothingIsSkipped, Busy
<1> QED
  BY <1>1, <1>2 DEF AuditInv

(***************************************************************************)
(* Type correctness of the consumer, its stores and its place in the topic.*)
(***************************************************************************)
THEOREM AuditTypeCorrect == Spec => []TypeOK
<1>1. AuditInv => TypeOK
  BY DEF AuditInv
<1> QED
  BY <1>1, AuditInvInit, AuditInvStep, PTL DEF Spec

(***************************************************************************)
(* No committed offset leaves a message behind that is neither in          *)
(* audit_log nor in the DLQ: a restart at the committed offsets loses      *)
(* nothing.                                                                *)
(***************************************************************************)
THEOREM NothingIsEverSkipped == Spec => []NothingIsSkipped
<1>1. AuditInv => NothingIsSkipped
  BY DEF AuditInv
<1> QED
  BY <1>1, AuditInvInit, AuditInvStep, PTL DEF Spec

(***************************************************************************)
(* The rows of audit_log never change, whatever is delivered again.        *)
(***************************************************************************)
THEOREM RowsStayFinal == Spec => RowsAreFinal
<1>1. AuditInv /\ [Next]_vars =>
        [\A m \in Messages : auditLog[m] # None => auditLog'[m] = auditLog[m]]_vars
  BY Growth DEF RowsStay
<1> QED
  BY <1>1, AuditInvInit, AuditInvStep, PTL DEF Spec, RowsAreFinal

-----------------------------------------------------------------------------
(***************************************************************************)
(* What the failed INSERTs pay for.                                        *)
(***************************************************************************)
DeadInv == AuditInv /\ InTheirPartition /\ DeadLettersPaid

\* Nothing that is in the topic changes, so a record of the DLQ stays good or bad.
LEMMA DeadLetterKeepsMessage ==
  ASSUME DeadInv, [Next]_vars, NEW rec \in deadLetters
  PROVE  /\ MessageOf(rec)' = MessageOf(rec) /\ Good(rec)' = Good(rec)
         /\ rec.offset <= Len(topic'[rec.partition])
<1>1. TopicGrows
  BY Growth DEF DeadInv
<1>2. rec \in Record /\ rec.offset <= Len(topic[rec.partition])
  BY DEF DeadInv, AuditInv, TypeOK, DeadLettersPaid
<1>3. rec.partition \in Partitions /\ rec.offset \in Nat \ {0}
  BY <1>2 DEF Record
<1>4. rec.offset \in 1..Len(topic[rec.partition])
  BY <1>1, <1>2, <1>3 DEF TopicGrows
<1>5. rec.offset <= Len(topic'[rec.partition])
  BY <1>1, <1>2, <1>3 DEF TopicGrows
<1> QED
  BY <1>1, <1>3, <1>4, <1>5 DEF TopicGrows, MessageOf, Good

\* The record in persistLoop's hands keeps its message too.
LEMMA CurrentKeepsMessage ==
  ASSUME DeadInv, [Next]_vars, inFlight # <<>>, Current' = Current
  PROVE  MessageOf(Current)' = MessageOf(Current) /\ Good(Current)' = Good(Current)
<1>1. TopicGrows
  BY Growth DEF DeadInv
<1>2. /\ Current.offset \in 1..Len(topic[Current.partition])
      /\ Current.partition \in Partitions
  BY CurrentExists DEF DeadInv, AuditInv, Record
<1> QED
  BY <1>1, <1>2 DEF TopicGrows, MessageOf, Good

(***************************************************************************)
(* A copy in the DLQ that was there, or of a bad record, costs nothing; a  *)
(* new one of a good record counts once.                                   *)
(***************************************************************************)
LEMMA GoodDeadLettersGrow ==
  ASSUME DeadInv, [Next]_vars,
         deadLetters' \in {deadLetters, deadLetters \cup {Current}},
         deadLetters' # deadLetters => inFlight # <<>> /\ UNCHANGED topic
  PROVE  /\ \A rec \in deadLetters' : rec.offset <= Len(topic'[rec.partition])
         /\ IsFiniteSet(GoodDeadLetters')
         /\ Cardinality(GoodDeadLetters) \in Nat /\ Cardinality(GoodDeadLetters') \in Nat
         /\ \/ Cardinality(GoodDeadLetters') = Cardinality(GoodDeadLetters)
            \/ /\ deadLetters' # deadLetters /\ Good(Current)
               /\ Cardinality(GoodDeadLetters') = Cardinality(GoodDeadLetters) + 1
<1>1. IsFiniteSet(GoodDeadLetters) /\ Cardinality(GoodDeadLetters) \in Nat
  BY FS_CardinalityType DEF DeadInv, DeadLettersPaid
<1>2. CASE deadLetters' = deadLetters
  <2>1. GoodDeadLetters' = GoodDeadLetters
    BY <1>2, DeadLetterKeepsMessage DEF GoodDeadLetters
  <2> QED
    BY <1>1, <1>2, <2>1, DeadLetterKeepsMessage
<1>3. CASE deadLetters' # deadLetters
  <2>1. inFlight # <<>> /\ topic' = topic /\ deadLetters' = deadLetters \cup {Current}
    BY <1>3
  <2>2. GoodDeadLetters' = IF Good(Current) THEN GoodDeadLetters \cup {Current}
                           ELSE GoodDeadLetters
    BY <2>1 DEF GoodDeadLetters, Good, MessageOf
  <2>3. Current.offset <= Len(topic[Current.partition])
    BY <2>1, CurrentExists DEF DeadInv, AuditInv, OffsetsExist
  <2>4. \A rec \in deadLetters' : rec.offset <= Len(topic'[rec.partition])
    BY <2>1, <2>3, DeadLetterKeepsMessage
  <2>5. /\ IsFiniteSet(GoodDeadLetters \cup {Current})
        /\ Cardinality(GoodDeadLetters \cup {Current}) =
               IF Current \in GoodDeadLetters THEN Cardinality(GoodDeadLetters)
               ELSE Cardinality(GoodDeadLetters) + 1
    BY <1>1, FS_AddElement
  <2> QED
    <3>1. CASE Good(Current)
      BY <1>1, <1>3, <2>2, <2>4, <2>5, <3>1
    <3>2. CASE ~Good(Current)
      BY <1>1, <2>2, <2>4, <3>2
    <3> QED
      BY <3>1, <3>2
<1> QED
  BY <1>2, <1>3

\* The price of one copy more.
LEMMA Times ==
  ASSUME NEW k \in Nat
  PROVE  /\ k * InsertAttempts \in Nat
         /\ (k + 1) * InsertAttempts = k * InsertAttempts + InsertAttempts
  OBVIOUS

\* What the current record spends grows no more than the failures do.
LEMMA StaysPaid ==
  ASSUME NEW cost \in Nat, NEW s \in Nat, NEW s1 \in Nat, NEW f \in Nat, NEW f1 \in Nat,
         cost + s <= f, s1 + f <= s + f1
  PROVE  cost + s1 <= f1
  OBVIOUS

LEMMA PaidStep == DeadInv /\ [Next]_vars => DeadLettersPaid'
<1> SUFFICES ASSUME DeadInv, [Next]_vars PROVE DeadLettersPaid'
  OBVIOUS
<1> DEFINE card == Cardinality(GoodDeadLetters)
           card1 == Cardinality(GoodDeadLetters')
<1>0. /\ card * InsertAttempts + Spent <= dbFailures
      /\ pc = "deadletter" /\ Good(Current) => attempts = InsertAttempts
      /\ pc # "take" => inFlight # <<>>
      /\ pc = "insert" => attempts < InsertAttempts
      /\ attempts \in Nat /\ dbFailures \in Nat /\ inFlight \in Seq(Record)
      /\ pc \in {"take", "insert", "deadletter", "commit"}
  BY DEF DeadInv, DeadLettersPaid, AuditInv, Busy, TypeOK
<1>1. /\ Spent \in Nat
      /\ pc = "deadletter" /\ Good(Current) => Spent = InsertAttempts
      /\ pc = "insert" /\ Good(Current) => Spent = attempts
  BY <1>0 DEF Spent
\* Steps without a copy in the DLQ.
<1>2. ASSUME UNCHANGED deadLetters, dbFailures' \in Nat,
             Spent' + dbFailures <= Spent + dbFailures', Spent' \in Nat,
             (pc' = "deadletter" /\ Good(Current)') => attempts' = InsertAttempts
      PROVE  DeadLettersPaid'
  <2>1. /\ \A rec \in deadLetters' : rec.offset <= Len(topic'[rec.partition])
        /\ IsFiniteSet(GoodDeadLetters') /\ card \in Nat /\ card1 = card
    BY <1>2, GoodDeadLettersGrow, CurrentExists DEF AuditInv, DeadInv
  <2>2. card1 * InsertAttempts + Spent' <= dbFailures'
    <3>1. card * InsertAttempts \in Nat
      BY <2>1, Times
    <3> QED
      BY <1>0, <1>1, <1>2, <2>1, <3>1, StaysPaid
  <2> QED
    BY <1>2, <2>1, <2>2 DEF DeadLettersPaid
\* Steps that may copy the current record to the DLQ.
<1>3. ASSUME pc \in {"deadletter", "take"}, inFlight # <<>>, topic' = topic,
             pc = "take" => Message \in Malformed,
             deadLetters' \in {deadLetters, deadLetters \cup {Current}},
             pc' \in {"take", "commit"}, dbFailures' = dbFailures
      PROVE  DeadLettersPaid'
  <2>1. Spent' = 0
    BY <1>3 DEF Spent
  <2>2. /\ \A rec \in deadLetters' : rec.offset <= Len(topic'[rec.partition])
        /\ IsFiniteSet(GoodDeadLetters') /\ card \in Nat
        /\ card1 = card \/ (Good(Current) /\ card1 = card + 1)
    BY <1>3, GoodDeadLettersGrow
  <2>3. Good(Current) => pc = "deadletter"
    BY <1>3 DEF Good, Message
  <2>4. card1 * InsertAttempts <= dbFailures
    <3>1. CASE card1 = card
      BY <1>0, <1>1, <2>2, <3>1, Times
    <3>2. CASE Good(Current) /\ card1 = card + 1
      <4>1. Spent = InsertAttempts
        BY <1>1, <2>3, <3>2
      <4> QED
        BY <1>0, <2>2, <3>2, <4>1, Times
    <3> QED
      BY <2>2, <3>1, <3>2
  <2>5. card1 * InsertAttempts \in Nat
    BY <2>2, Times
  <2> QED
    BY <1>3, <2>1, <2>2, <2>4, <2>5 DEF DeadLettersPaid
<1>4. CASE UNCHANGED <<inFlight, pc, attempts, deadLetters, dbFailures>>
  <2>1. Current' = Current
    BY <1>4 DEF Current
  <2>2. pc # "take" => Good(Current)' = Good(Current)
    BY <1>0, <2>1, CurrentKeepsMessage
  <2>3. Spent' = Spent
    BY <1>4, <2>2, <1>0 DEF Spent
  <2> QED
    BY <1>0, <1>1, <1>2, <1>4, <2>2, <2>3
<1>5. ASSUME NEW p \in Partitions, Fetch(p) PROVE DeadLettersPaid'
  <2>1. /\ inFlight' = Append(inFlight, [partition |-> p, offset |-> position[p] + 1])
        /\ UNCHANGED <<topic, pc, attempts, deadLetters, dbFailures>>
    BY <1>5 DEF Fetch, kafkaVars, storeVars
  <2>2. inFlight # <<>> => Current' = Current
    BY <1>0, <2>1 DEF Current
  <2>3. pc # "take" => Good(Current)' = Good(Current)
    BY <1>0, <2>1, <2>2 DEF Good, MessageOf
  <2>4. Spent' = Spent
    BY <2>1, <2>3, <1>0 DEF Spent
  <2> QED
    BY <1>0, <1>1, <1>2, <2>1, <2>3, <2>4
<1>6. CASE Take
  <2>1. /\ UNCHANGED <<topic, inFlight, deadLetters, dbFailures>> /\ attempts' = 0
        /\ pc = "take" /\ pc' = IF Message \in Malformed THEN "deadletter" ELSE "insert"
    BY <1>6 DEF Take, kafkaVars, storeVars
  <2>2. Spent = 0 /\ Spent' = 0
    BY <2>1 DEF Spent
  <2>3. pc' = "deadletter" => ~Good(Current)'
    BY <2>1 DEF Good, Message, MessageOf, Current
  <2> QED
    BY <1>0, <1>2, <2>1, <2>2, <2>3
<1>7. CASE InsertFails
  <2>1. /\ UNCHANGED <<topic, inFlight, deadLetters>> /\ attempts' = attempts + 1
        /\ pc = "insert" /\ pc' \in {"insert", "deadletter"}
        /\ pc' = "deadletter" => attempts' = InsertAttempts
        /\ dbFailures' = IF Message \in Rejected THEN dbFailures ELSE dbFailures + 1
    BY <1>7 DEF InsertFails, kafkaVars
  <2>2. Good(Current)' = Good(Current) /\ (Good(Current) => Message \notin Rejected)
    BY <2>1 DEF Good, Message, MessageOf, Current
  <2>3. Spent' = IF Good(Current) THEN attempts + 1 ELSE 0
    BY <2>1, <2>2 DEF Spent
  <2>4. Spent = IF Good(Current) THEN attempts ELSE 0
    BY <2>1 DEF Spent
  <2> QED
    BY <1>0, <1>2, <2>1, <2>2, <2>3, <2>4
<1>8. CASE InsertSucceeds \/ CommitSucceeds \/ CommitFails \/ Crash
  <2>1. /\ UNCHANGED <<deadLetters, dbFailures>> /\ pc' \in {"take", "commit"}
    BY <1>8 DEF InsertSucceeds, CommitSucceeds, CommitFails, Crash, NextRecord, GoDown,
                storeVars
  <2>2. Spent' = 0
    BY <2>1 DEF Spent
  <2> QED
    BY <1>0, <1>1, <1>2, <2>1, <2>2
<1>9. CASE DeadLetterSucceeds \/ DeadLetterFails
  BY <1>0, <1>3, <1>9 DEF DeadLetterSucceeds, DeadLetterFails, GoDown, kafkaVars
<1>10. CASE StopOnCancel
  <2>1. pc' = "take" /\ dbFailures' = dbFailures /\ topic' = topic
    BY <1>10 DEF StopOnCancel, GoDown, kafkaVars
  <2>2. CASE UNCHANGED deadLetters
    <3>1. Spent' = 0
      BY <2>1 DEF Spent
    <3> QED
      BY <1>0, <1>1, <1>2, <2>1, <2>2, <3>1
  <2>3. CASE /\ inFlight # <<>>
             /\ pc = "deadletter" \/ (pc = "take" /\ Message \in Malformed)
             /\ deadLetters' = deadLetters \cup {Current}
    BY <1>3, <2>1, <2>3
  <2> QED
    BY <1>10, <2>2, <2>3 DEF StopOnCancel, storeVars
<1>11. (\E m \in Messages : Publish(m)) \/ Rejoin \/ Cancel \/ Restart \/ UNCHANGED vars
          => UNCHANGED <<inFlight, pc, attempts, deadLetters, dbFailures>>
  BY DEF Publish, Rejoin, Cancel, Restart, vars, loopVars, storeVars
<1> QED
  BY <1>4, <1>5, <1>6, <1>7, <1>8, <1>9, <1>10, <1>11 DEF Next

LEMMA InTheirPartitionStep == DeadInv /\ [Next]_vars => InTheirPartition'
<1> SUFFICES ASSUME DeadInv, [Next]_vars PROVE InTheirPartition'
  OBVIOUS
<1>1. CASE UNCHANGED topic
  BY <1>1 DEF DeadInv, InTheirPartition
<1>2. ASSUME NEW m \in Messages, Publish(m) PROVE InTheirPartition'
  <2>1. /\ topic \in [Partitions -> Seq(Messages)] /\ PartitionOf[m] \in Partitions
        /\ topic' = [topic EXCEPT ![PartitionOf[m]] = Append(topic[PartitionOf[m]], m)]
    BY <1>2 DEF Publish, DeadInv, AuditInv, TypeOK
  <2> SUFFICES ASSUME NEW p \in Partitions, NEW o \in DOMAIN topic'[p]
               PROVE  PartitionOf[topic'[p][o]] = p
    BY DEF InTheirPartition
  <2>2. topic[p] \in Seq(Messages)
    BY <2>1
  <2>3. \/ o \in DOMAIN topic[p] /\ topic'[p][o] = topic[p][o]
        \/ p = PartitionOf[m] /\ topic'[p][o] = m
    <3>1. CASE p = PartitionOf[m]
      <4>1. topic'[p] = Append(topic[p], m)
        BY <2>1, <3>1
      <4>2. o \in 1..(Len(topic[p]) + 1) /\ Len(topic[p]) \in Nat
        BY <2>2, <4>1
      <4>3. CASE o = Len(topic[p]) + 1
        BY <2>2, <3>1, <4>1, <4>3
      <4>4. CASE o \in 1..Len(topic[p])
        BY <2>2, <4>1, <4>4
      <4> QED
        BY <4>2, <4>3, <4>4
    <3>2. CASE p # PartitionOf[m]
      <4>1. topic'[p] = topic[p]
        BY <2>1, <3>2
      <4> QED
        BY <4>1
    <3> QED
      BY <3>1, <3>2
  <2> QED
    BY <2>3 DEF DeadInv, InTheirPartition
<1>3. UNCHANGED topic \/ \E m \in Messages : Publish(m)
  BY DEF Next, vars, kafkaVars, Fetch, Take, InsertSucceeds, InsertFails,
         DeadLetterSucceeds, CommitSucceeds, CommitFails, DeadLetterFails, NextRecord,
         GoDown, Cancel, Crash, Rejoin, StopOnCancel, Restart
<1> QED
  BY <1>1, <1>2, <1>3

LEMMA DeadInvInit == Init => DeadInv
<1> SUFFICES ASSUME Init PROVE DeadInv
  OBVIOUS
<1>1. InTheirPartition
  BY DEF Init, InTheirPartition
<1>2. GoodDeadLetters = {} /\ Spent = 0 /\ dbFailures = 0
  BY DEF Init, GoodDeadLetters, Spent
<1>3. DeadLettersPaid
  BY <1>2, FS_EmptySet DEF Init, DeadLettersPaid
<1> QED
  BY <1>1, <1>3, AuditInvInit DEF DeadInv

LEMMA DeadInvStep == DeadInv /\ [Next]_vars => DeadInv'
BY AuditInvStep, InTheirPartitionStep, PaidStep DEF DeadInv

(***************************************************************************)
(* A good message reaches the DLQ only after InsertAttempts failed INSERTs *)
(* of its own: k good records there cost at least k * InsertAttempts       *)
(* failures, whatever restarts, reassignments and repeated deliveries      *)
(* there were (persistLoop's `for attempt`).                               *)
(***************************************************************************)
THEOREM DeadLettersCostFailures == Spec => []DeadLettersNeedFailures
<1>1. DeadInv => DeadLettersNeedFailures
  <2> SUFFICES ASSUME DeadInv PROVE DeadLettersNeedFailures
    OBVIOUS
  <2>1. /\ Spent \in Nat /\ dbFailures \in Nat
        /\ Cardinality(GoodDeadLetters) \in Nat
        /\ Cardinality(GoodDeadLetters) * InsertAttempts + Spent <= dbFailures
    BY FS_CardinalityType DEF DeadInv, DeadLettersPaid, AuditInv, TypeOK, Spent
  <2> QED
    BY <2>1, Times DEF DeadLettersNeedFailures
<1> QED
  BY <1>1, DeadInvInit, DeadInvStep, PTL DEF Spec

-----------------------------------------------------------------------------
(***************************************************************************)
(* The refinement of NewsDelivery, step by step.                           *)
(***************************************************************************)
\* The message in persistLoop's hands was published.
LEMMA CurrentIsPublished ==
  ASSUME DeadInv, inFlight # <<>>
  PROVE  Message \in Messages /\ Message \in Published
<1>1. /\ Current.partition \in Partitions /\ Message \in Messages
      /\ Current.offset \in 1..Len(topic[Current.partition])
  BY CurrentExists DEF DeadInv, AuditInv, Record
<1>2. topic[Current.partition] \in Seq(Messages)
  BY <1>1 DEF DeadInv, AuditInv, TypeOK
<1>3. Current.offset \in DOMAIN topic[Current.partition]
  BY <1>1, <1>2
<1>4. PartitionOf[Message] = Current.partition
  BY <1>1, <1>3 DEF DeadInv, InTheirPartition, Message, MessageOf
<1> QED
  BY <1>1, <1>3, <1>4 DEF Published, Message, MessageOf

LEMMA PublishIsAccept ==
  ASSUME DeadInv, NEW m \in Messages, Publish(m)
  PROVE  Published' = Published \cup {m} /\ Audited' = Audited
<1>0. [Next]_vars
  BY DEF Next
<1>1. /\ topic \in [Partitions -> Seq(Messages)] /\ PartitionOf[m] \in Partitions
      /\ topic' = [topic EXCEPT ![PartitionOf[m]] = Append(topic[PartitionOf[m]], m)]
      /\ UNCHANGED <<auditLog, deadLetters>>
  BY DEF Publish, DeadInv, AuditInv, TypeOK, storeVars
<1>2. ASSUME NEW q \in Messages
      PROVE  q \in Published' <=> q \in Published \/ q = m
  <2>1. PartitionOf[q] \in Partitions /\ topic[PartitionOf[q]] \in Seq(Messages)
    BY <1>1
  <2>2. CASE PartitionOf[q] # PartitionOf[m]
    BY <1>1, <2>1, <2>2 DEF Published
  <2>3. CASE PartitionOf[q] = PartitionOf[m]
    <3>1. topic'[PartitionOf[q]] = Append(topic[PartitionOf[q]], m)
      BY <1>1, <2>3
    <3> DEFINE old == topic[PartitionOf[q]]
    <3>2. /\ Len(old) \in Nat /\ DOMAIN old = 1..Len(old)
          /\ DOMAIN topic'[PartitionOf[q]] = 1..(Len(old) + 1)
          /\ topic'[PartitionOf[q]][Len(old) + 1] = m
          /\ \A i \in 1..Len(old) : topic'[PartitionOf[q]][i] = old[i]
      BY <2>1, <3>1
    <3>3. q \in Published' => q \in Published \/ q = m
      BY <3>2 DEF Published
    <3>4. q \in Published => q \in Published'
      BY <3>2 DEF Published
    <3>5. q = m => q \in Published'
      BY <3>2 DEF Published
    <3> QED
      BY <3>3, <3>4, <3>5
  <2> QED
    BY <2>2, <2>3
<1>3. \A rec \in deadLetters : MessageOf(rec)' = MessageOf(rec)
  BY <1>0, DeadLetterKeepsMessage
<1>4. Published \subseteq Messages /\ Published' \subseteq Messages
  BY DEF Published
<1>5. Published' = Published \cup {m}
  BY <1>2, <1>4
<1>6. Audited' = Audited
  BY <1>1, <1>3 DEF Audited
<1> QED
  BY <1>5, <1>6

\* Any other step deals with the message in hand, or with none.
LEMMA OthersDeliver ==
  ASSUME DeadInv, [Next]_vars, UNCHANGED topic
  PROVE  \/ UNCHANGED <<Published, Audited>>
         \/ inFlight # <<>> /\ Published' = Published /\ Audited' = Audited \cup {Message}
<1>1. Published' = Published
  BY DEF Published
<1>2. \A rec : MessageOf(rec)' = MessageOf(rec)
  BY DEF MessageOf
<1>3. CASE UNCHANGED <<auditLog, deadLetters>>
  BY <1>1, <1>2, <1>3 DEF Audited
<1>4. CASE /\ inFlight # <<>> /\ auditLog' = Store(auditLog, Current)
           /\ UNCHANGED deadLetters
  <2>1. \A q \in Messages : auditLog'[q] # None <=> (auditLog[q] # None \/ q = Message)
    BY <1>4, CurrentExists DEF DeadInv, AuditInv, TypeOK, Store, Message
  <2> QED
    BY <1>1, <1>2, <1>4, <2>1, CurrentIsPublished DEF Audited
<1>5. CASE /\ inFlight # <<>> /\ deadLetters' = deadLetters \cup {Current}
           /\ UNCHANGED auditLog
  BY <1>1, <1>2, <1>5, CurrentIsPublished DEF Audited, Message
<1>6. pc # "take" => inFlight # <<>>
  BY DEF DeadInv, AuditInv, Busy
<1> QED
  <2>1. CASE UNCHANGED vars
    BY <1>3, <2>1 DEF vars, storeVars
  <2>2. CASE InsertSucceeds \/ InsertFails \/ StopOnCancel
    BY <1>3, <1>4, <1>5, <1>6, <2>2 DEF InsertSucceeds, InsertFails, StopOnCancel, storeVars
  <2>3. CASE DeadLetterSucceeds \/ DeadLetterFails
    BY <1>3, <1>5, <1>6, <2>3 DEF DeadLetterSucceeds, DeadLetterFails
  <2>4. ASSUME ~(InsertSucceeds \/ InsertFails \/ StopOnCancel),
               ~(DeadLetterSucceeds \/ DeadLetterFails), Next
        PROVE  UNCHANGED <<auditLog, deadLetters>>
    BY <2>4 DEF Next, storeVars, Publish, Fetch, Take, CommitSucceeds, CommitFails,
                NextRecord, GoDown, Cancel, Crash, Rejoin, Restart
  <2> QED
    BY <1>3, <2>1, <2>2, <2>3, <2>4

(***************************************************************************)
(* Every step of the consumer is a step of NewsDelivery or leaves it       *)
(* alone: a message reaches audit_log or the DLQ only after the topic, one *)
(* message a step, and never leaves them again (persistLoop).              *)
(***************************************************************************)
THEOREM SafeAudit == Spec => Delivery!NewsSafety
<1>1. Init => Delivery!NewsInit
  BY DEF Init, Delivery!NewsInit, Published, Audited
<1>2. DeadInv /\ [Next]_vars => [Delivery!NewsNext]_<<Published, Audited>>
  <2> SUFFICES ASSUME DeadInv, [Next]_vars
               PROVE  Delivery!NewsNext \/ UNCHANGED <<Published, Audited>>
    OBVIOUS
  <2>1. ASSUME NEW m \in Messages, Publish(m)
        PROVE  Delivery!NewsNext \/ UNCHANGED <<Published, Audited>>
    BY <2>1, PublishIsAccept DEF Delivery!NewsNext, Delivery!Accept
  <2>2. CASE UNCHANGED topic
    <3>1. ASSUME inFlight # <<>>, Published' = Published,
                 Audited' = Audited \cup {Message}
          PROVE  Delivery!NewsNext \/ UNCHANGED <<Published, Audited>>
      BY <3>1, CurrentIsPublished DEF Delivery!NewsNext, Delivery!Deliver
    <3> QED
      BY <2>2, <3>1, OthersDeliver
  <2>3. UNCHANGED topic \/ \E m \in Messages : Publish(m)
    BY DEF Next, vars, kafkaVars, Fetch, Take, InsertSucceeds, InsertFails,
           DeadLetterSucceeds, CommitSucceeds, CommitFails, DeadLetterFails, NextRecord,
           GoDown, Cancel, Crash, Rejoin, StopOnCancel, Restart
  <2> QED
    BY <2>1, <2>2, <2>3
<1> QED
  BY <1>1, <1>2, DeadInvInit, DeadInvStep, PTL DEF Spec, Delivery!NewsSafety, Delivery!nvars
=============================================================================
