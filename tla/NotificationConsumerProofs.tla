--------------------- MODULE NotificationConsumerProofs ---------------------
(***************************************************************************)
(* The notification consumer loses no message and saves each one for all   *)
(* its recipients, for any number of partitions, messages, users, failures *)
(* and restarts, and any size of its INSERTs.                              *)
(***************************************************************************)
EXTENDS NotificationConsumer, TLAPS

USE NotificationAssumption

\* What matters of where the records are, and of who gets a notification.
Offsets == OffsetsExist /\ PassedIsHandled /\ CommitIsHandled /\ NothingIsSkipped

Audience == /\ SteadyAreRecipients /\ TxIsWhole /\ SavedExist
            /\ InTheirPartition /\ NotifiedIsPublished /\ SavesAreWhole

NotificationInv == TypeOK /\ Offsets /\ Audience

\* The record in the handler's hands is in the topic.
LEMMA CurrentExists ==
  ASSUME TypeOK, OffsetsExist, pc # "idle"
  PROVE  /\ at \in Partitions /\ position[at] \in Nat
         /\ position[at] + 1 \in 1..Len(topic[at])
         /\ Current = At(at, position[at] + 1) /\ Current \in Record
         /\ Current.partition = at /\ Current.offset = position[at] + 1
         /\ Message = topic[at][position[at] + 1] /\ Message \in Messages
<1>1. at \in Partitions
  BY DEF TypeOK
<1>2. position[at] \in Nat /\ topic[at] \in Seq(Messages)
  BY <1>1 DEF TypeOK
<1>3. at # None
  BY <1>1
<1>4. position[at] < Len(topic[at])
  BY <1>3 DEF OffsetsExist
<1> QED
  BY <1>1, <1>2, <1>4 DEF Current, Message, MessageOf, At, Record

LEMMA UpsertType ==
  ASSUME TypeOK, NEW m \in Messages, NEW S
  PROVE  Upsert(m, S) \in [Messages -> [Users -> {"none", "unread", "read"}]]
<1> DEFINE row == [u \in Users |-> IF u \in S /\ notifications[m][u] = "none"
                                   THEN "unread" ELSE notifications[m][u]]
<1>1. notifications \in [Messages -> [Users -> {"none", "unread", "read"}]]
  BY DEF TypeOK
<1>2. row \in [Users -> {"none", "unread", "read"}]
  BY <1>1
<1>3. Upsert(m, S) = [notifications EXCEPT ![m] = row]
  BY <1>1 DEF Upsert
<1> HIDE DEF row
<1> QED
  BY <1>1, <1>2, <1>3

\* What a COMMIT in MySQL does.
LEMMA LandType ==
  ASSUME TypeOK, OffsetsExist, Land
  PROVE  /\ notifications' \in [Messages -> [Users -> {"none", "unread", "read"}]]
         /\ saved' = saved \cup {Current} /\ saved' \subseteq Record
         /\ deadLetters' = deadLetters
         /\ Message \in Messages /\ Current \in Record
<1>1. pc # "idle"
  BY DEF Land
<1>2. Message \in Messages /\ Current \in Record
  BY <1>1, CurrentExists
<1> QED
  BY <1>2, UpsertType DEF Land, TypeOK

LEMMA LetGoType == LetGo => /\ at' \in Partitions \cup {None}
                            /\ pc' \in {"idle", "save", "insert", "deadletter", "commit"}
                            /\ tx' \in [to : SUBSET Users, inserted : SUBSET Users]
                            /\ at' = None <=> pc' = "idle"
                            /\ tx'.inserted \subseteq tx'.to
BY DEF LetGo, NoTx

StoreTypeOK == /\ notifications \in [Messages -> [Users -> {"none", "unread", "read"}]]
               /\ saved \subseteq Record
               /\ deadLetters \subseteq Record

HandlerTypeOK == /\ at \in Partitions \cup {None}
                 /\ pc \in {"idle", "save", "insert", "deadletter", "commit"}
                 /\ tx \in [to : SUBSET Users, inserted : SUBSET Users]
                 /\ at = None <=> pc = "idle"
                 /\ tx.inserted \subseteq tx.to

LEMMA StoreTypeStep ==
  ASSUME NotificationInv, [Next]_vars
  PROVE  StoreTypeOK'
<1> USE DEF NotificationInv, Offsets, StoreTypeOK
<1>1. CASE UNCHANGED storeVars
  BY <1>1 DEF TypeOK, storeVars
<1>2. CASE Land
  BY <1>2, LandType DEF TypeOK
<1>3. CASE DeadLetterSucceeds \/ DeadLetterFails
  <2>1. pc # "idle" /\ UNCHANGED <<notifications, saved>>
        /\ deadLetters' \in {deadLetters, deadLetters \cup {Current}}
    BY <1>3 DEF DeadLetterSucceeds, DeadLetterFails
  <2> QED
    BY <2>1, CurrentExists DEF TypeOK
<1>4. ASSUME NEW u \in Users, MarkAllRead(u) PROVE StoreTypeOK'
  <2>1. \A m \in Messages : notifications[m] \in [Users -> {"none", "unread", "read"}]
    BY DEF TypeOK
  <2>2. \A m \in Messages : [notifications[m] EXCEPT ![u] = "read"]
                               \in [Users -> {"none", "unread", "read"}]
    BY <2>1
  <2>3. notifications' \in [Messages -> [Users -> {"none", "unread", "read"}]]
    BY <1>4, <2>1, <2>2 DEF MarkAllRead
  <2> QED
    BY <1>4, <2>3 DEF MarkAllRead, TypeOK
<1> QED
  <2>1. HandlerNext => UNCHANGED storeVars \/ Land \/ DeadLetterSucceeds \/ DeadLetterFails
    BY DEF HandlerNext, Take, BeginSave, InsertChunk, CommitSave, SaveFails,
           CommitSucceeds, CommitFails
  <2>2. ProcessNext \/ BackendNext => UNCHANGED storeVars
    BY DEF ProcessNext, BackendNext, Rejoin, Shutdown, Exit, Crash, GoDown, Restart,
           Publish, UsersGrow, Leave
  <2>3. UNCHANGED vars => UNCHANGED storeVars
    BY DEF vars
  <2> QED
    BY <1>1, <1>2, <1>3, <1>4, <2>1, <2>2, <2>3 DEF Next

LEMMA HandlerTypeStep ==
  ASSUME NotificationInv, [Next]_vars
  PROVE  HandlerTypeOK'
<1> USE DEF NotificationInv, Offsets, HandlerTypeOK
<1>0. HandlerTypeOK
  BY DEF TypeOK
<1>1. CASE UNCHANGED <<at, pc, tx>>
  BY <1>0, <1>1
<1>2. CASE LetGo
  BY <1>2, LetGoType
<1>3. ASSUME NEW p \in Partitions, Take(p) PROVE HandlerTypeOK'
  <2>1. /\ at' = p /\ pc' \in {"deadletter", "save"} /\ tx' = tx
    BY <1>3 DEF Take
  <2> QED
    BY <1>0, <2>1
<1>4. CASE BeginSave
  <2>1. FindRecipients(Message) \subseteq Users
    BY DEF FindRecipients, TypeOK
  <2> QED
    BY <1>0, <1>4, <2>1 DEF BeginSave
<1>5. CASE InsertChunk
  <2>1. PICK C \in SUBSET Users : IsChunk(C) /\ tx' = [tx EXCEPT !.inserted = tx.inserted \cup C]
    BY <1>5 DEF InsertChunk
  <2> QED
    BY <1>0, <1>5, <2>1 DEF InsertChunk, IsChunk
<1>6. ASSUME pc # "idle", UNCHANGED at, pc' \in {"save", "deadletter", "commit"},
             tx' \in {tx, NoTx}
      PROVE  HandlerTypeOK'
  BY <1>0, <1>6 DEF NoTx
<1> QED
  <2>1. CommitSave \/ DeadLetterSucceeds =>
          /\ pc # "idle" /\ UNCHANGED at /\ pc' \in {"save", "deadletter", "commit"}
          /\ tx' \in {tx, NoTx}
    BY DEF CommitSave, Land, DeadLetterSucceeds
  <2>2. SaveFails => \/ LetGo
                     \/ /\ pc # "idle" /\ UNCHANGED at
                        /\ pc' \in {"save", "deadletter", "commit"} /\ tx' \in {tx, NoTx}
    BY DEF SaveFails
  <2>3. DeadLetterFails \/ CommitSucceeds \/ CommitFails \/ Exit \/ Crash \/ Restart => LetGo
    BY DEF DeadLetterFails, CommitSucceeds, CommitFails, Exit, Crash, GoDown, Restart
  <2>4. Rejoin \/ Shutdown \/ BackendNext \/ (\E u \in Users : MarkAllRead(u))
          \/ UNCHANGED vars => UNCHANGED <<at, pc, tx>>
    BY DEF Rejoin, Shutdown, BackendNext, Publish, UsersGrow, Leave, MarkAllRead,
           vars, handlerVars
  <2>5. HandlerNext => \/ \E p \in Partitions : Take(p)
                       \/ BeginSave \/ InsertChunk \/ CommitSave \/ SaveFails
                       \/ DeadLetterSucceeds \/ DeadLetterFails
                       \/ CommitSucceeds \/ CommitFails
    BY DEF HandlerNext
  <2>6. ProcessNext => Rejoin \/ Shutdown \/ Exit \/ Crash \/ Restart
    BY DEF ProcessNext
  <2> HIDE DEF HandlerTypeOK, NotificationInv, Offsets
  <2>7. CASE CommitSave \/ DeadLetterSucceeds \/ SaveFails
    BY <1>2, <1>6, <2>1, <2>2, <2>7
  <2>8. CASE HandlerNext
    BY <1>2, <1>3, <1>4, <1>5, <2>3, <2>5, <2>7, <2>8
  <2>9. CASE ProcessNext
    BY <1>1, <1>2, <2>3, <2>4, <2>6, <2>9
  <2>10. CASE BackendNext \/ (\E u \in Users : MarkAllRead(u)) \/ UNCHANGED vars
    BY <1>1, <2>4, <2>10
  <2> QED
    BY <2>8, <2>9, <2>10 DEF Next

LEMMA TypeStep ==
  ASSUME NotificationInv, [Next]_vars
  PROVE  TypeOK'
<1> USE DEF NotificationInv, Offsets
<1>1. topic' \in [Partitions -> Seq(Messages)]
  <2>1. CASE UNCHANGED topic
    BY <2>1 DEF TypeOK
  <2>2. ASSUME NEW m \in Messages, Publish(m) PROVE topic' \in [Partitions -> Seq(Messages)]
    <3>1. PartitionOf[m] \in Partitions /\ topic[PartitionOf[m]] \in Seq(Messages)
      BY DEF TypeOK
    <3>2. Append(topic[PartitionOf[m]], m) \in Seq(Messages)
      BY <3>1
    <3> QED
      BY <2>2, <3>2 DEF Publish, TypeOK
  <2>3. UNCHANGED topic \/ \E m \in Messages : Publish(m)
    BY DEF Next, HandlerNext, ProcessNext, BackendNext, Take, BeginSave, InsertChunk,
           CommitSave, SaveFails, DeadLetterSucceeds, DeadLetterFails, CommitSucceeds,
           CommitFails, Rejoin, Shutdown, Exit, Crash, GoDown, Restart, UsersGrow, Leave,
           MarkAllRead, vars, kafkaVars
  <2> QED
    BY <2>1, <2>2, <2>3
<1>2. committed' \in [Partitions -> Nat] /\ position' \in [Partitions -> Nat]
  <2>1. committed \in [Partitions -> Nat] /\ position \in [Partitions -> Nat]
    BY DEF TypeOK
  <2>2. CASE CommitSucceeds \/ CommitFails
    <3>1. pc # "idle"
      BY <2>2 DEF CommitSucceeds, CommitFails
    <3>2. /\ Current.partition \in Partitions /\ Current.offset \in Nat
          /\ at \in Partitions /\ position[at] \in Nat
      BY <3>1, CurrentExists
    <3>3. CommittedUpTo(Current) \in [Partitions -> Nat]
      BY <2>1, <3>2 DEF CommittedUpTo
    <3>4. committed' \in {committed, CommittedUpTo(Current)}
      BY <2>2 DEF CommitSucceeds, CommitFails
    <3>5. position' \in {position, [position EXCEPT ![at] = position[at] + 1]}
      BY <2>2 DEF CommitSucceeds, CommitFails
    <3> QED
      BY <2>1, <3>2, <3>3, <3>4, <3>5
  <2>3. CASE ~(CommitSucceeds \/ CommitFails)
    <3>1. UNCHANGED committed /\ position' \in {position, committed}
      BY <2>3 DEF Next, HandlerNext, ProcessNext, BackendNext, Take, BeginSave, InsertChunk,
             CommitSave, SaveFails, DeadLetterSucceeds, DeadLetterFails, Rejoin, Shutdown,
             Exit, Crash, GoDown, Restart, Publish, UsersGrow, Leave, MarkAllRead, vars,
             kafkaVars, handlerVars
    <3> QED
      BY <2>1, <3>1
  <2> QED
    BY <2>2, <2>3
<1>3. status' \in {"running", "stopping", "down"} /\ faults' \in 0..MaxFaults
  <2>1. status \in {"running", "stopping", "down"} /\ faults \in 0..MaxFaults
    BY DEF TypeOK
  <2>2. Fault => faults' \in 0..MaxFaults
    BY <2>1 DEF Fault
  <2>3. UNCHANGED faults \/ Fault
    BY DEF Next, HandlerNext, ProcessNext, BackendNext, Take, BeginSave, InsertChunk,
           CommitSave, SaveFails, DeadLetterSucceeds, DeadLetterFails, CommitSucceeds,
           CommitFails, Rejoin, Shutdown, Exit, Crash, Restart, Publish, UsersGrow,
           Leave, MarkAllRead, vars
  <2>4. UNCHANGED status \/ status' \in {"running", "stopping", "down"}
    BY DEF Next, HandlerNext, ProcessNext, BackendNext, Take, BeginSave, InsertChunk,
           CommitSave, SaveFails, DeadLetterSucceeds, DeadLetterFails, CommitSucceeds,
           CommitFails, Rejoin, Shutdown, Exit, Crash, GoDown, Restart, Publish, UsersGrow,
           Leave, MarkAllRead, vars, handlerVars
  <2> QED
    BY <2>1, <2>2, <2>3, <2>4
<1>4. /\ visitors' \subseteq Users /\ registrations' \subseteq EventIds \X Users
      /\ steady' \in [Messages -> SUBSET Users]
  <2>1. /\ visitors \subseteq Users /\ registrations \subseteq EventIds \X Users
        /\ steady \in [Messages -> SUBSET Users]
    BY DEF TypeOK
  <2>2. CASE UNCHANGED <<userVars, steady>>
    BY <2>1, <2>2 DEF userVars
  <2>3. ASSUME NEW m \in Messages, Publish(m)
        PROVE  UNCHANGED userVars /\ steady' \in [Messages -> SUBSET Users]
    <3>1. FindRecipients(m) \subseteq Users
      BY <2>1 DEF FindRecipients
    <3> QED
      BY <2>1, <2>3, <3>1 DEF Publish
  <2>4. CASE UsersGrow
    <3>1. UNCHANGED steady
      BY <2>4 DEF UsersGrow
    <3>2. PICK u \in Users : SignUp(u) \/ \E e \in EventIds : Join(e, u)
      BY <2>4 DEF UsersGrow
    <3>3. CASE SignUp(u)
      BY <2>1, <3>1, <3>3 DEF SignUp
    <3>4. ASSUME NEW e \in EventIds, Join(e, u)
          PROVE  registrations' \subseteq EventIds \X Users /\ UNCHANGED visitors
      <4>1. <<e, u>> \in EventIds \X Users
        OBVIOUS
      <4> QED
        BY <2>1, <3>4, <4>1 DEF Join
    <3> QED
      BY <2>1, <3>1, <3>2, <3>3, <3>4
  <2>5. ASSUME NEW e \in EventIds, NEW u \in Users, Leave(e, u)
        PROVE  /\ UNCHANGED visitors /\ registrations' \subseteq EventIds \X Users
               /\ steady' \in [Messages -> SUBSET Users]
    BY <2>1, <2>5 DEF Leave
  <2>6. \/ UNCHANGED <<userVars, steady>> \/ UsersGrow
        \/ \E m \in Messages : Publish(m)
        \/ \E e \in EventIds, u \in Users : Leave(e, u)
    BY DEF Next, HandlerNext, ProcessNext, BackendNext, Take, BeginSave, InsertChunk,
           CommitSave, SaveFails, DeadLetterSucceeds, DeadLetterFails, CommitSucceeds,
           CommitFails, Rejoin, Shutdown, Exit, Crash, GoDown, Restart, MarkAllRead, vars
  <2> QED
    BY <2>1, <2>2, <2>3, <2>4, <2>5, <2>6 DEF userVars
<1> QED
  BY <1>1, <1>2, <1>3, <1>4, StoreTypeStep, HandlerTypeStep
     DEF TypeOK, StoreTypeOK, HandlerTypeOK

-----------------------------------------------------------------------------
(***************************************************************************)
(* The offsets.  The topic and the sets of handled records only grow.      *)
(***************************************************************************)
TopicGrows == \A p \in Partitions :
                 /\ Len(topic[p]) \in Nat /\ Len(topic'[p]) \in Nat
                 /\ Len(topic[p]) <= Len(topic'[p])
                 /\ \A o \in 1..Len(topic[p]) : topic'[p][o] = topic[p][o]

LEMMA AppendKeeps ==
  ASSUME NEW s \in Seq(Messages), NEW m \in Messages
  PROVE  /\ Len(s) \in Nat /\ Len(Append(s, m)) = Len(s) + 1
         /\ \A o \in 1..Len(s) : Append(s, m)[o] = s[o]
OBVIOUS

LEMMA Growth ==
  ASSUME TypeOK, [Next]_vars
  PROVE  TopicGrows /\ saved \subseteq saved' /\ deadLetters \subseteq deadLetters'
<1>1. TopicGrows
  <2>0. \A p \in Partitions : topic[p] \in Seq(Messages)
    BY DEF TypeOK
  <2>1. CASE UNCHANGED topic
    BY <2>0, <2>1 DEF TopicGrows
  <2>2. ASSUME NEW m \in Messages, Publish(m) PROVE TopicGrows
    <3> DEFINE q == PartitionOf[m]
    <3>1. q \in Partitions /\ topic' = [topic EXCEPT ![q] = Append(topic[q], m)]
      BY <2>2 DEF Publish
    <3>2. \A p \in Partitions : topic'[p] = IF p = q THEN Append(topic[q], m) ELSE topic[p]
      BY <3>1 DEF TypeOK
    <3> HIDE DEF q
    <3>3. ASSUME NEW p \in Partitions
          PROVE  /\ Len(topic[p]) \in Nat /\ Len(topic'[p]) \in Nat
                 /\ Len(topic[p]) <= Len(topic'[p])
                 /\ \A o \in 1..Len(topic[p]) : topic'[p][o] = topic[p][o]
      <4>1. PICK s \in Seq(Messages) : s = topic[p]
        BY <2>0
      <4>2. /\ Len(s) \in Nat /\ Len(Append(s, m)) = Len(s) + 1
            /\ \A o \in 1..Len(s) : Append(s, m)[o] = s[o]
        BY AppendKeeps
      <4>3. topic'[p] = s \/ topic'[p] = Append(s, m)
        BY <3>1, <3>2, <4>1
      <4> QED
        BY <4>1, <4>2, <4>3
    <3> QED
      BY <3>3 DEF TopicGrows
  <2>3. UNCHANGED topic \/ \E m \in Messages : Publish(m)
    BY DEF Next, HandlerNext, ProcessNext, BackendNext, Take, BeginSave, InsertChunk,
           CommitSave, SaveFails, DeadLetterSucceeds, DeadLetterFails, CommitSucceeds,
           CommitFails, Rejoin, Shutdown, Exit, Crash, GoDown, Restart, UsersGrow, Leave,
           MarkAllRead, vars, kafkaVars
  <2> QED
    BY <2>1, <2>2, <2>3
<1>2. saved \subseteq saved' /\ deadLetters \subseteq deadLetters'
  BY DEF Next, HandlerNext, ProcessNext, BackendNext, Take, BeginSave, InsertChunk,
         CommitSave, Land, SaveFails, DeadLetterSucceeds, DeadLetterFails, CommitSucceeds,
         CommitFails, Rejoin, Shutdown, Exit, Crash, GoDown, Restart, Publish, UsersGrow,
         Leave, MarkAllRead, vars, storeVars
<1> QED
  BY <1>1, <1>2

\* The steps that move neither the consumer nor the commits.
LEMMA QuietStep ==
  ASSUME TypeOK, TypeOK', Offsets, [Next]_vars, UNCHANGED <<committed, position>>,
         at' = None \/ (at' = at /\ (pc' = "commit" => pc = "commit" \/ Handled(Current)'))
  PROVE  Offsets'
<1> USE DEF Offsets
<1>1. TopicGrows /\ saved \subseteq saved' /\ deadLetters \subseteq deadLetters'
  BY Growth
<1>2. /\ \A p \in Partitions : committed[p] \in Nat /\ position[p] \in Nat
      /\ at = None \/ at \in Partitions
      /\ at = None <=> pc = "idle"
  BY DEF TypeOK
<1>3. OffsetsExist'
  BY <1>1, <1>2 DEF OffsetsExist, TopicGrows
<1>4. PassedIsHandled' /\ NothingIsSkipped'
  BY <1>1 DEF PassedIsHandled, NothingIsSkipped, Handled
<1>5. CommitIsHandled'
  <2>1. CASE at' = None
    BY <2>1 DEF CommitIsHandled, TypeOK
  <2>2. CASE at' = at /\ pc' = "commit" /\ pc = "commit"
    <3>1. Current' = Current
      BY <2>2 DEF Current
    <3> QED
      BY <1>1, <2>2, <3>1 DEF CommitIsHandled, Handled
  <2> QED
    BY <2>1, <2>2 DEF CommitIsHandled
<1> QED
  BY <1>3, <1>4, <1>5

\* The steps that send the consumer back to the commits.
LEMMA BackStep ==
  ASSUME TypeOK, TypeOK', Offsets, [Next]_vars, UNCHANGED committed,
         position' = committed, at' = None
  PROVE  Offsets'
<1> USE DEF Offsets
<1>1. TopicGrows /\ saved \subseteq saved' /\ deadLetters \subseteq deadLetters'
  BY Growth
<1>2. \A p \in Partitions : committed[p] \in Nat
  BY DEF TypeOK
<1>3. OffsetsExist'
  BY <1>1, <1>2 DEF OffsetsExist, TopicGrows
<1>4. PassedIsHandled' /\ NothingIsSkipped'
  BY <1>1 DEF PassedIsHandled, NothingIsSkipped, Handled
<1>5. CommitIsHandled'
  BY DEF CommitIsHandled, TypeOK
<1> QED
  BY <1>3, <1>4, <1>5

\* The record in hand is handled, and so is all that comes before it.
LEMMA CommitStep ==
  ASSUME TypeOK, TypeOK', Offsets, pc = "commit", UNCHANGED <<topic, saved, deadLetters>>,
         committed' \in {committed, CommittedUpTo(Current)},
         position' \in {position, [position EXCEPT ![at] = position[at] + 1]}, at' = None
  PROVE  Offsets'
<1> USE DEF Offsets
<1>1. /\ at \in Partitions /\ position[at] \in Nat
      /\ position[at] + 1 \in 1..Len(topic[at])
      /\ Current = At(at, position[at] + 1)
      /\ Current.partition = at /\ Current.offset = position[at] + 1
  BY CurrentExists
<1>2. /\ committed \in [Partitions -> Nat] /\ position \in [Partitions -> Nat]
      /\ \A p \in Partitions : Len(topic[p]) \in Nat
      /\ \A p \in Partitions : committed[p] <= Len(topic[p]) /\ position[p] <= Len(topic[p])
  BY DEF TypeOK, OffsetsExist
<1>3. \A o \in 1..(position[at] + 1) : Handled(At(at, o))
  <2>1. Handled(At(at, position[at] + 1))
    BY <1>1 DEF CommitIsHandled
  <2>2. \A o \in 1..(position[at] + 1) : o = position[at] + 1 \/ o \in 1..position[at]
    BY <1>1
  <2> QED
    BY <1>1, <2>1, <2>2 DEF PassedIsHandled
<1>4. \A p \in Partitions : committed'[p] = committed[p] \/
         (p = at /\ committed'[p] = position[at] + 1)
  BY <1>1, <1>2 DEF CommittedUpTo
<1>5. \A p \in Partitions : position'[p] = position[p] \/
         (p = at /\ position'[p] = position[at] + 1)
  BY <1>1, <1>2
<1>6. \A rec : Handled(rec)' <=> Handled(rec)
  BY DEF Handled
<1>7. OffsetsExist'
  BY <1>1, <1>2, <1>4, <1>5 DEF OffsetsExist
<1>8. PassedIsHandled'
  <2> SUFFICES ASSUME NEW p \in Partitions, NEW o \in 1..position'[p]
               PROVE  Handled(At(p, o))
    BY <1>6 DEF PassedIsHandled
  <2> QED
    BY <1>3, <1>5 DEF PassedIsHandled
<1>9. NothingIsSkipped'
  <2> SUFFICES ASSUME NEW p \in Partitions, NEW o \in 1..committed'[p]
               PROVE  Handled(At(p, o))
    BY <1>6 DEF NothingIsSkipped
  <2> QED
    BY <1>3, <1>4 DEF NothingIsSkipped
<1>10. CommitIsHandled'
  BY DEF CommitIsHandled, TypeOK
<1> QED
  BY <1>7, <1>8, <1>9, <1>10

LEMMA OffsetsStep ==
  ASSUME TypeOK, TypeOK', Offsets, [Next]_vars
  PROVE  Offsets'
<1>1. CASE CommitSucceeds \/ CommitFails
  <2>1. /\ pc = "commit" /\ UNCHANGED <<topic, saved, deadLetters>> /\ at' = None
        /\ committed' \in {committed, CommittedUpTo(Current)}
        /\ position' \in {position, [position EXCEPT ![at] = position[at] + 1]}
    BY <1>1 DEF CommitSucceeds, CommitFails, LetGo, storeVars
  <2> QED
    BY <2>1, CommitStep
<1>2. CASE Rejoin \/ Restart
  <2>1. UNCHANGED committed /\ position' = committed /\ at' = None
    BY <1>2 DEF Rejoin, Restart, LetGo, kafkaVars, TypeOK
  <2> QED
    BY <2>1, BackStep
<1>3. ASSUME NEW p \in Partitions, Take(p) PROVE Offsets'
  <2>1. /\ pc = "idle" /\ at' = p /\ pc' # "commit" /\ position[p] < Len(topic[p])
        /\ UNCHANGED <<topic, committed, position, saved, deadLetters>>
    BY <1>3 DEF Take, kafkaVars, storeVars
  <2>2. OffsetsExist'
    BY <2>1 DEF Offsets, OffsetsExist
  <2>3. PassedIsHandled' /\ NothingIsSkipped' /\ CommitIsHandled'
    BY <2>1 DEF Offsets, PassedIsHandled, NothingIsSkipped, CommitIsHandled, Handled
  <2> QED
    BY <2>2, <2>3 DEF Offsets
<1>4. CASE CommitSave \/ DeadLetterSucceeds
  <2>1. UNCHANGED <<committed, position, at>> /\ Current' = Current
    BY <1>4 DEF CommitSave, DeadLetterSucceeds, kafkaVars, Current
  <2>2. Handled(Current)'
    BY <1>4, <2>1 DEF CommitSave, Land, DeadLetterSucceeds, Handled
  <2> QED
    BY <2>1, <2>2, QuietStep
<1>5. CASE SaveFails
  <2>1. /\ UNCHANGED <<committed, position>>
        /\ at' = None \/ (at' = at /\ pc' # "commit")
    BY <1>5 DEF SaveFails, LetGo, kafkaVars
  <2> QED
    BY <2>1, QuietStep
<1>6. CASE BeginSave \/ InsertChunk
  <2>1. UNCHANGED <<committed, position, at>> /\ pc' = "insert"
    BY <1>6 DEF BeginSave, InsertChunk, kafkaVars
  <2> QED
    BY <2>1, QuietStep
<1>7. CASE DeadLetterFails \/ Exit \/ Crash
  <2>1. UNCHANGED <<committed, position>> /\ at' = None
    BY <1>7 DEF DeadLetterFails, Exit, Crash, GoDown, LetGo, kafkaVars
  <2> QED
    BY <2>1, QuietStep
<1>8. CASE Shutdown \/ BackendNext \/ (\E u \in Users : MarkAllRead(u)) \/ UNCHANGED vars
  <2>1. UNCHANGED <<committed, position, at, pc>>
    BY <1>8 DEF Shutdown, BackendNext, Publish, UsersGrow, Leave, MarkAllRead, vars,
          kafkaVars, handlerVars
  <2> QED
    BY <2>1, QuietStep
<1> QED
  BY <1>1, <1>2, <1>3, <1>4, <1>5, <1>6, <1>7, <1>8 DEF Next, HandlerNext, ProcessNext

-----------------------------------------------------------------------------
(***************************************************************************)
(* The recipients.  Once a message is published, its steady recipients     *)
(* only get fewer, and what is in the transaction of its record covers     *)
(* them until it commits.                                                  *)
(***************************************************************************)
LEMMA RecordIsPublished ==
  ASSUME TypeOK, InTheirPartition, NEW p \in Partitions, NEW o \in 1..Len(topic[p])
  PROVE  topic[p][o] \in Published
<1>1. topic[p] \in Seq(Messages) /\ o \in DOMAIN topic[p]
  BY DEF TypeOK
<1>2. topic[p][o] \in Messages /\ PartitionOf[topic[p][o]] = p
  BY <1>1 DEF InTheirPartition
<1> QED
  BY <1>1, <1>2 DEF Published

LEMMA SavedIsPublished ==
  ASSUME TypeOK, InTheirPartition, SavedExist, NEW rec \in saved
  PROVE  MessageOf(rec) \in Published
<1>1. rec.partition \in Partitions /\ rec.offset \in 1..Len(topic[rec.partition])
  BY DEF TypeOK, Record, SavedExist
<1> QED
  BY <1>1, RecordIsPublished DEF MessageOf

\* A record stays what it is.
LEMMA MessageStays ==
  ASSUME TypeOK, [Next]_vars, NEW p \in Partitions, NEW o \in 1..Len(topic[p])
  PROVE  topic'[p][o] = topic[p][o] /\ o \in 1..Len(topic'[p])
BY Growth DEF TopicGrows

LEMMA PublishedGrows ==
  ASSUME TypeOK, [Next]_vars
  PROVE  Published \subseteq Published'
<1> SUFFICES ASSUME NEW m \in Published PROVE m \in Published'
  OBVIOUS
<1>1. m \in Messages /\ PartitionOf[m] \in Partitions
  BY DEF Published
<1>2. topic[PartitionOf[m]] \in Seq(Messages) /\ topic'[PartitionOf[m]] \in Seq(Messages)
  <2>1. UNCHANGED topic \/ \E k \in Messages : Publish(k)
    BY DEF Next, HandlerNext, ProcessNext, BackendNext, Take, BeginSave, InsertChunk,
           CommitSave, SaveFails, DeadLetterSucceeds, DeadLetterFails, CommitSucceeds,
           CommitFails, Rejoin, Shutdown, Exit, Crash, GoDown, Restart, UsersGrow, Leave,
           MarkAllRead, vars, kafkaVars
  <2>2. ASSUME NEW k \in Messages, Publish(k)
        PROVE  topic'[PartitionOf[m]] \in Seq(Messages)
    <3>1. /\ PartitionOf[k] \in Partitions
          /\ Append(topic[PartitionOf[k]], k) \in Seq(Messages)
      BY DEF TypeOK
    <3> QED
      BY <1>1, <2>2, <3>1 DEF Publish, TypeOK
  <2> QED
    BY <1>1, <2>1, <2>2 DEF TypeOK
<1>3. PICK i \in DOMAIN topic[PartitionOf[m]] : topic[PartitionOf[m]][i] = m
  BY DEF Published
<1>4. i \in 1..Len(topic[PartitionOf[m]])
  BY <1>2
<1>5. topic'[PartitionOf[m]][i] = m /\ i \in DOMAIN topic'[PartitionOf[m]]
  BY <1>1, <1>2, <1>3, <1>4, MessageStays
<1> QED
  BY <1>1, <1>5 DEF Published

LEMMA SteadyShrinks ==
  ASSUME TypeOK, [Next]_vars, NEW m \in Published
  PROVE  m \in Messages /\ steady'[m] \subseteq steady[m]
<1>1. m \in Messages
  BY DEF Published
<1>2. CASE UNCHANGED steady
  BY <1>1, <1>2
<1>3. ASSUME NEW k \in Messages, Publish(k) PROVE steady'[m] \subseteq steady[m]
  <2>1. CASE k \in Published
    BY <1>3, <2>1 DEF Publish
  <2>2. CASE k \notin Published
    <3>1. k # m /\ steady' = [steady EXCEPT ![k] = FindRecipients(k)]
      BY <1>3, <2>2 DEF Publish
    <3> QED
      BY <1>1, <3>1 DEF TypeOK
  <2> QED
    BY <2>1, <2>2
<1>4. ASSUME NEW e \in EventIds, NEW u \in Users, Leave(e, u)
      PROVE  steady'[m] \subseteq steady[m]
  BY <1>1, <1>4 DEF Leave
<1>5. \/ UNCHANGED steady
      \/ \E k \in Messages : Publish(k)
      \/ \E e \in EventIds, u \in Users : Leave(e, u)
  BY DEF Next, HandlerNext, ProcessNext, BackendNext, Take, BeginSave, InsertChunk,
         CommitSave, SaveFails, DeadLetterSucceeds, DeadLetterFails, CommitSucceeds,
         CommitFails, Rejoin, Shutdown, Exit, Crash, GoDown, Restart, UsersGrow,
         MarkAllRead, vars
<1> QED
  BY <1>1, <1>2, <1>3, <1>4, <1>5

LEMMA SteadyAreRecipientsStep ==
  ASSUME TypeOK, SteadyAreRecipients, [Next]_vars
  PROVE  SteadyAreRecipients'
<1>1. CASE UNCHANGED <<visitors, registrations, steady>>
  BY <1>1 DEF SteadyAreRecipients, FindRecipients
<1>2. ASSUME NEW k \in Messages, Publish(k) PROVE SteadyAreRecipients'
  <2>1. \A m \in Messages : FindRecipients(m)' = FindRecipients(m)
    BY <1>2 DEF Publish, userVars, FindRecipients
  <2>2. \A m \in Messages : steady'[m] \in {steady[m], FindRecipients(m)}
    BY <1>2 DEF Publish, TypeOK
  <2> QED
    BY <2>1, <2>2 DEF SteadyAreRecipients
<1>3. CASE UsersGrow
  <2>1. UNCHANGED steady
    BY <1>3 DEF UsersGrow
  <2>2. visitors \subseteq visitors' /\ registrations \subseteq registrations'
    BY <1>3 DEF UsersGrow, SignUp, Join
  <2>3. \A m \in Messages : FindRecipients(m) \subseteq FindRecipients(m)'
    BY <2>2 DEF FindRecipients
  <2> QED
    BY <2>1, <2>3 DEF SteadyAreRecipients
<1>4. ASSUME NEW e \in EventIds, NEW u \in Users, Leave(e, u) PROVE SteadyAreRecipients'
  <2> SUFFICES ASSUME NEW m \in Messages, NEW v \in steady'[m]
               PROVE  v \in FindRecipients(m)'
    BY DEF SteadyAreRecipients
  <2>1. /\ UNCHANGED visitors /\ registrations' = registrations \ {<<e, u>>}
        /\ steady'[m] = IF m \in Creations \/ EventOf[m] # e
                        THEN steady[m] ELSE steady[m] \ {u}
    BY <1>4 DEF Leave
  <2>2. v \in FindRecipients(m)
    BY <2>1 DEF SteadyAreRecipients
  <2> QED
    BY <2>1, <2>2 DEF FindRecipients
<1> QED
  BY <1>1, <1>2, <1>3, <1>4
     DEF Next, HandlerNext, ProcessNext, BackendNext, Take, BeginSave, InsertChunk,
         CommitSave, SaveFails, DeadLetterSucceeds, DeadLetterFails, CommitSucceeds,
         CommitFails, Rejoin, Shutdown, Exit, Crash, GoDown, Restart, MarkAllRead, vars,
         userVars

LEMMA TxIsWholeStep ==
  ASSUME NotificationInv, [Next]_vars
  PROVE  TxIsWhole'
<1> SUFFICES ASSUME pc' = "insert" PROVE steady'[Message'] \subseteq tx'.to
  BY DEF TxIsWhole
<1> USE DEF NotificationInv, Offsets, Audience
<1>1. BeginSave \/ (UNCHANGED <<at, position>> /\ pc = "insert" /\ tx'.to = tx.to)
  <2>1. ~LetGo
    BY DEF LetGo
  <2>2. CASE InsertChunk
    <3>1. PICK C \in SUBSET Users : tx' = [tx EXCEPT !.inserted = tx.inserted \cup C]
      BY <2>2 DEF InsertChunk
    <3> QED
      BY <2>2, <3>1 DEF InsertChunk, TypeOK
  <2>3. CASE ~InsertChunk
    BY <2>1, <2>3 DEF Next, HandlerNext, ProcessNext, BackendNext, Take, CommitSave,
          SaveFails, DeadLetterSucceeds, DeadLetterFails, CommitSucceeds, CommitFails,
          Rejoin, Shutdown, Exit, Crash, GoDown, Restart, Publish, UsersGrow, Leave,
          MarkAllRead, vars, handlerVars, TypeOK
  <2> QED
    BY <2>2, <2>3
<1>2. pc # "idle" /\ UNCHANGED <<at, position>>
  BY <1>1 DEF BeginSave
<1>3. /\ at \in Partitions /\ position[at] + 1 \in 1..Len(topic[at])
      /\ Message = topic[at][position[at] + 1]
  BY <1>2, CurrentExists
<1>4. Message' = Message
  BY <1>2, <1>3, MessageStays DEF Message, MessageOf, Current, At
<1>5. Message \in Messages /\ steady'[Message] \subseteq steady[Message]
  BY <1>3, RecordIsPublished, SteadyShrinks
<1>6. steady[Message] \subseteq tx'.to
  <2>1. CASE BeginSave
    BY <1>5, <2>1 DEF BeginSave, SteadyAreRecipients
  <2>2. CASE pc = "insert" /\ tx'.to = tx.to
    BY <2>2 DEF TxIsWhole
  <2> QED
    BY <1>1, <2>1, <2>2
<1> QED
  BY <1>4, <1>5, <1>6

LEMMA SavedExistStep ==
  ASSUME NotificationInv, [Next]_vars
  PROVE  SavedExist'
<1> USE DEF NotificationInv, Offsets, Audience
<1>1. TopicGrows
  BY Growth
<1>2. \A rec \in saved : rec.offset \in 1..Len(topic'[rec.partition])
  <2> TAKE rec \in saved
  <2>1. rec.partition \in Partitions /\ rec.offset \in 1..Len(topic[rec.partition])
    BY DEF SavedExist, TypeOK, Record
  <2> QED
    BY <2>1, MessageStays
<1>3. CASE UNCHANGED saved
  BY <1>2, <1>3 DEF SavedExist
<1>4. CASE Land
  <2>1. pc # "idle" /\ saved' = saved \cup {Current}
    BY <1>4 DEF Land
  <2>2. Current.offset \in 1..Len(topic'[Current.partition])
    BY <2>1, CurrentExists, MessageStays
  <2> QED
    BY <1>2, <2>1, <2>2 DEF SavedExist
<1>5. UNCHANGED saved \/ Land
  BY DEF Next, HandlerNext, ProcessNext, BackendNext, Take, BeginSave, InsertChunk,
         CommitSave, SaveFails, DeadLetterSucceeds, DeadLetterFails, CommitSucceeds,
         CommitFails, Rejoin, Shutdown, Exit, Crash, GoDown, Restart, Publish, UsersGrow,
         Leave, MarkAllRead, vars, storeVars
<1> QED
  BY <1>3, <1>4, <1>5

LEMMA InTheirPartitionStep ==
  ASSUME NotificationInv, [Next]_vars
  PROVE  InTheirPartition'
<1> USE DEF NotificationInv, Audience
<1>1. CASE UNCHANGED topic
  BY <1>1 DEF InTheirPartition
<1>2. ASSUME NEW m \in Messages, Publish(m) PROVE InTheirPartition'
  <2> DEFINE q == PartitionOf[m]
  <2>1. q \in Partitions /\ topic' = [topic EXCEPT ![q] = Append(topic[q], m)]
    BY <1>2 DEF Publish
  <2>2. \A p \in Partitions : /\ topic[p] \in Seq(Messages)
                              /\ topic'[p] = IF p = q THEN Append(topic[q], m) ELSE topic[p]
    BY <2>1 DEF TypeOK
  <2>3. \A o \in 1..Len(topic'[q]) : PartitionOf[topic'[q][o]] = q
    <3>1. topic[q] \in Seq(Messages) /\ topic'[q] = Append(topic[q], m)
      BY <2>1, <2>2
    <3>2. ASSUME NEW o \in 1..Len(topic'[q])
          PROVE  \/ o \in 1..Len(topic[q]) /\ topic'[q][o] = topic[q][o]
                 \/ topic'[q][o] = m
      BY <3>1
    <3>3. \A o \in 1..Len(topic[q]) : PartitionOf[topic[q][o]] = q
      BY <2>1 DEF InTheirPartition
    <3> QED
      BY <3>2, <3>3
  <2> HIDE DEF q
  <2> QED
    BY <2>2, <2>3 DEF InTheirPartition
<1>3. UNCHANGED topic \/ \E m \in Messages : Publish(m)
  BY DEF Next, HandlerNext, ProcessNext, BackendNext, Take, BeginSave, InsertChunk,
         CommitSave, SaveFails, DeadLetterSucceeds, DeadLetterFails, CommitSucceeds,
         CommitFails, Rejoin, Shutdown, Exit, Crash, GoDown, Restart, UsersGrow, Leave,
         MarkAllRead, vars, kafkaVars
<1> QED
  BY <1>1, <1>2, <1>3

\* What a step does to the rows: nothing, a COMMIT, or marking some as read.
LEMMA RowsStep ==
  ASSUME TypeOK, OffsetsExist, [Next]_vars
  PROVE  \/ UNCHANGED <<notifications, saved>>
         \/ UNCHANGED saved /\ \A m \in Messages : Notified(m)' = Notified(m)
         \/ /\ pc = "insert" /\ tx.inserted = tx.to /\ saved' = saved \cup {Current}
            /\ \A m \in Messages :
                  Notified(m)' = Notified(m) \cup (IF m = Message THEN tx.to ELSE {})
<1>1. CASE Land
  <2>1. /\ pc = "insert" /\ tx.inserted = tx.to /\ saved' = saved \cup {Current}
        /\ notifications' = Upsert(Message, tx.to) /\ tx.to \subseteq Users
    BY <1>1 DEF Land, TypeOK
  <2>2. Message \in Messages
    BY <2>1, CurrentExists
  <2>3. /\ notifications \in [Messages -> [Users -> {"none", "unread", "read"}]]
        /\ \A m \in Messages, u \in Users :
              notifications'[m][u] = IF m = Message /\ u \in tx.to
                                        /\ notifications[m][u] = "none"
                                     THEN "unread" ELSE notifications[m][u]
    BY <2>1, <2>2 DEF Upsert, TypeOK
  <2>4. ASSUME NEW m \in Messages
        PROVE  Notified(m)' = Notified(m) \cup (IF m = Message THEN tx.to ELSE {})
    <3>1. CASE m = Message
      BY <2>1, <2>3, <3>1 DEF Notified
    <3>2. CASE m # Message
      BY <2>1, <2>3, <3>2 DEF Notified
    <3> QED
      BY <3>1, <3>2
  <2> QED
    BY <2>1, <2>4
<1>2. ASSUME NEW u \in Users, MarkAllRead(u)
      PROVE  UNCHANGED saved /\ \A m \in Messages : Notified(m)' = Notified(m)
  <2>1. \A m \in Messages : notifications[m] \in [Users -> {"none", "unread", "read"}]
    BY DEF TypeOK
  <2>2. \A m \in Messages : notifications'[m] = IF u \in Notified(m)
                                THEN [notifications[m] EXCEPT ![u] = "read"]
                                ELSE notifications[m]
    BY <1>2 DEF MarkAllRead
  <2>3. \A m \in Messages : Notified(m)' = Notified(m)
    BY <2>1, <2>2 DEF Notified
  <2> QED
    BY <1>2, <2>3 DEF MarkAllRead
<1>3. UNCHANGED <<notifications, saved>> \/ Land \/ \E u \in Users : MarkAllRead(u)
  BY DEF Next, HandlerNext, ProcessNext, BackendNext, Take, BeginSave, InsertChunk,
         CommitSave, SaveFails, DeadLetterSucceeds, DeadLetterFails, CommitSucceeds,
         CommitFails, Rejoin, Shutdown, Exit, Crash, GoDown, Restart, Publish, UsersGrow,
         Leave, vars, storeVars
<1> QED
  BY <1>1, <1>2, <1>3

LEMMA NotifiedIsPublishedStep ==
  ASSUME NotificationInv, [Next]_vars
  PROVE  NotifiedIsPublished'
<1> USE DEF NotificationInv, Offsets, Audience
<1>1. Published \subseteq Published'
  BY PublishedGrows
<1>2. pc = "insert" => Message \in Published
  BY CurrentExists, RecordIsPublished
<1>3. ASSUME NEW m \in Messages, Notified(m)' # {}
      PROVE  m \in Published
  <2>1. Notified(m) # {} => m \in Published
    BY DEF NotifiedIsPublished
  <2> QED
    BY <1>2, <1>3, <2>1, RowsStep DEF Notified
<1> QED
  BY <1>1, <1>3 DEF NotifiedIsPublished

LEMMA SavesAreWholeStep ==
  ASSUME NotificationInv, [Next]_vars
  PROVE  SavesAreWhole'
<1> USE DEF NotificationInv, Offsets, Audience
<1>1. pc = "insert" => /\ Current \in Record /\ Message \in Published
                       /\ steady[Message] \subseteq tx.to
  BY CurrentExists, RecordIsPublished DEF TxIsWhole
<1>2. \A rec \in saved : MessageOf(rec)' = MessageOf(rec) /\ MessageOf(rec) \in Published
  <2> TAKE rec \in saved
  <2>1. rec.partition \in Partitions /\ rec.offset \in 1..Len(topic[rec.partition])
    BY DEF TypeOK, Record, SavedExist
  <2> QED
    BY <2>1, MessageStays, SavedIsPublished DEF MessageOf
<1>3. pc = "insert" => \A rec : rec = Current => MessageOf(rec)' = Message
  BY CurrentExists, MessageStays DEF MessageOf, Message
<1> SUFFICES ASSUME NEW m \in Messages,
                    Notified(m)' # {} \/ \E rec \in saved' : MessageOf(rec)' = m
             PROVE  steady'[m] \subseteq Notified(m)'
  BY DEF SavesAreWhole
<1>4. Notified(m) \subseteq Notified(m)'
  BY RowsStep DEF Notified
<1>5. CASE Notified(m) # {} \/ \E rec \in saved : MessageOf(rec) = m
  <2>1. m \in Published
    BY <1>2, <1>5 DEF NotifiedIsPublished
  <2>2. steady[m] \subseteq Notified(m)
    BY <1>5 DEF SavesAreWhole
  <2> QED
    BY <1>4, <2>1, <2>2, SteadyShrinks
<1>6. CASE ~(Notified(m) # {} \/ \E rec \in saved : MessageOf(rec) = m)
  <2>1. pc = "insert" /\ m = Message /\ Notified(m)' = Notified(m) \cup tx.to
    <3>1. Notified(m) = {} /\ \A rec \in saved : MessageOf(rec)' # m
      BY <1>2, <1>6
    <3>2. ~(saved' = saved /\ Notified(m)' = Notified(m))
      BY <3>1
    <3>3. UNCHANGED notifications => Notified(m)' = Notified(m)
      BY DEF Notified
    <3>4. /\ pc = "insert" /\ saved' = saved \cup {Current}
          /\ Notified(m)' = Notified(m) \cup (IF m = Message THEN tx.to ELSE {})
      BY <3>2, <3>3, RowsStep
    <3>5. m = Message
      <4>1. CASE Notified(m)' # {}
        BY <3>1, <3>4, <4>1
      <4>2. CASE \E rec \in saved' : MessageOf(rec)' = m
        BY <1>3, <3>1, <3>4, <4>2
      <4> QED
        BY <4>1, <4>2
    <3> QED
      BY <3>4, <3>5
  <2> QED
    BY <1>1, <2>1, SteadyShrinks
<1> QED
  BY <1>5, <1>6

LEMMA NotificationInit == Init => NotificationInv
<1> SUFFICES ASSUME Init PROVE NotificationInv
  OBVIOUS
<1>1. TypeOK
  BY DEF Init, TypeOK, NoTx
<1>2. Offsets
  BY DEF Init, Offsets, OffsetsExist, PassedIsHandled, CommitIsHandled, NothingIsSkipped
<1>3. Audience
  BY DEF Init, Audience, SteadyAreRecipients, TxIsWhole, SavedExist, InTheirPartition,
         NotifiedIsPublished, SavesAreWhole, Notified
<1> QED
  BY <1>1, <1>2, <1>3 DEF NotificationInv

LEMMA NotificationStep == NotificationInv /\ [Next]_vars => NotificationInv'
<1> SUFFICES ASSUME NotificationInv, [Next]_vars PROVE NotificationInv'
  OBVIOUS
<1>1. TypeOK'
  BY TypeStep
<1>2. Offsets'
  BY <1>1, OffsetsStep DEF NotificationInv
<1>3. SteadyAreRecipients'
  BY SteadyAreRecipientsStep DEF NotificationInv, Audience
<1>4. Audience'
  BY <1>3, TxIsWholeStep, SavedExistStep, InTheirPartitionStep, NotifiedIsPublishedStep,
     SavesAreWholeStep DEF Audience
<1> QED
  BY <1>1, <1>2, <1>4 DEF NotificationInv

-----------------------------------------------------------------------------
(***************************************************************************)
(* Every variable keeps its type.                                          *)
(***************************************************************************)
THEOREM NotificationTypeCorrect == Spec => []TypeOK
<1>1. NotificationInv => TypeOK
  BY DEF NotificationInv
<1> QED
  BY <1>1, NotificationInit, NotificationStep, PTL DEF Spec

(***************************************************************************)
(* No committed offset leaves a message behind that was neither saved nor  *)
(* copied to the DLQ: what is delivered after a restart is all that was    *)
(* not dealt with.                                                         *)
(***************************************************************************)
THEOREM NoNotificationIsLost == Spec => []NothingIsSkipped
<1>1. NotificationInv => NothingIsSkipped
  BY DEF NotificationInv, Offsets
<1> QED
  BY <1>1, NotificationInit, NotificationStep, PTL DEF Spec

(***************************************************************************)
(* A message whose rows can be seen, or that was saved, has one for every  *)
(* user that was its recipient from the publication on.                    *)
(***************************************************************************)
THEOREM SavesStayWhole == Spec => []SavesAreWhole
<1>1. NotificationInv => SavesAreWhole
  BY DEF NotificationInv, Audience
<1> QED
  BY <1>1, NotificationInit, NotificationStep, PTL DEF Spec

(***************************************************************************)
(* However often a message is delivered again, what was read stays read    *)
(* and no row goes away.                                                   *)
(***************************************************************************)
THEOREM ReadNotificationsStayRead == Spec => ReadStaysRead
<1> DEFINE Kept == \A m \in Messages, u \in Users :
                      /\ notifications[m][u] = "read" => notifications'[m][u] = "read"
                      /\ u \in Notified(m) => notifications'[m][u] # "none"
<1>1. ASSUME NotificationInv, [Next]_vars PROVE [Kept]_vars
  <2>1. /\ notifications \in [Messages -> [Users -> {"none", "unread", "read"}]]
        /\ \A m \in Messages : notifications[m] \in [Users -> {"none", "unread", "read"}]
    BY <1>1 DEF NotificationInv, TypeOK
  <2>2. CASE UNCHANGED notifications
    BY <2>2 DEF Notified
  <2>3. CASE Land
    <3>1. Message \in Messages /\ notifications' = Upsert(Message, tx.inserted)
      BY <1>1, <2>3, CurrentExists DEF Land, NotificationInv, Offsets
    <3>2. \A m \in Messages, u \in Users :
             notifications'[m][u] \in {notifications[m][u], "unread"} /\
             (notifications'[m][u] # notifications[m][u] => notifications[m][u] = "none")
      BY <2>1, <3>1 DEF Upsert
    <3> QED
      BY <3>2 DEF Notified
  <2>4. ASSUME NEW u \in Users, MarkAllRead(u) PROVE Kept
    <3>1. \A m \in Messages : notifications'[m] = IF u \in Notified(m)
                                  THEN [notifications[m] EXCEPT ![u] = "read"]
                                  ELSE notifications[m]
      BY <2>4 DEF MarkAllRead
    <3> QED
      BY <2>1, <3>1 DEF Notified
  <2>5. UNCHANGED notifications \/ Land \/ \E u \in Users : MarkAllRead(u)
    BY <1>1 DEF Next, HandlerNext, ProcessNext, BackendNext, Take, BeginSave, InsertChunk,
          CommitSave, SaveFails, DeadLetterSucceeds, DeadLetterFails, CommitSucceeds,
          CommitFails, Rejoin, Shutdown, Exit, Crash, GoDown, Restart, Publish, UsersGrow,
          Leave, vars, storeVars
  <2> QED
    BY <2>2, <2>3, <2>4, <2>5
<1> QED
  BY <1>1, NotificationInit, NotificationStep, PTL DEF Spec, ReadStaysRead

-----------------------------------------------------------------------------
(***************************************************************************)
(* The refinement of NewsDelivery, step by step.  As SavedExist does for   *)
(* the saved records, DeadLettersExist says that the topic has whatever    *)
(* was copied to the DLQ.                                                  *)
(***************************************************************************)
DeadLettersExist == \A rec \in deadLetters : rec.offset \in 1..Len(topic[rec.partition])

DeliveryInv == NotificationInv /\ DeadLettersExist

LEMMA DeadLettersExistStep ==
  ASSUME DeliveryInv, [Next]_vars
  PROVE  DeadLettersExist'
<1> USE DEF DeliveryInv, NotificationInv, Offsets
<1>1. \A rec \in deadLetters : rec.offset \in 1..Len(topic'[rec.partition])
  <2> TAKE rec \in deadLetters
  <2>1. rec.partition \in Partitions /\ rec.offset \in 1..Len(topic[rec.partition])
    BY DEF DeadLettersExist, TypeOK, Record
  <2> QED
    BY <2>1, MessageStays
<1>2. CASE UNCHANGED deadLetters
  BY <1>1, <1>2 DEF DeadLettersExist
<1>3. CASE DeadLetterSucceeds \/ DeadLetterFails
  <2>1. /\ pc = "deadletter" /\ UNCHANGED topic
        /\ deadLetters' \in {deadLetters, deadLetters \cup {Current}}
    BY <1>3 DEF DeadLetterSucceeds, DeadLetterFails, kafkaVars
  <2>2. Current.offset \in 1..Len(topic[Current.partition])
    BY <2>1, CurrentExists
  <2> QED
    BY <1>1, <2>1, <2>2 DEF DeadLettersExist
<1>4. UNCHANGED deadLetters \/ DeadLetterSucceeds \/ DeadLetterFails
  BY DEF Next, HandlerNext, ProcessNext, BackendNext, vars, storeVars, Publish, UsersGrow,
         Leave, MarkAllRead, Take, BeginSave, InsertChunk, CommitSave, Land, SaveFails,
         CommitSucceeds, CommitFails, Rejoin, Shutdown, GoDown, Exit, Crash, Restart
<1> QED
  BY <1>2, <1>3, <1>4

\* A step saves or copies the record in hand, of a message that was published, or none.
LEMMA HandledStep ==
  ASSUME NotificationInv, [Next]_vars
  PROVE  \/ UNCHANGED <<saved, deadLetters>>
         \/ /\ pc # "idle" /\ UNCHANGED topic
            /\ Message \in Published
            /\ (saved \cup deadLetters)' = (saved \cup deadLetters) \cup {Current}
<1> USE DEF NotificationInv, Offsets, Audience
<1>1. pc # "idle" => Message \in Published
  BY CurrentExists, RecordIsPublished
<1>2. CASE DeadLetterSucceeds \/ DeadLetterFails
  BY <1>1, <1>2 DEF DeadLetterSucceeds, DeadLetterFails, kafkaVars
<1>3. CASE Land /\ UNCHANGED topic
  BY <1>1, <1>3 DEF Land
<1>4. \/ UNCHANGED <<saved, deadLetters>> \/ DeadLetterSucceeds \/ DeadLetterFails
      \/ Land /\ UNCHANGED topic
  BY DEF Next, HandlerNext, ProcessNext, BackendNext, vars, storeVars, kafkaVars, Publish,
         UsersGrow, Leave, MarkAllRead, Take, BeginSave, InsertChunk, CommitSave,
         SaveFails, CommitSucceeds, CommitFails, Rejoin, Shutdown, GoDown, Exit, Crash,
         Restart
<1> QED
  BY <1>2, <1>3, <1>4

LEMMA PublishIsAccept ==
  ASSUME DeliveryInv, NEW m \in Messages, Publish(m)
  PROVE  Published' = Published \cup {m} /\ HandledMessages' = HandledMessages
<1> USE DEF DeliveryInv, NotificationInv, Audience
<1>0. [Next]_vars
  BY DEF Next, BackendNext
<1>1. /\ topic \in [Partitions -> Seq(Messages)] /\ PartitionOf[m] \in Partitions
      /\ topic' = [topic EXCEPT ![PartitionOf[m]] = Append(topic[PartitionOf[m]], m)]
      /\ UNCHANGED <<saved, deadLetters>>
  BY DEF Publish, TypeOK, storeVars
<1>2. ASSUME NEW q \in Messages
      PROVE  q \in Published' <=> q \in Published \/ q = m
  <2>1. PartitionOf[q] \in Partitions /\ topic[PartitionOf[q]] \in Seq(Messages)
    BY <1>1
  <2>2. CASE PartitionOf[q] # PartitionOf[m]
    BY <1>1, <2>1, <2>2 DEF Published
  <2>3. CASE PartitionOf[q] = PartitionOf[m]
    <3>1. topic'[PartitionOf[q]] = Append(topic[PartitionOf[q]], m)
      BY <1>1, <2>3
    <3> DEFINE old == topic[PartitionOf[q]]
    <3>2. /\ Len(old) \in Nat /\ DOMAIN old = 1..Len(old)
          /\ DOMAIN topic'[PartitionOf[q]] = 1..(Len(old) + 1)
          /\ topic'[PartitionOf[q]][Len(old) + 1] = m
          /\ \A i \in 1..Len(old) : topic'[PartitionOf[q]][i] = old[i]
      BY <2>1, <3>1
    <3>3. q \in Published' => q \in Published \/ q = m
      BY <3>2 DEF Published
    <3>4. q \in Published => q \in Published'
      BY <3>2 DEF Published
    <3>5. q = m => q \in Published'
      BY <3>2 DEF Published
    <3> QED
      BY <3>3, <3>4, <3>5
  <2> QED
    BY <2>2, <2>3
<1>3. Published \subseteq Messages /\ Published' \subseteq Messages
  BY DEF Published
<1>4. Published' = Published \cup {m}
  BY <1>2, <1>3
<1>5. \A rec \in saved \cup deadLetters : MessageOf(rec)' = MessageOf(rec)
  <2> TAKE rec \in saved \cup deadLetters
  <2>1. rec.partition \in Partitions /\ rec.offset \in 1..Len(topic[rec.partition])
    BY DEF SavedExist, DeadLettersExist, TypeOK, Record
  <2> QED
    BY <1>0, <2>1, MessageStays DEF MessageOf
<1>6. HandledMessages' = HandledMessages
  BY <1>1, <1>5 DEF HandledMessages
<1> QED
  BY <1>4, <1>6

(***************************************************************************)
(* Every step of the consumer is a step of NewsDelivery or leaves it       *)
(* alone: a message is saved or copied to the DLQ only after the topic had *)
(* it, one message a step, and that is never undone (handle).              *)
(***************************************************************************)
THEOREM SafeHandling == Spec => Delivery!NewsSafety
<1>1. Init => Delivery!NewsInit /\ DeliveryInv
  BY NotificationInit DEF Init, Delivery!NewsInit, Published, HandledMessages, DeliveryInv,
     DeadLettersExist
<1>2. DeliveryInv /\ [Next]_vars => DeliveryInv'
  BY NotificationStep, DeadLettersExistStep DEF DeliveryInv
<1>3. DeliveryInv /\ [Next]_vars => [Delivery!NewsNext]_<<Published, HandledMessages>>
  <2> SUFFICES ASSUME DeliveryInv, [Next]_vars
               PROVE  Delivery!NewsNext \/ UNCHANGED <<Published, HandledMessages>>
    OBVIOUS
  <2>1. ASSUME NEW m \in Messages, Publish(m)
        PROVE  Delivery!NewsNext \/ UNCHANGED <<Published, HandledMessages>>
    BY <2>1, PublishIsAccept DEF Delivery!NewsNext, Delivery!Accept
  <2>2. CASE UNCHANGED topic
    <3>1. Published' = Published /\ \A rec : MessageOf(rec)' = MessageOf(rec)
      BY <2>2 DEF Published, MessageOf
    <3>2. CASE UNCHANGED <<saved, deadLetters>>
      BY <3>1, <3>2 DEF HandledMessages
    <3>3. ASSUME (saved \cup deadLetters)' = (saved \cup deadLetters) \cup {Current},
                 Message \in Published
          PROVE  Delivery!NewsNext \/ UNCHANGED <<Published, HandledMessages>>
      <4>1. Message \in Messages
        BY <3>3 DEF Published
      <4>2. HandledMessages' = HandledMessages \cup {Message}
        BY <3>1, <3>3, <4>1 DEF HandledMessages, Message
      <4> QED
        BY <3>1, <3>3, <4>1, <4>2 DEF Delivery!NewsNext, Delivery!Deliver
    <3> QED
      BY <3>2, <3>3, HandledStep DEF DeliveryInv
  <2>3. UNCHANGED topic \/ \E m \in Messages : Publish(m)
    BY DEF Next, HandlerNext, ProcessNext, BackendNext, vars, kafkaVars, UsersGrow, Leave,
           MarkAllRead, Take, BeginSave, InsertChunk, CommitSave, SaveFails,
           DeadLetterSucceeds, DeadLetterFails, CommitSucceeds, CommitFails, Rejoin,
           Shutdown, GoDown, Exit, Crash, Restart
  <2> QED
    BY <2>1, <2>2, <2>3
<1> QED
  BY <1>1, <1>2, <1>3, PTL DEF Spec, Delivery!NewsSafety, Delivery!nvars
=============================================================================
