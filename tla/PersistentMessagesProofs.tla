----------------------- MODULE PersistentMessagesProofs -----------------------
(***************************************************************************)
(* What a mailbox holds, for any avatars and categories, any number of     *)
(* messages and any number of failed statements.                           *)
(***************************************************************************)
EXTENDS PersistentMessages, TLAPS

\* Rows have ids of their own, given out already, and what is remembered about
\* a message is remembered about a row.
Numbered ==
    /\ nextId \in 1..(MaxMail + 1)
    /\ mail \subseteq Row
    /\ \A m \in mail : m.id < nextId
    /\ \A m, n \in mail : m.id = n.id => m = n

Remembered ==
    /\ asked \in [Id -> PersistentState \cup {"NONE"}]
    /\ \A i \in Id \ Ids(mail) : asked[i] = "NONE"
    /\ delivered \subseteq Ids(mail)

MailInv == Numbered /\ Remembered /\ MailAnnounced /\ StatusExplained

\* Before the first message.
LEMMA InitMail == Init => MailInv
<1> SUFFICES ASSUME Init PROVE MailInv
  OBVIOUS
<1> USE DEF Init
<1>1. Numbered
  <2>1. MaxMail \in Nat
    BY MailAssumption
  <2> QED BY <2>1, SMT DEF Numbered
<1>2. Remembered
  BY DEF Remembered, Ids
<1>3. MailAnnounced /\ StatusExplained
  BY DEF MailAnnounced, StatusExplained, Ids
<1> QED BY <1>1, <1>2, <1>3 DEF MailInv

(***************************************************************************)
(* What a statement may come to                                            *)
(***************************************************************************)

\* An UPDATE leaves the table or changes it, and has changed it when it
\* returns.
LEMMA UpdateOutcome ==
    ASSUME NEW old, NEW new, NEW o \in Execute(old, new, MayFail)
    PROVE  /\ o.db \in {old, new} /\ o.ok \in BOOLEAN
           /\ o.ok => o.db = new
<1>1. CASE o = Ran(new)
  BY <1>1 DEF Ran
<1>2. CASE \E v \in {old, new} : MayFail /\ o = [db |-> v, ok |-> FALSE, fault |-> 1]
  BY <1>2
<1> QED BY <1>1, <1>2 DEF Execute

\* MarkRead returns when the row is READ, or needs no statement.
LEMMA MarkReadOutcome ==
    ASSUME NEW M, NEW o \in MarkRead(M)
    PROVE  /\ o.db \in {mail, SetStatus(M, "READ")} /\ o.ok \in BOOLEAN
           /\ o.ok => \/ o.db = SetStatus(M, "READ") /\ \E m \in M : m.status = "NEW"
                      \/ o.db = mail /\ \A m \in M : m.status # "NEW"
<1>1. CASE \E m \in M : m.status = "NEW"
  <2>1. o \in Execute(mail, SetStatus(M, "READ"), MayFail)
    BY <1>1 DEF MarkRead
  <2> QED BY <1>1, <2>1, UpdateOutcome
<1>2. CASE \A m \in M : m.status # "NEW"
  <2>1. o = [db |-> mail, ok |-> TRUE, fault |-> 0]
    BY <1>2 DEF MarkRead, NotNeeded
  <2> QED BY <1>2, <2>1
<1> QED BY <1>1, <1>2

\* An INSERT that returns has stored one row or two, and one if the
\* connection did not fail.
LEMMA AppendOutcome ==
    ASSUME NEW n \in Nat, NEW o \in AppendRow(n, MayFail)
    PROVE  /\ o.db \in Nat /\ n <= o.db
           /\ o.ok \in BOOLEAN
           /\ o.ok => o.db > n
           /\ o.fault = 0 => o.ok /\ o.db = n + 1
<1>1. CASE o = Ran(n + 1)
  BY <1>1 DEF Ran
<1>2. CASE o = [db |-> n + 2, ok |-> TRUE, fault |-> 1]
  BY <1>2
<1>3. CASE \E k \in n..(n + 2) : o = [db |-> k, ok |-> FALSE, fault |-> 1]
  BY <1>3
<1> QED BY <1>1, <1>2, <1>3 DEF AppendRow

(***************************************************************************)
(* A changed status                                                        *)
(***************************************************************************)

\* A row with another status is the same message.
LEMMA RowChanged ==
    ASSUME NEW m \in Row, NEW s \in PersistentState
    PROVE  LET n == [m EXCEPT !.status = s]
           IN  n \in Row /\ n.id = m.id /\ n.owner = m.owner /\ n.status = s
BY DEF Row

\* UPDATE ... SET status keeps the rows and their owners and changes the
\* status of the rows it names, and of no other.
LEMMA SetStatusRows ==
    ASSUME Numbered, NEW M, M \subseteq mail, NEW s \in PersistentState
    PROVE  LET changed == SetStatus(M, s)
           IN  /\ changed \subseteq Row
               /\ Ids(changed) = Ids(mail)
               /\ \A n \in changed :
                     \/ n \in mail /\ n.id \notin Ids(M)
                     \/ n.id \in Ids(M) /\ n.status = s
               /\ \A m, n \in changed : m.id = n.id => m = n
<1> DEFINE changed == SetStatus(M, s)
           C(m) == [m EXCEPT !.status = s]
<1>1. \A m \in mail : C(m) \in Row /\ C(m).id = m.id /\ C(m).status = s
  BY RowChanged DEF Numbered
<1>2. \A n \in changed : n \in mail \ M \/ \E m \in M : n = C(m)
  BY DEF SetStatus
<1>3. \A m \in M : C(m) \in changed
  BY DEF SetStatus
<1>4. \A n \in mail \ M : n \in changed /\ n.id \notin Ids(M)
  BY DEF SetStatus, Ids, Numbered
<1> HIDE DEF changed, C
<1>5. changed \subseteq Row
  BY <1>1, <1>2 DEF Numbered
<1>6. Ids(changed) \subseteq Ids(mail)
  BY <1>1, <1>2 DEF Ids
<1>7. Ids(mail) \subseteq Ids(changed)
  <2> SUFFICES ASSUME NEW m \in mail PROVE \E n \in changed : n.id = m.id
    BY DEF Ids
  <2>1. CASE m \in M
    BY <2>1, <1>1, <1>3
  <2>2. CASE m \notin M
    BY <2>2, <1>4
  <2> QED BY <2>1, <2>2
<1>8. \A n \in changed :
         \/ n \in mail /\ n.id \notin Ids(M)
         \/ n.id \in Ids(M) /\ n.status = s
  <2> SUFFICES ASSUME NEW n \in changed
               PROVE  \/ n \in mail /\ n.id \notin Ids(M)
                      \/ n.id \in Ids(M) /\ n.status = s
    OBVIOUS
  <2>1. CASE n \in mail \ M
    BY <2>1, <1>4
  <2>2. CASE \E m \in M : n = C(m)
    BY <2>2, <1>1 DEF Ids
  <2> QED BY <2>1, <2>2, <1>2
<1>9. \A m, n \in changed : m.id = n.id => m = n
  <2> SUFFICES ASSUME NEW m \in changed, NEW n \in changed, m.id = n.id PROVE m = n
    OBVIOUS
  <2>1. CASE m \in mail \ M /\ n \in mail \ M
    BY <2>1 DEF Numbered
  <2>2. CASE m \in mail \ M /\ \E k \in M : n = C(k)
    BY <2>2, <1>1, <1>4 DEF Ids
  <2>3. CASE n \in mail \ M /\ \E k \in M : m = C(k)
    BY <2>3, <1>1, <1>4 DEF Ids
  <2>4. CASE (\E k \in M : m = C(k)) /\ (\E k \in M : n = C(k))
    <3>1. PICK j \in M, k \in M : m = C(j) /\ n = C(k)
      BY <2>4
    <3>2. j.id = k.id
      BY <3>1, <1>1
    <3> QED BY <3>1, <3>2 DEF Numbered
  <2> QED BY <2>1, <2>2, <2>3, <2>4, <1>2
<1> QED BY <1>5, <1>6, <1>7, <1>8, <1>9 DEF changed

\* What follows when a step leaves the rows and their ids and changes at most
\* the status of the rows M.
Restated(M, s) ==
    /\ M \subseteq mail
    /\ mail' \in {mail, SetStatus(M, s)}
    /\ UNCHANGED <<nextId, answered, lost>>

\* Such a step keeps the numbers and the announcements.
LEMMA RestatedKeeps ==
    ASSUME MailInv, NEW M, NEW s \in PersistentState, Restated(M, s)
    PROVE  Numbered' /\ Ids(mail') = Ids(mail) /\ MailAnnounced'
<1>1. CASE mail' = mail
  BY <1>1 DEF MailInv, Numbered, Restated, MailAnnounced, Ids
<1>2. CASE mail' = SetStatus(M, s)
  <2>1. /\ mail' \subseteq Row /\ Ids(mail') = Ids(mail)
        /\ \A m, n \in mail' : m.id = n.id => m = n
    BY <1>2, SetStatusRows DEF MailInv, Restated
  <2>2. \A m \in mail' : m.id < nextId'
    <3>1. \A m \in mail' : \E n \in mail : n.id = m.id
      BY <2>1 DEF Ids
    <3> QED BY <3>1 DEF MailInv, Numbered, Restated
  <2> QED BY <2>1, <2>2 DEF MailInv, Numbered, Restated, MailAnnounced
<1> QED BY <1>1, <1>2 DEF Restated

(***************************************************************************)
(* The handlers                                                            *)
(***************************************************************************)

\* A step that leaves the rows and what is known of them.
LEMMA NothingChanged ==
    ASSUME MailInv, UNCHANGED <<mail, nextId, history>>
    PROVE  MailInv'
BY DEF MailInv, Numbered, Remembered, MailAnnounced, StatusExplained, Ids, history

\* Whatever the INSERT comes to, the rows it leaves are new and one of them at
\* most is announced.
LEMMA StoreKeeps ==
    ASSUME MailInv, NEW dest \in Avatar, NEW cat \in Category, StoreMessage(dest, cat)
    PROVE  MailInv'
<1>1. PICK ins \in AppendRow(nextId, MayFail) :
         /\ ins.db <= MaxMail + 1
         /\ mail' = mail \cup {NewMail(i, dest, cat) : i \in nextId..(ins.db - 1)}
         /\ nextId' = ins.db
         /\ answered' = IF ins.ok THEN answered \cup {LastInsertId(ins.db)} ELSE answered
         /\ lost' = IF ins.fault = 0 THEN lost
                    ELSE lost \cup ((nextId..(ins.db - 1)) \ answered')
         /\ UNCHANGED <<delivered, asked, torn>>
  BY DEF StoreMessage
<1> DEFINE new == nextId..(ins.db - 1)
<1>2. nextId \in Nat /\ nextId >= 1 /\ nextId <= MaxMail + 1 /\ MaxMail \in Nat
  BY MailAssumption DEF MailInv, Numbered
<1>3. /\ ins.db \in Nat /\ nextId <= ins.db
      /\ ins.ok \in BOOLEAN
      /\ ins.ok => ins.db > nextId
      /\ ins.fault = 0 => ins.ok /\ ins.db = nextId + 1
  BY <1>1, <1>2, AppendOutcome
<1>4. \A i \in new : i \in Id /\ i >= nextId /\ i < ins.db
  BY <1>1, <1>2, <1>3 DEF Id
<1>5. \A i \in new : i \notin Ids(mail)
  <2>1. \A m \in mail : m.id < nextId /\ m.id \in Nat
    BY DEF MailInv, Numbered, Row, Id
  <2> QED BY <2>1, <1>2, <1>4 DEF Ids, Id
<1>6. \A i \in new :
         /\ NewMail(i, dest, cat) \in Row
         /\ NewMail(i, dest, cat).id = i
         /\ NewMail(i, dest, cat).status = "NEW"
  BY <1>4 DEF NewMail, Row, PersistentState
<1> DEFINE newRows == {NewMail(i, dest, cat) : i \in new}
<1>7. \A m \in newRows : m \in Row /\ m.id \in new /\ m.status = "NEW" /\ m = NewMail(m.id, dest, cat)
  BY <1>6
<1>8. \A i \in new : \E m \in newRows : m.id = i
  BY <1>6
<1>9. mail' = mail \cup newRows
  BY <1>1
<1> HIDE DEF newRows
<1>10. Ids(mail') = Ids(mail) \cup new
  BY <1>7, <1>8, <1>9 DEF Ids
<1>11. Numbered'
  <2>1. nextId' \in 1..(MaxMail + 1)
    BY <1>1, <1>2, <1>3
  <2>2. mail' \subseteq Row
    BY <1>7, <1>9 DEF MailInv, Numbered
  <2>3. \A m \in mail' : m.id < nextId'
    <3>1. \A m \in mail : m.id < nextId /\ m.id \in Nat
      BY DEF MailInv, Numbered, Row, Id
    <3>2. \A m \in mail : m.id < ins.db
      BY <3>1, <1>2, <1>3
    <3> QED BY <3>2, <1>1, <1>4, <1>7, <1>9
  <2>4. \A m, n \in mail' : m.id = n.id => m = n
    <3>1. \A m \in mail : m.id \notin new
      BY <1>5 DEF Ids
    <3>2. \A m, n \in newRows : m.id = n.id => m = n
      BY <1>7
    <3>3. \A m, n \in mail : m.id = n.id => m = n
      BY DEF MailInv, Numbered
    <3> QED BY <3>1, <3>2, <3>3, <1>7, <1>9
  <2> QED BY <2>1, <2>2, <2>3, <2>4 DEF Numbered
<1>12. Remembered'
  BY <1>1, <1>10 DEF MailInv, Remembered
<1>13. MailAnnounced'
  <2>1. ins.ok => LastInsertId(ins.db) \in new
    BY <1>2, <1>3 DEF LastInsertId
  <2>2. ins.fault = 0 => new = {LastInsertId(ins.db)}
    BY <1>2, <1>3 DEF LastInsertId
  <2>3. answered \subseteq Ids(mail) /\ Ids(mail) \ answered = lost
    BY DEF MailInv, MailAnnounced
  <2>4. answered' = answered \cup (answered' \cap new) /\ answered' \subseteq Ids(mail')
    BY <2>1, <2>3, <1>1, <1>10
  <2>5. lost' = lost \cup (new \ answered')
    <3>1. CASE ins.fault = 0
      BY <3>1, <2>2, <1>1, <1>3
    <3>2. CASE ins.fault # 0
      BY <3>2, <1>1
    <3> QED BY <3>1, <3>2
  <2>6. Ids(mail') \ answered' = lost'
    BY <2>3, <2>4, <2>5, <1>5, <1>10
  <2> QED BY <2>4, <2>6 DEF MailAnnounced
<1>14. StatusExplained'
  <2>1. \A m \in newRows : asked[m.id] = "NONE" /\ m.id \notin delivered
    BY <1>4, <1>5, <1>7 DEF MailInv, Remembered
  <2> QED BY <2>1, <1>1, <1>7, <1>9 DEF MailInv, StatusExplained
<1> QED BY <1>11, <1>12, <1>13, <1>14 DEF MailInv

\* Fetching a message leaves it READ if it was NEW, with its owner told.
LEMMA GetKeeps ==
    ASSUME MailInv, NEW a \in Avatar, NEW id \in Id, GetPersistentMessage(a, id)
    PROVE  MailInv'
<1> DEFINE M == Selected(a, id)
<1>1. CASE M = {} /\ Fail("PMSGNOTFOUND")
  BY <1>1, NothingChanged DEF Fail
<1>2. ASSUME NEW upd \in MarkRead(M),
             mail' = upd.db,
             delivered' = IF upd.ok THEN delivered \cup IdsOf(a, M) ELSE delivered,
             torn' = IF upd.ok THEN torn ELSE torn \cup Ids(M),
             UNCHANGED <<nextId, answered, asked, lost>>
      PROVE  MailInv'
  <2>1. M \subseteq mail /\ \A m \in M : m.owner = a /\ m.id = id
    BY DEF Selected
  <2>2. IdsOf(a, M) = Ids(M) /\ Ids(M) \subseteq Ids(mail)
    BY <2>1 DEF IdsOf, Ids
  <2>3. \A m, n \in M : m = n
    BY <2>1 DEF MailInv, Numbered
  <2> HIDE DEF M
  <2>4. "READ" \in PersistentState
    BY DEF PersistentState
  <2>5. /\ upd.db \in {mail, SetStatus(M, "READ")} /\ upd.ok \in BOOLEAN
        /\ upd.ok => \/ upd.db = SetStatus(M, "READ") /\ \E m \in M : m.status = "NEW"
                     \/ upd.db = mail /\ \A m \in M : m.status # "NEW"
    BY <1>2, MarkReadOutcome
  <2>6. Restated(M, "READ")
    BY <1>2, <2>1, <2>5 DEF Restated
  <2>7. Numbered' /\ Ids(mail') = Ids(mail) /\ MailAnnounced'
    BY <2>4, <2>6, RestatedKeeps
  <2>8. Remembered'
    <3>1. delivered' \subseteq Ids(mail)
      BY <1>2, <2>2, <2>5 DEF MailInv, Remembered
    <3> QED BY <3>1, <2>7, <1>2 DEF MailInv, Remembered
  <2>9. StatusExplained'
    <3> SUFFICES ASSUME NEW n \in mail', n.id \notin torn'
                 PROVE  n.status = IF asked[n.id] \in {"NONE", "NEW"}
                                   THEN IF n.id \in delivered' THEN "READ" ELSE "NEW"
                                   ELSE asked[n.id]
      BY <1>2 DEF StatusExplained
    <3>1. n.id \notin torn
      BY <1>2, <2>5
    <3>2. \/ n \in mail /\ n.id \notin Ids(M)
          \/ n \in M /\ upd.db = mail
          \/ n.id \in Ids(M) /\ n.status = "READ" /\ upd.db = SetStatus(M, "READ")
      <4>1. CASE upd.db = mail
        <5>1. n \in mail
          BY <4>1, <1>2
        <5>2. n.id \in Ids(M) => n \in M
          BY <5>1, <2>1 DEF Ids, MailInv, Numbered
        <5> QED BY <4>1, <5>1, <5>2
      <4>2. CASE upd.db = SetStatus(M, "READ")
        BY <4>2, <2>1, <2>4, <1>2, SetStatusRows DEF MailInv
      <4> QED BY <4>1, <4>2, <2>5
    <3>3. CASE n \in mail /\ n.id \notin Ids(M)
      <4>1. n.id \in delivered' <=> n.id \in delivered
        BY <3>3, <1>2, <2>2, <2>5
      <4> QED BY <3>1, <3>3, <4>1 DEF MailInv, StatusExplained
    <3>4. CASE n.id \in Ids(M) /\ ~(n \in mail /\ n.id \notin Ids(M))
      <4>1. upd.ok
        BY <3>4, <1>2
      <4>2. n.id \in delivered'
        BY <3>4, <4>1, <1>2, <2>2
      <4>3. PICK m \in M : m.id = n.id
        BY <3>4 DEF Ids
      <4>4. m.status = IF asked[n.id] \in {"NONE", "NEW"}
                       THEN IF n.id \in delivered THEN "READ" ELSE "NEW"
                       ELSE asked[n.id]
        BY <2>1, <3>1, <4>3 DEF MailInv, StatusExplained
      <4>5. CASE n \in M /\ upd.db = mail
        <5>1. n = m
          BY <4>5, <4>3, <2>3
        <5>2. m.status # "NEW" \/ \E k \in M : k.status = "NEW" /\ n.status = "READ"
          <6>1. CASE \A k \in M : k.status # "NEW"
            BY <6>1
          <6>2. CASE upd.db = SetStatus(M, "READ")
            <7>1. \/ n \in mail /\ n.id \notin Ids(M)
                  \/ n.id \in Ids(M) /\ n.status = "READ"
              BY <6>2, <2>1, <2>4, <1>2, SetStatusRows DEF MailInv
            <7> QED BY <7>1, <6>2, <3>4, <4>1, <2>5
          <6> QED BY <6>1, <6>2, <2>5, <4>1
        <5> QED BY <4>2, <4>4, <5>1, <5>2, <2>3
      <4>6. CASE n.status = "READ" /\ upd.db = SetStatus(M, "READ")
        <5>1. CASE \E k \in M : k.status = "NEW"
          <6>1. m.status = "NEW"
            BY <5>1, <2>3
          <6>2. asked[n.id] \in {"NONE", "NEW"}
            BY <6>1, <4>4
          <6> QED BY <6>2, <4>2, <4>6
        <5>2. CASE upd.db = mail
          <6>1. n \in mail
            BY <5>2, <1>2
          <6>2. n = m
            BY <6>1, <4>3, <2>1 DEF MailInv, Numbered
          <6> QED BY <6>2, <4>2, <4>4, <4>6
        <5> QED BY <5>1, <5>2, <4>1, <2>5
      <4> QED BY <3>2, <3>4, <4>5, <4>6
    <3> QED BY <3>2, <3>3, <3>4 DEF Ids
  <2> QED BY <2>7, <2>8, <2>9 DEF MailInv
<1> QED BY <1>1, <1>2 DEF GetPersistentMessage

\* An UPDATE asked for by the owner of the rows it names.
LEMMA UpdateKeeps ==
    ASSUME MailInv, NEW a \in Avatar, NEW M, M \subseteq mail,
           \A m \in M : m.owner = a, NEW s \in PersistentState, UpdateStatus(a, M, s)
    PROVE  MailInv'
<1>1. PICK upd \in Execute(mail, SetStatus(M, s), MayFail) :
         /\ mail' = upd.db
         /\ asked' = IF upd.ok
                     THEN [i \in Id |-> IF i \in IdsOf(a, M) THEN s ELSE asked[i]]
                     ELSE asked
         /\ torn' = IF upd.ok THEN torn \ Ids(M) ELSE torn \cup Ids(M)
         /\ delivered' = IF upd.ok THEN delivered \ IdsOf(a, M) ELSE delivered
         /\ UNCHANGED <<nextId, answered, lost>>
  BY DEF UpdateStatus
<1>2. IdsOf(a, M) = Ids(M) /\ Ids(M) \subseteq Ids(mail)
  BY DEF IdsOf, Ids
<1>3. /\ upd.db \in {mail, SetStatus(M, s)} /\ upd.ok \in BOOLEAN
      /\ upd.ok => upd.db = SetStatus(M, s)
  BY <1>1, UpdateOutcome
<1>4. Restated(M, s)
  BY <1>1, <1>3 DEF Restated
<1>5. Numbered' /\ Ids(mail') = Ids(mail) /\ MailAnnounced'
  BY <1>4, RestatedKeeps
<1>6. Remembered'
  <2>1. asked' \in [Id -> PersistentState \cup {"NONE"}]
    BY <1>1, <1>3 DEF MailInv, Remembered
  <2>2. \A i \in Id \ Ids(mail) : asked'[i] = "NONE"
    BY <1>1, <1>2, <1>3 DEF MailInv, Remembered
  <2>3. delivered' \subseteq Ids(mail)
    BY <1>1, <1>3 DEF MailInv, Remembered
  <2> QED BY <2>1, <2>2, <2>3, <1>5 DEF Remembered
<1>7. StatusExplained'
  <2> SUFFICES ASSUME NEW n \in mail', n.id \notin torn'
               PROVE  n.status = IF asked'[n.id] \in {"NONE", "NEW"}
                                 THEN IF n.id \in delivered' THEN "READ" ELSE "NEW"
                                 ELSE asked'[n.id]
    BY DEF StatusExplained
  <2>1. n.id \in Id
    BY <1>5 DEF Numbered, Row
  <2>2. CASE upd.ok
    <3>1. \/ n \in mail /\ n.id \notin Ids(M)
          \/ n.id \in Ids(M) /\ n.status = s
      BY <2>2, <1>1, <1>3, SetStatusRows DEF MailInv
    <3>2. CASE n \in mail /\ n.id \notin Ids(M)
      <4>1. n.id \notin torn /\ asked'[n.id] = asked[n.id] /\ (n.id \in delivered' <=> n.id \in delivered)
        BY <2>1, <2>2, <3>2, <1>1, <1>2
      <4> QED BY <3>2, <4>1 DEF MailInv, StatusExplained
    <3>3. CASE n.id \in Ids(M) /\ n.status = s
      <4>1. asked'[n.id] = s /\ n.id \notin delivered'
        BY <2>1, <2>2, <3>3, <1>1, <1>2
      <4> QED BY <3>3, <4>1 DEF PersistentState
    <3> QED BY <3>1, <3>2, <3>3
  <2>3. CASE ~upd.ok
    <3>1. n.id \notin torn /\ n.id \notin Ids(M) /\ asked' = asked /\ delivered' = delivered
      BY <2>3, <1>1
    <3>2. n \in mail
      <4>1. CASE upd.db = mail
        BY <4>1, <1>1
      <4>2. CASE upd.db = SetStatus(M, s)
        BY <4>2, <3>1, <1>1, SetStatusRows DEF MailInv
      <4> QED BY <4>1, <4>2, <1>3
    <3> QED BY <3>1, <3>2 DEF MailInv, StatusExplained
  <2> QED BY <2>2, <2>3, <1>3
<1> QED BY <1>5, <1>6, <1>7 DEF MailInv

\* Every request, and every failure, keeps the invariant.
LEMMA StepKeepsMail ==
    ASSUME MailInv, [Next]_vars
    PROVE  MailInv'
<1>1. ASSUME NEW src, NEW dest, NEW p \in BOOLEAN, NEW cat \in Category,
             SendPersistentMessage(src, dest, p, cat)
      PROVE  MailInv'
  <2>1. CASE SendCode(src, dest, p) = "SUCCESS" /\ StoreMessage(dest, cat)
    <3>1. dest \in Avatar
      BY <2>1 DEF SendCode
    <3> QED BY <2>1, <3>1, StoreKeeps
  <2>2. CASE Fail(SendCode(src, dest, p))
    BY <2>2, NothingChanged DEF Fail
  <2> QED BY <1>1, <2>1, <2>2 DEF SendPersistentMessage
<1>2. CASE GetPersistentHeaders \/ SelectFails
  BY <1>2, NothingChanged DEF GetPersistentHeaders, SelectFails
<1>3. ASSUME NEW a \in Avatar, NEW id \in Id, GetPersistentMessage(a, id)
      PROVE  MailInv'
  BY <1>3, GetKeeps
<1>4. ASSUME NEW a \in Avatar, NEW id \in Id, NEW s \in PersistentState,
             UpdatePersistentMessage(a, id, s)
      PROVE  MailInv'
  <2>1. Selected(a, id) \subseteq mail /\ \A m \in Selected(a, id) : m.owner = a
    BY DEF Selected
  <2> QED BY <1>4, <2>1, UpdateKeeps DEF UpdatePersistentMessage
<1>5. ASSUME NEW a \in Avatar, NEW cat \in Category, NEW s \in PersistentState,
             UpdatePersistentMessages(a, cat, s)
      PROVE  MailInv'
  <2> DEFINE M == {m \in mail : m.owner = a /\ m.category = cat}
  <2>1. M \subseteq mail /\ \A m \in M : m.owner = a
    OBVIOUS
  <2>2. UpdateStatus(a, M, s)
    BY <1>5 DEF UpdatePersistentMessages
  <2> HIDE DEF M
  <2> QED BY <2>1, <2>2, UpdateKeeps
<1>6. CASE UNCHANGED vars
  BY <1>6, NothingChanged DEF vars, history
<1> QED BY <1>1, <1>2, <1>3, <1>4, <1>5, <1>6 DEF Next

(***************************************************************************)
(* Theorems                                                                *)
(***************************************************************************)

\* Rows, announcements and statuses together: what the service keeps right
\* through every request, duplicate and failure.
THEOREM MailCorrect == Spec => []MailInv
<1>1. MailInv /\ [Next]_vars => MailInv'
  BY StepKeepsMail
<1> QED BY InitMail, <1>1, PTL DEF Spec

\* Every message in a mailbox was announced but those a failure explains, and
\* none is announced that is not there (StoreMessage).
THEOREM AlwaysAnnounced == Spec => []MailAnnounced
<1>1. MailInv => MailAnnounced
  BY DEF MailInv
<1> QED BY <1>1, MailCorrect, PTL

\* The status of a message is what its owner did to it, unless its last
\* UPDATE failed (UpdateMessageStatus, BulkUpdateMessageStatus,
\* GetPersistentMessage).
THEOREM StatusAlwaysExplained == Spec => []StatusExplained
<1>1. MailInv => StatusExplained
  BY DEF MailInv
<1> QED BY <1>1, MailCorrect, PTL

\* The headers list a message until its owner puts it away
\* (GetMessageHeaders).
THEOREM AlwaysListed == Spec => []MailListed
<1>1. MailInv => MailListed
  <2> SUFFICES ASSUME MailInv, NEW m \in mail, m.id \notin torn
               PROVE  m \in Headers(m.owner) <=> asked[m.id] \in {"NONE", "NEW", "UNREAD", "READ"}
    BY DEF MailListed
  <2>1. m.status = IF asked[m.id] \in {"NONE", "NEW"}
                   THEN IF m.id \in delivered THEN "READ" ELSE "NEW"
                   ELSE asked[m.id]
    BY DEF MailInv, StatusExplained
  <2>2. m \in Headers(m.owner) <=> m.status \in {"NEW", "UNREAD", "READ"}
    BY DEF Headers
  <2> QED BY <2>1, <2>2
<1> QED BY <1>1, MailCorrect, PTL
=============================================================================
