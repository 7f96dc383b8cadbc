------------------------- MODULE PersistentMessages -------------------------
(***************************************************************************)
(* PersistentMessageService and the handlers of mail: the rows of table    *)
(* persistent_message and the status each of them goes through.            *)
(*                                                                         *)
(* There is no cache: each request is one or two statements.  The INSERT   *)
(* has no unique key, so the retry of a statement whose answer was lost    *)
(* stores the message twice (Append of module Outcomes).  Rows are never   *)
(* deleted; a message is deleted by its status.                            *)
(*                                                                         *)
(* Names, subject, body and times are left out.  The avatars and their     *)
(* ignore lists do not change here: module Avatars has them.               *)
(***************************************************************************)
EXTENDS Outcomes, FiniteSets

CONSTANTS
    Avatar,    \* the avatars that have a row
    Nobody,    \* a name or id of no avatar
    Ignores,   \* the pairs <<a, b>> such that a ignores b
    Category,
    MaxMail,   \* bound: rows ever inserted
    MaxFaults  \* bound: failed statements

ASSUME MailAssumption ==
    /\ Nobody \notin Avatar
    /\ Ignores \subseteq Avatar \X Avatar
    /\ MaxMail \in Nat /\ MaxFaults \in Nat

VARIABLES
    mail,      \* the rows
    nextId,    \* AUTO_INCREMENT
    result,    \* result code of the last answer
    answered,  \* history: ids the sender was told, and the recipient if its
               \*   address is registered
    delivered, \* history: ids whose body its owner was sent
    asked,     \* history: the status each owner last asked for
    lost,      \* history: ids of rows nobody was told of
    torn,      \* history: ids whose last UPDATE failed
    faults     \* failed statements so far

vars == <<mail, nextId, result, answered, delivered, asked, lost, torn, faults>>

history == <<answered, delivered, asked, lost, torn>>

\* PersistentState; the request may hold any other number, which is stored.
PersistentState == {"NEW", "UNREAD", "READ", "TRASH", "DELETED", "OTHER"}

Id == 1..MaxMail
Row == [id : Id, owner : Avatar, category : Category, status : PersistentState]

MayFail == faults < MaxFaults

Answer(ok) == IF ok THEN "SUCCESS" ELSE "DATABASE"

\* The handler throws and nothing was changed.
Fail(code) ==
    /\ result' = code
    /\ UNCHANGED <<mail, nextId, history, faults>>

\* A SELECT fails.
SelectFails ==
    /\ MayFail
    /\ result' = "DATABASE"
    /\ faults' = faults + 1
    /\ UNCHANGED <<mail, nextId, history>>

(***************************************************************************)
(* Sending                                                                 *)
(***************************************************************************)

\* Who may send.  Without avatarPresence the sender is only a name.
SendCode(src, dest, avatarPresence) ==
    CASE dest \notin Avatar -> "DESTAVATARDOESNTEXIST"
      [] avatarPresence /\ src \notin Avatar -> "SRCAVATARDOESNTEXIST"
      [] avatarPresence /\ <<dest, src>> \in Ignores -> "IGNORING"
      [] OTHER -> "SUCCESS"

NewMail(id, dest, cat) == [id |-> id, owner |-> dest, category |-> cat, status |-> "NEW"]

\* Wrong on purpose: the id is read before the INSERT.
LastInsertIdBefore(next) == next - 2

\* db_->GetLastInsertId() when next is the id to be given out next.
LastInsertId(next) == next - 1

\* StoreMessage, then the answer to the sender and the notification of the
\* recipient, both with the id of the row inserted last.
StoreMessage(dest, cat) ==
    \E ins \in AppendRow(nextId, MayFail) :
       /\ ins.db <= MaxMail + 1
       /\ mail' = mail \cup {NewMail(i, dest, cat) : i \in nextId..(ins.db - 1)}
       /\ nextId' = ins.db
       /\ answered' = IF ins.ok THEN answered \cup {LastInsertId(ins.db)} ELSE answered
       /\ lost' = IF ins.fault = 0 THEN lost
                  ELSE lost \cup ((nextId..(ins.db - 1)) \ answered')
       /\ result' = Answer(ins.ok)
       /\ faults' = faults + ins.fault
       /\ UNCHANGED <<delivered, asked, torn>>

SendPersistentMessage(src, dest, avatarPresence, cat) ==
    \/ /\ SendCode(src, dest, avatarPresence) = "SUCCESS"
       /\ StoreMessage(dest, cat)
    \/ /\ SendCode(src, dest, avatarPresence) # "SUCCESS"
       /\ Fail(SendCode(src, dest, avatarPresence))

(***************************************************************************)
(* Reading                                                                 *)
(***************************************************************************)

\* Wrong on purpose: the list ends at UNREAD.
HeadersUnread(a) == {m \in mail : m.owner = a /\ m.status \in {"NEW", "UNREAD"}}

\* GetMessageHeaders(a): every category, whatever the request says.
Headers(a) == {m \in mail : m.owner = a /\ m.status \in {"NEW", "UNREAD", "READ"}}

GetPersistentHeaders ==
    /\ result' = "SUCCESS"
    /\ UNCHANGED <<mail, nextId, history, faults>>

\* Wrong on purpose: the avatar is not part of the condition.
SelectedAnyOwner(a, id) == {m \in mail : m.id = id}

\* WHERE id = @message_id AND avatar_id = @avatar_id.
Selected(a, id) == {m \in mail : m.id = id /\ m.owner = a}

\* UPDATE ... SET status: the rows in M get status s.
SetStatus(M, s) == (mail \ M) \cup {[m EXCEPT !.status = s] : m \in M}

Ids(M) == {m.id : m \in M}
IdsOf(a, M) == Ids({m \in M : m.owner = a})

\* UpdateMessageStatus(..., READ), if the status that was selected is NEW.
MarkRead(M) ==
    IF \E m \in M : m.status = "NEW"
    THEN Execute(mail, SetStatus(M, "READ"), MayFail)
    ELSE {NotNeeded(mail)}

\* GetPersistentMessage.  If the UPDATE throws, the body it had read is not
\* sent.
GetPersistentMessage(a, id) ==
    \/ Selected(a, id) = {} /\ Fail("PMSGNOTFOUND")
    \/ /\ Selected(a, id) # {}
       /\ \E upd \in MarkRead(Selected(a, id)) :
             /\ mail' = upd.db
             /\ delivered' = IF upd.ok THEN delivered \cup IdsOf(a, Selected(a, id))
                                       ELSE delivered
             /\ torn' = IF upd.ok THEN torn ELSE torn \cup Ids(Selected(a, id))
             /\ result' = Answer(upd.ok)
             /\ faults' = faults + upd.fault
       /\ UNCHANGED <<nextId, answered, asked, lost>>

(***************************************************************************)
(* Changing the status                                                     *)
(***************************************************************************)

\* One UPDATE of the rows M, asked for by a.  It succeeds when there are none.
UpdateStatus(a, M, s) ==
    \E upd \in Execute(mail, SetStatus(M, s), MayFail) :
       /\ mail' = upd.db
       /\ asked' = IF upd.ok
                   THEN [i \in Id |-> IF i \in IdsOf(a, M) THEN s ELSE asked[i]]
                   ELSE asked
       /\ torn' = IF upd.ok THEN torn \ Ids(M) ELSE torn \cup Ids(M)
       /\ delivered' = IF upd.ok THEN delivered \ IdsOf(a, M) ELSE delivered
       /\ result' = Answer(upd.ok)
       /\ faults' = faults + upd.fault
       /\ UNCHANGED <<nextId, answered, lost>>

UpdatePersistentMessage(a, id, s) == UpdateStatus(a, Selected(a, id), s)

\* BulkUpdateMessageStatus: every status, the deleted ones included.
UpdatePersistentMessages(a, cat, s) ==
    UpdateStatus(a, {m \in mail : m.owner = a /\ m.category = cat}, s)

Init ==
    /\ mail = {}
    /\ nextId = 1
    /\ result = "NONE"
    /\ answered = {}
    /\ delivered = {}
    /\ asked = [i \in Id |-> "NONE"]
    /\ lost = {}
    /\ torn = {}
    /\ faults = 0

Next ==
    \/ \E src, dest \in Avatar \cup {Nobody}, p \in BOOLEAN, cat \in Category :
          SendPersistentMessage(src, dest, p, cat)
    \/ GetPersistentHeaders
    \/ SelectFails
    \/ \E a \in Avatar, id \in Id :
          \/ GetPersistentMessage(a, id)
          \/ \E s \in PersistentState : UpdatePersistentMessage(a, id, s)
    \/ \E a \in Avatar, cat \in Category, s \in PersistentState :
          UpdatePersistentMessages(a, cat, s)

Spec == Init /\ [][Next]_vars

(***************************************************************************)
(* Properties                                                              *)
(***************************************************************************)

\* Every message in a mailbox was announced, except the second copy of one
\* whose INSERT was retried and one whose sender was told DATABASE; and what
\* was announced is in a mailbox (StoreMessage, the retry of Execute).
MailAnnounced ==
    /\ answered \subseteq Ids(mail)
    /\ Ids(mail) \ answered = lost

\* The status of a message is the one its owner asked for last, by one
\* message or by category, or NEW if it never asked; but NEW has become READ
\* if and only if the owner was sent the body since.  Leaves out messages
\* whose last UPDATE failed (UpdateMessageStatus, BulkUpdateMessageStatus,
\* GetPersistentMessage), and shows that nobody else's requests touch it.
StatusExplained ==
    \A m \in mail : m.id \notin torn =>
        m.status = IF asked[m.id] \in {"NONE", "NEW"}
                   THEN IF m.id \in delivered THEN "READ" ELSE "NEW"
                   ELSE asked[m.id]

\* The owner's headers list a message unless the owner put it away, through
\* fetches and bulk updates (GetMessageHeaders).
MailListed ==
    \A m \in mail : m.id \notin torn =>
        (m \in Headers(m.owner) <=> asked[m.id] \in {"NONE", "NEW", "UNREAD", "READ"})
=============================================================================
