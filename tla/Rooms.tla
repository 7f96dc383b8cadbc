-------------------------------- MODULE Rooms --------------------------------
(***************************************************************************)
(* ChatRoomService and ChatRoom: the rooms in memory, who is in them, who  *)
(* may do what there, and the tables room, room_moderator and room_ban.    *)
(*                                                                         *)
(* A persistent room has two identities.  dbId_ is the AUTO_INCREMENT id   *)
(* of its row; roomId_ counts the rooms made by this process.  The row is  *)
(* deleted by dbId_, but the role tables are written with roomId_, while   *)
(* their foreign key refers to room.id.                                    *)
(*                                                                         *)
(* The rooms of a galaxy enter the memory when its game server logs SYSTEM *)
(* in: LoadRoomsFromStorage throws away every room there is and makes new  *)
(* objects for the rows below that address.  A loaded object has no roles  *)
(* and no pointer to the service.                                          *)
(*                                                                         *)
(* Handlers run to completion one at a time; each statement may fail       *)
(* (module Outcomes).  The avatars are those that have a row: a request    *)
(* that names another one is refused before a room is looked at, or ends   *)
(* the process (CreateRoom, LogoutAvatar), which Crash covers.  Topic,     *)
(* sizes and counters are left out: no guard reads them (maxRoomSize_ is   *)
(* stored and never enforced).  administrators_ is left out as well: no    *)
(* handler changes or reads it.                                            *)
(***************************************************************************)
EXTENDS Outcomes, Integers, FiniteSets

CONSTANTS
    Avatar,        \* avatars that have a row
    RoomAddress,   \* addresses a room can have: parent + "+" + name
    Galaxy,        \* base addresses SYSTEM logs in with
    Below,         \* Below[g]: the room addresses LIKE g%
    AttributeSets, \* the values of roomAttributes_ (and a password) used
    MaxRoomId,     \* bound: rooms made by one process
    MaxRows,       \* bound: rows ever inserted into table room
    MaxFaults      \* bound: failed statements

ASSUME RoomsAssumption ==
    /\ Below \in [Galaxy -> SUBSET RoomAddress]
    /\ AttributeSets \subseteq SUBSET {"PERSISTENT", "PRIVATE", "PASSWORD"}
    /\ MaxRoomId \in Nat /\ MaxRows \in Nat /\ MaxFaults \in Nat

VARIABLES
    rooms,       \* rooms_: the objects
    nextRoomId,  \* nextRoomId_
    roomTable,   \* table room
    nextRow,     \* its AUTO_INCREMENT
    dbModerator, \* table room_moderator: pairs <<room_id, avatar>>
    dbBanned,    \* table room_ban
    result,      \* result code of the last answer
    base,        \* history: the galaxy whose rooms were loaded last, if any
    torn,        \* history: addresses whose INSERT or DELETE failed since
    faults       \* failed statements so far

tables == <<roomTable, nextRow, dbModerator, dbBanned>>
vars == <<rooms, nextRoomId, roomTable, nextRow, dbModerator, dbBanned, result,
          base, torn, faults>>

NoRow == -1  \* dbId_ of a room that has no row

MayFail == faults < MaxFaults

Persistent(r) == "PERSISTENT" \in r.attributes
Private(r) == "PRIVATE" \in r.attributes

\* The room objects that can exist.
Room == [id : Nat, dbId : Int, address : RoomAddress, creator : Avatar,
         attributes : AttributeSets, loaded : BOOLEAN, members : SUBSET Avatar,
         moderators : SUBSET Avatar, banned : SUBSET Avatar, invited : SUBSET Avatar]

\* The rows of table room.
Row == [id : Nat, address : RoomAddress, creator : Avatar, attributes : AttributeSets]

\* The handler throws ChatResultException: nothing has been changed yet.
Fail(code) ==
    /\ result' = code
    /\ UNCHANGED <<rooms, nextRoomId, tables, base, torn, faults>>

\* The object r becomes s.
Update(r, s) == rooms' = (rooms \ {r}) \cup {s}

\* Wrong on purpose: the address is not searched.
RoomExistsNever(x) == FALSE

RoomExists(x) == \E r \in rooms : r.address = x

\* GetRoom fails: every handler below answers so before anything else.
NoRoom(x) == ~RoomExists(x) /\ Fail("ADDRESSNOTROOM")

(***************************************************************************)
(* Loading, creating and destroying rooms                                  *)
(***************************************************************************)

\* Wrong on purpose: the creator is made a moderator of the loaded room.
LoadedRoomModerated(t, i) ==
    [id |-> i, dbId |-> t.id, address |-> t.address, creator |-> t.creator,
     attributes |-> t.attributes, loaded |-> TRUE, members |-> {},
     moderators |-> {t.creator}, banned |-> {}, invited |-> {}]

\* The object LoadRoomsFromStorage makes of row t: all role lists are empty.
LoadedRoom(t, i) ==
    [id |-> i, dbId |-> t.id, address |-> t.address, creator |-> t.creator,
     attributes |-> t.attributes, loaded |-> TRUE, members |-> {},
     moderators |-> {}, banned |-> {}, invited |-> {}]

RowsBelow(g) == {t \in roomTable : t.address \in Below[g]}

\* The rows come in the order of their ids and take consecutive room ids.
LoadedId(t, g) == nextRoomId + Cardinality({u \in RowsBelow(g) : u.id < t.id})

\* LoginAvatar or FailoverReLoginAvatar of SYSTEM at address g.
LoadRoomsFromStorage(g) ==
    /\ nextRoomId + Cardinality(RowsBelow(g)) <= MaxRoomId
    /\ rooms' = {LoadedRoom(t, LoadedId(t, g)) : t \in RowsBelow(g)}
    /\ nextRoomId' = nextRoomId + Cardinality(RowsBelow(g))
    /\ base' = {g}
    /\ torn' = {}
    /\ result' = "SUCCESS"
    /\ UNCHANGED <<tables, faults>>

\* The SELECT fails after rooms_.clear().
LoadRoomsFails(g) ==
    /\ MayFail
    /\ rooms' = {}
    /\ base' = {}
    /\ result' = "DATABASE"
    /\ faults' = faults + 1
    /\ UNCHANGED <<nextRoomId, tables, torn>>

NewRoom(a, x, k, dbId) ==
    [id |-> nextRoomId, dbId |-> dbId, address |-> x, creator |-> a,
     attributes |-> k, loaded |-> FALSE, members |-> {}, moderators |-> {a},
     banned |-> {}, invited |-> {}]

NewRow(a, x, k) == [id |-> nextRow, address |-> x, creator |-> a, attributes |-> k]

\* INSERT INTO room: refused when a row has the same name and address.
InsertRow(a, x, k) ==
    IF \E t \in roomTable : t.address = x
    THEN {Refused(roomTable)}
    ELSE Execute(roomTable, roomTable \cup {NewRow(a, x, k)}, MayFail)

\* CreateRoom of a room that is not persistent.
CreateTransientRoom(a, x, k) ==
    /\ ~RoomExists(x)
    /\ "PERSISTENT" \notin k
    /\ nextRoomId < MaxRoomId
    /\ rooms' = rooms \cup {NewRoom(a, x, k, NoRow)}
    /\ nextRoomId' = nextRoomId + 1
    /\ result' = "SUCCESS"
    /\ UNCHANGED <<tables, base, torn, faults>>

\* CreateRoom of a persistent room.  PersistNewRoom reports a failure that
\* CreateRoom does not look at: the room is there, without a row.
CreatePersistentRoom(a, x, k) ==
    /\ ~RoomExists(x)
    /\ "PERSISTENT" \in k
    /\ nextRoomId < MaxRoomId
    /\ nextRow <= MaxRows
    /\ \E ins \in InsertRow(a, x, k) :
          /\ roomTable' = ins.db
          /\ nextRow' = IF ins.db = roomTable THEN nextRow ELSE nextRow + 1
          /\ rooms' = rooms \cup {NewRoom(a, x, k, IF ins.ok THEN nextRow ELSE NoRow)}
          /\ torn' = IF ins.fault = 1 THEN torn \cup {x} ELSE torn
          /\ faults' = faults + ins.fault
    /\ nextRoomId' = nextRoomId + 1
    /\ result' = "SUCCESS"
    /\ UNCHANGED <<dbModerator, dbBanned, base>>

CreateExistingRoom(x) == RoomExists(x) /\ Fail("ROOM_ALREADYEXISTS")

\* Wrong on purpose: the row is looked up by the number of the object.
DeleteRowByRoomId(r) ==
    IF Persistent(r)
    THEN Execute(roomTable, {t \in roomTable : t.id # r.id}, MayFail)
    ELSE {NotNeeded(roomTable)}

\* DeleteRoom: DELETE FROM room WHERE id = dbId_, for a persistent room.
DeleteRow(r) ==
    IF Persistent(r)
    THEN Execute(roomTable, {t \in roomTable : t.id # r.dbId}, MayFail)
    ELSE {NotNeeded(roomTable)}

\* The role rows that are left when table room becomes db (ON DELETE CASCADE).
Cascade(roles, db) == {p \in roles : \E t \in db : t.id = p[1]}

\* DestroyRoom, by anybody.  If the statement throws the object stays.
DestroyRoom(r) ==
    \E del \in DeleteRow(r) :
       /\ roomTable' = del.db
       /\ dbModerator' = Cascade(dbModerator, del.db)
       /\ dbBanned' = Cascade(dbBanned, del.db)
       /\ rooms' = IF del.ok THEN {s \in rooms : s.id # r.id} ELSE rooms
       /\ torn' = IF del.ok THEN torn ELSE torn \cup {r.address}
       /\ result' = IF del.ok THEN "SUCCESS" ELSE "DATABASE"
       /\ faults' = faults + del.fault
       /\ UNCHANGED <<nextRoomId, nextRow, base>>

(***************************************************************************)
(* Members                                                                 *)
(***************************************************************************)

\* What EnterRoom answers; right: the password of the request is the room's.
\* The first test that applies decides.
EntryCode(r, a, right) ==
    CASE "PASSWORD" \in r.attributes /\ ~right -> "ROOM_PRIVATEROOM"
      [] a \in r.banned -> "ROOM_BANNEDAVATAR"
      [] a \in r.members -> "ROOM_ALREADYINROOM"
      [] Private(r) /\ a # r.creator /\ a \notin r.invited -> "ROOM_PRIVATEROOM"
      [] OTHER -> "SUCCESS"

EnterRoom(r, a, right) ==
    \/ /\ EntryCode(r, a, right) = "SUCCESS"
       /\ Update(r, [r EXCEPT !.members = @ \cup {a}])
       /\ result' = "SUCCESS"
       /\ UNCHANGED <<nextRoomId, tables, base, torn, faults>>
    \/ /\ EntryCode(r, a, right) # "SUCCESS"
       /\ Fail(EntryCode(r, a, right))

\* LeaveRoom succeeds whether or not the avatar was there.
LeaveRoom(r, a) ==
    /\ Update(r, [r EXCEPT !.members = @ \ {a}])
    /\ result' = "SUCCESS"
    /\ UNCHANGED <<nextRoomId, tables, base, torn, faults>>

KickAvatar(r, s, a) ==
    \/ s \notin r.moderators /\ Fail("ROOM_NOPRIVILEGES")
    \/ /\ s \in r.moderators
       /\ a \notin r.members
       /\ Fail("ROOM_NOTINROOM")
    \/ /\ s \in r.moderators
       /\ a \in r.members
       /\ LeaveRoom(r, a)

\* LogoutAvatar: GetJoinedRooms, then LeaveRoom for each of them.
LogoutAvatar(a) ==
    /\ rooms' = {[r EXCEPT !.members = @ \ {a}] : r \in rooms}
    /\ result' = "SUCCESS"
    /\ UNCHANGED <<nextRoomId, tables, base, torn, faults>>

(***************************************************************************)
(* Roles                                                                   *)
(***************************************************************************)

\* The process ends through the null roomService_ of a loaded room, or for
\* any other reason, and starts again.
Crash ==
    /\ rooms' = {}
    /\ nextRoomId' = 0
    /\ base' = {}
    /\ torn' = {}
    /\ result' = "NONE"
    /\ UNCHANGED <<tables, faults>>

\* INSERT IGNORE of a role.  A room_id no row has violates the foreign key,
\* which IGNORE turns into a warning: nothing is stored, nothing is thrown.
InsertRole(roles, r, a) ==
    IF Persistent(r)
    THEN Execute(roles,
            IF \E t \in roomTable : t.id = r.id THEN roles \cup {<<r.id, a>>} ELSE roles,
            MayFail)
    ELSE {NotNeeded(roles)}

DeleteRole(roles, r, a) ==
    IF Persistent(r) THEN Execute(roles, roles \ {<<r.id, a>>}, MayFail)
                     ELSE {NotNeeded(roles)}

\* The object is changed first, then the table.
StoreModerator(r, s, op) ==
    /\ Update(r, s)
    /\ dbModerator' = op.db
    /\ result' = IF op.ok THEN "SUCCESS" ELSE "DATABASE"
    /\ faults' = faults + op.fault
    /\ UNCHANGED <<nextRoomId, roomTable, nextRow, dbBanned, base, torn>>

StoreBanned(r, s, op) ==
    /\ Update(r, s)
    /\ dbBanned' = op.db
    /\ result' = IF op.ok THEN "SUCCESS" ELSE "DATABASE"
    /\ faults' = faults + op.fault
    /\ UNCHANGED <<nextRoomId, roomTable, nextRow, dbModerator, base, torn>>

\* AddModerator by s; only the creator may.  A loaded room is persistent, and
\* its null roomService_ is used.
AddModerator(r, s, a) ==
    \/ s # r.creator /\ Fail("ROOM_NOPRIVILEGES")
    \/ s = r.creator /\ a \in r.moderators /\ Fail("ROOM_DUPLICATEMODERATOR")
    \/ /\ s = r.creator /\ a \notin r.moderators
       /\ IF r.loaded /\ Persistent(r)
          THEN Crash
          ELSE \E op \in InsertRole(dbModerator, r, a) :
                  StoreModerator(r, [r EXCEPT !.moderators = @ \cup {a}], op)

RemoveModerator(r, s, a) ==
    \/ s # r.creator /\ Fail("ROOM_NOPRIVILEGES")
    \/ s = r.creator /\ a \notin r.moderators /\ Fail("ROOM_DESTAVATARNOTMODERATOR")
    \/ /\ s = r.creator /\ a \in r.moderators
       /\ \E op \in DeleteRole(dbModerator, r, a) :
             StoreModerator(r, [r EXCEPT !.moderators = @ \ {a}], op)

\* AddBan by a moderator.  Whoever is in the room stays there.
AddBan(r, s, a) ==
    \/ s \notin r.moderators /\ Fail("ROOM_NOPRIVILEGES")
    \/ s \in r.moderators /\ a \in r.banned /\ Fail("ROOM_DUPLICATEBAN")
    \/ /\ s \in r.moderators /\ a \notin r.banned
       /\ \E op \in InsertRole(dbBanned, r, a) :
             StoreBanned(r, [r EXCEPT !.banned = @ \cup {a}], op)

RemoveBan(r, s, a) ==
    \/ s \notin r.moderators /\ Fail("ROOM_NOPRIVILEGES")
    \/ s \in r.moderators /\ a \notin r.banned /\ Fail("ROOM_DESTAVATARNOTBANNED")
    \/ /\ s \in r.moderators /\ a \in r.banned
       /\ \E op \in DeleteRole(dbBanned, r, a) :
             StoreBanned(r, [r EXCEPT !.banned = @ \ {a}], op)

\* Invitations live in memory only.
AddInvite(r, s, a) ==
    \/ s \notin r.moderators /\ Fail("ROOM_NOPRIVILEGES")
    \/ s \in r.moderators /\ a \in r.invited /\ Fail("ROOM_DUPLICATEINVITE")
    \/ /\ s \in r.moderators /\ a \notin r.invited
       /\ Update(r, [r EXCEPT !.invited = @ \cup {a}])
       /\ result' = "SUCCESS"
       /\ UNCHANGED <<nextRoomId, tables, base, torn, faults>>

RemoveInvite(r, s, a) ==
    \/ s \notin r.moderators /\ Fail("ROOM_NOPRIVILEGES")
    \/ s \in r.moderators /\ a \notin r.invited /\ Fail("ROOM_DESTAVATARNOTINVITED")
    \/ /\ s \in r.moderators /\ a \in r.invited
       /\ Update(r, [r EXCEPT !.invited = @ \ {a}])
       /\ result' = "SUCCESS"
       /\ UNCHANGED <<nextRoomId, tables, base, torn, faults>>

Init ==
    /\ rooms = {} /\ nextRoomId = 0
    /\ roomTable = {} /\ nextRow = 1
    /\ dbModerator = {} /\ dbBanned = {}
    /\ result = "NONE"
    /\ base = {} /\ torn = {} /\ faults = 0

ServiceStep ==
    \/ \E g \in Galaxy : LoadRoomsFromStorage(g) \/ LoadRoomsFails(g)
    \/ \E a \in Avatar, x \in RoomAddress, k \in AttributeSets :
          CreateTransientRoom(a, x, k) \/ CreatePersistentRoom(a, x, k)
    \/ \E x \in RoomAddress : CreateExistingRoom(x) \/ NoRoom(x)
    \/ \E r \in rooms : DestroyRoom(r)
    \/ \E a \in Avatar : LogoutAvatar(a)
    \/ Crash

MemberStep(r, a) ==
    \/ \E right \in BOOLEAN : EnterRoom(r, a, right)
    \/ LeaveRoom(r, a)

ModeratorStep(r, s, a) == AddModerator(r, s, a) \/ RemoveModerator(r, s, a)
BanStep(r, s, a) == AddBan(r, s, a) \/ RemoveBan(r, s, a)
InviteStep(r, s, a) == AddInvite(r, s, a) \/ RemoveInvite(r, s, a)

RoleStep(r, s, a) ==
    \/ KickAvatar(r, s, a)
    \/ ModeratorStep(r, s, a)
    \/ BanStep(r, s, a)
    \/ InviteStep(r, s, a)

Next ==
    \/ ServiceStep
    \/ \E r \in rooms, a \in Avatar : MemberStep(r, a)
    \/ \E r \in rooms, s, a \in Avatar : RoleStep(r, s, a)

Spec == Init /\ [][Next]_vars

(***************************************************************************)
(* Properties                                                              *)
(***************************************************************************)

\* A room address, a room id and a row each stand for one object, through
\* reloads, failed deletions and rooms created over rows of another galaxy.
RoomsDistinct ==
    \A r, s \in rooms :
        r # s => /\ r.id # s.id
                 /\ r.address # s.address
                 /\ r.dbId = s.dbId => r.dbId = NoRow

\* The persistent rooms in memory below the galaxy loaded last and the rows
\* of table room below it are the same rooms, and dbId_ leads from one to the
\* other, except at an address whose INSERT or DELETE failed since
\* (LoadRoomsFromStorage, PersistNewRoom, DeleteRoom).
StoreMatches ==
    \A g \in base : \A x \in Below[g] \ torn :
        /\ \A r \in rooms : r.address = x /\ Persistent(r) =>
              \E t \in roomTable : t.id = r.dbId /\ t.address = x /\ t.creator = r.creator
        /\ \A t \in roomTable : t.address = x =>
              \E r \in rooms : r.address = x /\ r.dbId = t.id

\* A room that came from the table is ruled by nobody: it never gets a
\* moderator, a ban or an invitation, and a private one admits its creator
\* only (LoadRoomsFromStorage reads no roles, AddModerator cannot succeed).
LoadedRoomsUnruled ==
    \A r \in rooms : r.loaded =>
        /\ r.moderators \cup r.banned \cup r.invited = {}
        /\ Private(r) => r.members \subseteq {r.creator}

\* "persistent room role adds persist into role tables": the moderators added
\* to a persistent room have a row in room_moderator under the id of the
\* room (EraseRemoveIfRegression_Tests.cpp, on a table without foreign keys).
RolesPersisted ==
    \A r \in rooms : Persistent(r) /\ ~r.loaded =>
        \A a \in r.moderators \ {r.creator} : <<r.id, a>> \in dbModerator
=============================================================================
