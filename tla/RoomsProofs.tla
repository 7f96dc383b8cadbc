----------------------------- MODULE RoomsProofs -----------------------------
(***************************************************************************)
(* Theorems about Rooms, for any avatars, addresses and galaxies, any      *)
(* number of rooms and any number of failed statements; about Gateway, for *)
(* any number of servers and any heap; and about Membership, which         *)
(* composes them.                                                          *)
(*                                                                         *)
(* Membership implements both: no handler of rooms touches the clients or  *)
(* the address map but through the gateway's own operations, and no        *)
(* message changes a room.  So what is proved of either holds of the       *)
(* composition, and the knowledge of the game servers rests on it: a       *)
(* server that logged SYSTEM in is reached through its address, and a room *)
(* id stands for one room.                                                 *)
(***************************************************************************)
EXTENDS Membership, FiniteSetTheorems, TLAPS

(***************************************************************************)
(* The identities of rooms                                                 *)
(***************************************************************************)

\* Rows have ids of their own, given out already, and addresses of their own;
\* only persistent rooms have one.
RowsInv ==
    /\ nextRow \in Nat
    /\ IsFiniteSet(roomTable)
    /\ roomTable \subseteq Row
    /\ \A t \in roomTable : t.id < nextRow /\ "PERSISTENT" \in t.attributes
    /\ \A t, u \in roomTable : t.id = u.id \/ t.address = u.address => t = u

\* What is true of one object: its ids were given out already, and a loaded
\* room is persistent and unruled.
Sound(r) ==
    /\ r.id < nextRoomId
    /\ r.dbId < nextRow
    /\ r.loaded => /\ Persistent(r)
                   /\ r.moderators \cup r.banned \cup r.invited = {}
                   /\ Private(r) => r.members \subseteq {r.creator}

RoomsInv ==
    /\ nextRoomId \in Nat
    /\ rooms \subseteq Room
    /\ \A r \in rooms : Sound(r)
    /\ RoomsDistinct

IdentityInv == RowsInv /\ RoomsInv

\* Before the first load.
LEMMA InitIdentity == Init => IdentityInv
BY FS_EmptySet, SMT DEF Init, IdentityInv, RowsInv, RoomsInv, RoomsDistinct

(***************************************************************************)
(* Changes of one object, or of the set of objects                         *)
(***************************************************************************)

\* What identifies an object and where it came from.
SameRoom(r, s) ==
    /\ s.id = r.id /\ s.dbId = r.dbId /\ s.address = r.address
    /\ s.creator = r.creator /\ s.attributes = r.attributes /\ s.loaded = r.loaded

\* The tables and counters that IdentityInv reads.
Identities == <<nextRoomId, roomTable, nextRow>>

\* Nothing happens to the rows.
LEMMA RowsStay ==
    ASSUME RowsInv, UNCHANGED <<roomTable, nextRow>>
    PROVE  RowsInv'
BY DEF RowsInv

\* Handlers that leave the objects alone.
LEMMA UnchangedKeeps ==
    ASSUME IdentityInv, UNCHANGED rooms, UNCHANGED Identities
    PROVE  IdentityInv'
BY DEF IdentityInv, RowsInv, RoomsInv, RoomsDistinct, Sound, Identities

\* Handlers that change the people of one room.
LEMMA UpdateKeeps ==
    ASSUME IdentityInv, NEW r \in rooms, NEW s \in Room,
           Update(r, s), SameRoom(r, s), Sound(s), UNCHANGED Identities
    PROVE  IdentityInv'
<1>1. RowsInv'
  BY RowsStay DEF IdentityInv, Identities
<1>2. rooms' = (rooms \ {r}) \cup {s} /\ nextRoomId' = nextRoomId /\ nextRow' = nextRow
  BY DEF Update, Identities
<1>3. rooms' \subseteq Room /\ nextRoomId' \in Nat
  BY <1>2 DEF IdentityInv, RoomsInv
<1>4. ASSUME NEW q \in rooms' PROVE Sound(q)'
  BY <1>2 DEF IdentityInv, RoomsInv, Sound
<1>5. RoomsDistinct'
  <2> SUFFICES ASSUME NEW p \in rooms', NEW q \in rooms', p # q
               PROVE  p.id # q.id /\ p.address # q.address /\ (p.dbId = q.dbId => p.dbId = NoRow)
    BY DEF RoomsDistinct
  <2>1. \A v \in rooms : v # r =>
           v.id # r.id /\ v.address # r.address /\ (v.dbId = r.dbId => v.dbId = NoRow)
    BY DEF IdentityInv, RoomsInv, RoomsDistinct
  <2>2. CASE p = s
    BY <1>2, <2>1, <2>2 DEF SameRoom
  <2>3. CASE q = s
    BY <1>2, <2>1, <2>3 DEF SameRoom
  <2>4. CASE p # s /\ q # s
    BY <1>2, <2>4 DEF IdentityInv, RoomsInv, RoomsDistinct
  <2> QED BY <2>2, <2>3, <2>4
<1> QED BY <1>1, <1>3, <1>4, <1>5 DEF IdentityInv, RoomsInv

\* Handlers after which there are no other rooms and no other rows.
LEMMA FewerKeeps ==
    ASSUME IdentityInv, rooms' \subseteq rooms, roomTable' \subseteq roomTable,
           nextRoomId' = nextRoomId, nextRow' = nextRow
    PROVE  IdentityInv'
<1>1. IsFiniteSet(roomTable')
  BY FS_Subset DEF IdentityInv, RowsInv
<1>2. RowsInv'
  BY <1>1 DEF IdentityInv, RowsInv
<1>3. RoomsInv'
  BY DEF IdentityInv, RoomsInv, RoomsDistinct, Sound
<1> QED BY <1>2, <1>3 DEF IdentityInv

\* Everything in memory is gone, and the numbering may start again.
LEMMA EmptyKeeps ==
    ASSUME IdentityInv, rooms' = {}, nextRoomId' \in Nat, UNCHANGED <<roomTable, nextRow>>
    PROVE  IdentityInv'
BY RowsStay DEF IdentityInv, RoomsInv, RoomsDistinct

(***************************************************************************)
(* LoadRoomsFromStorage                                                    *)
(***************************************************************************)

\* Rows take room ids in the order of their own: different ones, given out
\* from the next one on.
LEMMA LoadedIds ==
    ASSUME RowsInv, nextRoomId \in Nat, NEW g \in Galaxy
    PROVE  /\ Cardinality(RowsBelow(g)) \in Nat
           /\ \A t \in RowsBelow(g) :
                 /\ LoadedId(t, g) \in Nat
                 /\ LoadedId(t, g) < nextRoomId + Cardinality(RowsBelow(g))
           /\ \A t, u \in RowsBelow(g) : t.id < u.id => LoadedId(t, g) < LoadedId(u, g)
<1> DEFINE Earlier(t) == {u \in RowsBelow(g) : u.id < t.id}
<1>1. IsFiniteSet(RowsBelow(g)) /\ \A t \in RowsBelow(g) : t.id \in Nat
  <2>1. RowsBelow(g) \in SUBSET roomTable
    BY DEF RowsBelow
  <2> QED BY <2>1, FS_Subset DEF RowsInv, Row
<1>2. Cardinality(RowsBelow(g)) \in Nat
  BY <1>1, FS_CardinalityType
<1>3. ASSUME NEW t \in RowsBelow(g)
      PROVE  /\ IsFiniteSet(Earlier(t)) /\ Cardinality(Earlier(t)) \in Nat
             /\ Cardinality(Earlier(t)) < Cardinality(RowsBelow(g))
  <2>1. Earlier(t) \in SUBSET RowsBelow(g) /\ t \notin Earlier(t)
    BY <1>1
  <2>2. /\ IsFiniteSet(Earlier(t))
        /\ Cardinality(Earlier(t)) <= Cardinality(RowsBelow(g))
        /\ Cardinality(RowsBelow(g)) # Cardinality(Earlier(t))
    BY <1>1, <2>1, FS_Subset
  <2>3. Cardinality(Earlier(t)) \in Nat
    BY <2>2, FS_CardinalityType
  <2> QED BY <1>2, <2>2, <2>3
<1>4. ASSUME NEW t \in RowsBelow(g), NEW u \in RowsBelow(g), t.id < u.id
      PROVE  Cardinality(Earlier(t)) < Cardinality(Earlier(u))
  <2>1. Earlier(t) \in SUBSET Earlier(u) /\ t \in Earlier(u) /\ t \notin Earlier(t)
    BY <1>1, <1>4
  <2>2. /\ Cardinality(Earlier(t)) <= Cardinality(Earlier(u))
        /\ Cardinality(Earlier(u)) # Cardinality(Earlier(t))
    BY <1>3, <2>1, FS_Subset
  <2> QED BY <1>3, <2>2
<1>5. \A t \in RowsBelow(g) : LoadedId(t, g) = nextRoomId + Cardinality(Earlier(t))
  BY DEF LoadedId
<1> HIDE DEF Earlier
<1>6. \A t \in RowsBelow(g) :
         LoadedId(t, g) \in Nat /\ LoadedId(t, g) < nextRoomId + Cardinality(RowsBelow(g))
  BY <1>2, <1>3, <1>5
<1>7. \A t, u \in RowsBelow(g) : t.id < u.id => LoadedId(t, g) < LoadedId(u, g)
  BY <1>3, <1>4, <1>5
<1> QED BY <1>2, <1>6, <1>7

\* What an object takes over from its row.
LEMMA LoadedRoomIsRow ==
    ASSUME NEW t \in Row, NEW i \in Nat
    PROVE  /\ LoadedRoom(t, i) \in Room
           /\ LoadedRoom(t, i).id = i /\ LoadedRoom(t, i).dbId = t.id
           /\ LoadedRoom(t, i).address = t.address
           /\ LoadedRoom(t, i).attributes = t.attributes
           /\ LoadedRoom(t, i).moderators \cup LoadedRoom(t, i).banned
                 \cup LoadedRoom(t, i).invited \cup LoadedRoom(t, i).members = {}
BY DEF LoadedRoom, Room, Row

\* A load makes objects of all rows below an address and forgets the others.
LEMMA LoadKeeps ==
    ASSUME IdentityInv, NEW g \in Galaxy, LoadRoomsFromStorage(g)
    PROVE  IdentityInv'
<1>1. /\ rooms' = {LoadedRoom(t, LoadedId(t, g)) : t \in RowsBelow(g)}
      /\ nextRoomId' = nextRoomId + Cardinality(RowsBelow(g))
      /\ UNCHANGED <<roomTable, nextRow>>
  BY DEF LoadRoomsFromStorage, tables
<1>2. RowsInv' /\ RowsInv
  BY <1>1, RowsStay DEF IdentityInv
<1>3. /\ Cardinality(RowsBelow(g)) \in Nat
      /\ \A t \in RowsBelow(g) : LoadedId(t, g) \in Nat /\ LoadedId(t, g) < nextRoomId'
      /\ \A t, u \in RowsBelow(g) : t.id < u.id => LoadedId(t, g) < LoadedId(u, g)
  BY <1>1, LoadedIds DEF IdentityInv, RoomsInv
<1>4. RowsBelow(g) \subseteq roomTable /\ roomTable \subseteq Row
  BY <1>2 DEF RowsBelow, RowsInv
<1>5. nextRoomId' \in Nat
  BY <1>1, <1>3 DEF IdentityInv, RoomsInv
<1>6. ASSUME NEW r \in rooms'
      PROVE  r \in Room /\ Sound(r)'
  <2>1. PICK t \in RowsBelow(g) : r = LoadedRoom(t, LoadedId(t, g))
    BY <1>1
  <2>2. t \in roomTable /\ t \in Row /\ LoadedId(t, g) \in Nat
    BY <1>3, <1>4
  <2>3. /\ r \in Room
        /\ r.id = LoadedId(t, g) /\ r.dbId = t.id /\ r.attributes = t.attributes
        /\ r.moderators \cup r.banned \cup r.invited \cup r.members = {}
    BY <2>1, <2>2, LoadedRoomIsRow
  <2>4. r.id < nextRoomId' /\ r.dbId < nextRow'
    BY <1>1, <1>2, <1>3, <2>2, <2>3 DEF RowsInv
  <2>5. Persistent(r)
    BY <1>2, <2>2, <2>3 DEF Persistent, RowsInv
  <2> QED BY <2>3, <2>4, <2>5 DEF Sound
<1>7. RoomsDistinct'
  <2> SUFFICES ASSUME NEW p \in rooms', NEW q \in rooms', p # q
               PROVE  p.id # q.id /\ p.address # q.address /\ p.dbId # q.dbId
    BY DEF RoomsDistinct
  <2>1. PICK t \in RowsBelow(g) : p = LoadedRoom(t, LoadedId(t, g))
    BY <1>1
  <2>2. PICK u \in RowsBelow(g) : q = LoadedRoom(u, LoadedId(u, g))
    BY <1>1
  <2>3. /\ p.id = LoadedId(t, g) /\ p.dbId = t.id /\ p.address = t.address
        /\ q.id = LoadedId(u, g) /\ q.dbId = u.id /\ q.address = u.address
    BY <1>3, <1>4, <2>1, <2>2, LoadedRoomIsRow
  <2>4. t.id # u.id /\ t.address # u.address
    BY <1>2, <1>4, <2>1, <2>2 DEF RowsInv
  <2>5. t.id \in Nat /\ u.id \in Nat
    BY <1>4 DEF Row
  <2>6. t.id < u.id \/ u.id < t.id
    BY <2>4, <2>5
  <2>7. LoadedId(t, g) # LoadedId(u, g)
    BY <1>3, <2>6
  <2> QED BY <2>3, <2>4, <2>7
<1> QED BY <1>2, <1>5, <1>6, <1>7 DEF IdentityInv, RoomsInv

(***************************************************************************)
(* CreateRoom and DestroyRoom                                              *)
(***************************************************************************)

\* The INSERT of a room stores one row, if the address has none, and has
\* stored it when it returns.
LEMMA InsertRowOutcome ==
    ASSUME NEW a, NEW x, NEW k, NEW o \in InsertRow(a, x, k)
    PROVE  /\ o.ok \in BOOLEAN
           /\ o.fault # 1 /\ (\A t \in roomTable : t.address # x) => o.ok
           /\ \/ o.db = roomTable /\ ~o.ok
              \/ /\ o.db = roomTable \cup {NewRow(a, x, k)}
                 /\ \A t \in roomTable : t.address # x
<1>1. CASE \E t \in roomTable : t.address = x
  <2>1. o = Refused(roomTable)
    BY <1>1 DEF InsertRow
  <2> QED BY <1>1, <2>1 DEF Refused
<1>2. CASE \A t \in roomTable : t.address # x
  <2>1. o \in Execute(roomTable, roomTable \cup {NewRow(a, x, k)}, MayFail)
    BY <1>2 DEF InsertRow
  <2>2. CASE o = Ran(roomTable \cup {NewRow(a, x, k)})
    BY <1>2, <2>2 DEF Ran
  <2>3. CASE \E v \in {roomTable, roomTable \cup {NewRow(a, x, k)}} :
                o = [db |-> v, ok |-> FALSE, fault |-> 1]
    BY <1>2, <2>3
  <2>4. o = Ran(roomTable \cup {NewRow(a, x, k)})
          \/ \E v \in {roomTable, roomTable \cup {NewRow(a, x, k)}} :
                o = [db |-> v, ok |-> FALSE, fault |-> 1]
    BY <2>1 DEF Execute
  <2> QED BY <2>2, <2>3, <2>4
<1> QED BY <1>1, <1>2

\* A row added with the next id.
LEMMA RowAdded ==
    ASSUME RowsInv, NEW a \in Avatar, NEW x \in RoomAddress, NEW k \in AttributeSets,
           "PERSISTENT" \in k, \A t \in roomTable : t.address # x,
           roomTable' = roomTable \cup {NewRow(a, x, k)}, nextRow' = nextRow + 1
    PROVE  RowsInv'
<1>1. /\ NewRow(a, x, k) \in Row
      /\ NewRow(a, x, k).id = nextRow /\ NewRow(a, x, k).address = x
      /\ NewRow(a, x, k).attributes = k
  BY DEF NewRow, Row, RowsInv
<1>2. IsFiniteSet(roomTable')
  BY FS_AddElement DEF RowsInv
<1>3. \A t \in roomTable : t.id \in Nat /\ t.id < nextRow
  BY DEF RowsInv, Row
<1>4. nextRow' \in Nat /\ roomTable' \subseteq Row
  BY <1>1 DEF RowsInv
<1>5. ASSUME NEW t \in roomTable'
      PROVE  t.id < nextRow' /\ "PERSISTENT" \in t.attributes
  BY <1>1, <1>3 DEF RowsInv
<1>6. ASSUME NEW t \in roomTable', NEW u \in roomTable', t.id = u.id \/ t.address = u.address
      PROVE  t = u
  <2>1. CASE t \in roomTable /\ u \in roomTable
    BY <1>6, <2>1 DEF RowsInv
  <2>2. CASE t = NewRow(a, x, k) \/ u = NewRow(a, x, k)
    BY <1>1, <1>3, <1>6, <2>2
  <2> QED BY <2>1, <2>2
<1> QED BY <1>2, <1>4, <1>5, <1>6 DEF RowsInv

\* An object added with the next id, and with no row or with the next one.
LEMMA RoomAdded ==
    ASSUME RoomsInv, nextRow \in Nat, NEW a \in Avatar, NEW x \in RoomAddress,
           NEW k \in AttributeSets, NEW i \in {NoRow, nextRow}, ~RoomExists(x),
           rooms' = rooms \cup {NewRoom(a, x, k, i)}, nextRoomId' = nextRoomId + 1,
           nextRow' \in {nextRow, nextRow + 1}, i = nextRow => nextRow' = nextRow + 1
    PROVE  RoomsInv'
<1> DEFINE q == NewRoom(a, x, k, i)
<1>1. NoRow \in Int /\ NoRow < 0
  BY SMT DEF NoRow
<1>2. q \in Room /\ q.id = nextRoomId /\ q.dbId = i /\ q.address = x /\ ~q.loaded
  BY <1>1 DEF NewRoom, Room, RoomsInv
<1> HIDE DEF q
<1>3. rooms' = rooms \cup {q}
  BY DEF q
<1>4. \A r \in rooms : /\ r.id \in Nat /\ r.id < nextRoomId /\ r.dbId \in Int
                       /\ r.dbId < nextRow /\ r.address # x
  BY DEF RoomsInv, Room, Sound, RoomExists
<1>5. nextRoomId' \in Nat /\ rooms' \subseteq Room
  BY <1>2, <1>3 DEF RoomsInv
<1>6. ASSUME NEW r \in rooms' PROVE Sound(r)'
  <2>1. CASE r \in rooms
    <3>1. Sound(r) /\ r.id < nextRoomId' /\ r.dbId < nextRow'
      BY <1>4, <2>1 DEF RoomsInv
    <3> QED BY <3>1 DEF Sound
  <2>2. CASE r = q
    <3>1. r.id < nextRoomId' /\ r.dbId < nextRow' /\ ~r.loaded
      BY <1>1, <1>2, <2>2 DEF RoomsInv
    <3> QED BY <3>1 DEF Sound
  <2> QED BY <1>3, <2>1, <2>2
<1>7. RoomsDistinct'
  <2> SUFFICES ASSUME NEW p \in rooms', NEW r \in rooms', p # r
               PROVE  p.id # r.id /\ p.address # r.address /\ (p.dbId = r.dbId => p.dbId = NoRow)
    BY DEF RoomsDistinct
  <2>1. CASE p \in rooms /\ r \in rooms
    BY <2>1 DEF RoomsInv, RoomsDistinct
  <2>2. CASE p = q /\ r \in rooms
    BY <1>2, <1>4, <2>2
  <2>3. CASE p \in rooms /\ r = q
    BY <1>2, <1>4, <2>3
  <2> QED BY <1>3, <2>1, <2>2, <2>3
<1> QED BY <1>5, <1>6, <1>7 DEF RoomsInv

\* A room made by a request, with a row or without.
LEMMA CreateKeeps ==
    ASSUME IdentityInv, NEW a \in Avatar, NEW x \in RoomAddress, NEW k \in AttributeSets,
           CreateTransientRoom(a, x, k) \/ CreatePersistentRoom(a, x, k)
    PROVE  IdentityInv'
<1>1. CASE CreateTransientRoom(a, x, k)
  <2>1. RowsInv'
    BY <1>1, RowsStay DEF CreateTransientRoom, tables, IdentityInv
  <2>2. nextRow \in Nat /\ nextRow' = nextRow /\ NoRow # nextRow
    BY <1>1, SMT DEF CreateTransientRoom, tables, IdentityInv, RowsInv, NoRow
  <2>3. RoomsInv'
    BY <1>1, <2>2, RoomAdded DEF CreateTransientRoom, IdentityInv
  <2> QED BY <2>1, <2>3 DEF IdentityInv
<1>2. CASE CreatePersistentRoom(a, x, k)
  <2>1. PICK ins \in InsertRow(a, x, k) :
           /\ roomTable' = ins.db
           /\ nextRow' = IF ins.db = roomTable THEN nextRow ELSE nextRow + 1
           /\ rooms' = rooms \cup {NewRoom(a, x, k, IF ins.ok THEN nextRow ELSE NoRow)}
    BY <1>2 DEF CreatePersistentRoom
  <2>2. ~RoomExists(x) /\ "PERSISTENT" \in k /\ nextRoomId' = nextRoomId + 1
    BY <1>2 DEF CreatePersistentRoom
  <2>3. /\ nextRow \in Nat /\ NoRow # nextRow
        /\ \A t \in roomTable : t.id # nextRow
    <3>1. nextRow \in Nat /\ \A t \in roomTable : t.id \in Nat /\ t.id < nextRow
      BY DEF IdentityInv, RowsInv, Row
    <3> QED BY <3>1, SMT DEF NoRow
  <2>4. CASE ins.db = roomTable /\ ~ins.ok
    <3>1. RowsInv'
      BY <2>1, <2>4, RowsStay DEF IdentityInv
    <3>2. RoomsInv'
      BY <2>1, <2>2, <2>3, <2>4, RoomAdded DEF IdentityInv
    <3> QED BY <3>1, <3>2 DEF IdentityInv
  <2>5. CASE /\ ins.db = roomTable \cup {NewRow(a, x, k)}
             /\ \A t \in roomTable : t.address # x
    <3>1. NewRow(a, x, k).id = nextRow
      BY DEF NewRow
    <3>2. nextRow' = nextRow + 1
      BY <2>1, <2>3, <2>5, <3>1
    <3>3. RowsInv'
      BY <2>1, <2>2, <2>5, <3>2, RowAdded DEF IdentityInv
    <3>4. RoomsInv'
      BY <2>1, <2>2, <2>3, <3>2, RoomAdded DEF IdentityInv
    <3> QED BY <3>3, <3>4 DEF IdentityInv
  <2> QED BY <2>4, <2>5, InsertRowOutcome
<1> QED BY <1>1, <1>2

\* The DELETE of a persistent room takes its row, and has done so when it
\* returns; for other rooms there is no DELETE.
LEMMA DeleteRowOutcome ==
    ASSUME NEW r, NEW o \in DeleteRow(r)
    PROVE  LET others == {t \in roomTable : t.id # r.dbId}
           IN /\ o.ok \in BOOLEAN
              /\ o.db \in {roomTable, others}
              /\ o.ok /\ Persistent(r) => o.db = others
              /\ ~Persistent(r) => o.ok /\ o.db = roomTable
<1> DEFINE others == {t \in roomTable : t.id # r.dbId}
<1>1. CASE ~Persistent(r)
  <2>1. o = NotNeeded(roomTable)
    BY <1>1 DEF DeleteRow
  <2> QED BY <1>1, <2>1 DEF NotNeeded
<1>2. CASE Persistent(r)
  <2>1. o \in Execute(roomTable, others, MayFail)
    BY <1>2 DEF DeleteRow
  <2>2. \/ o = Ran(others)
        \/ \E v \in {roomTable, others} : o = [db |-> v, ok |-> FALSE, fault |-> 1]
    BY <2>1 DEF Execute
  <2>3. CASE o = Ran(others)
    BY <1>2, <2>3 DEF Ran
  <2>4. CASE \E v \in {roomTable, others} : o = [db |-> v, ok |-> FALSE, fault |-> 1]
    BY <1>2, <2>4
  <2> QED BY <2>2, <2>3, <2>4
<1> QED BY <1>1, <1>2

\* DestroyRoom, whether or not its DELETE returns.
LEMMA DestroyKeeps ==
    ASSUME IdentityInv, NEW r \in rooms, DestroyRoom(r)
    PROVE  IdentityInv'
<1>1. PICK del \in DeleteRow(r) :
         /\ roomTable' = del.db
         /\ rooms' = IF del.ok THEN {s \in rooms : s.id # r.id} ELSE rooms
  BY DEF DestroyRoom
<1>2. nextRoomId' = nextRoomId /\ nextRow' = nextRow
  BY DEF DestroyRoom
<1>3. del.db \subseteq roomTable
  BY DeleteRowOutcome
<1>4. rooms' \subseteq rooms
  BY <1>1
<1> QED BY <1>1, <1>2, <1>3, <1>4, FewerKeeps

(***************************************************************************)
(* The people of a room                                                    *)
(***************************************************************************)

\* An object with another list of people is the same room.
LEMMA PeopleChange ==
    ASSUME NEW r \in Room, NEW S \in SUBSET Avatar
    PROVE  /\ \A s \in {[r EXCEPT !.members = S], [r EXCEPT !.moderators = S],
                       [r EXCEPT !.banned = S], [r EXCEPT !.invited = S]} :
                 s \in Room /\ SameRoom(r, s)
           /\ [r EXCEPT !.members = S].members = S
           /\ \A P \in {r.members, r.moderators, r.banned, r.invited} : P \subseteq Avatar
           /\ LET s == [r EXCEPT !.members = S]
              IN s.moderators = r.moderators /\ s.banned = r.banned /\ s.invited = r.invited
BY DEF Room, SameRoom

\* Roles of rooms that were not loaded: nothing is asked of them.
LEMMA UnloadedSound ==
    ASSUME NEW r, NEW s, Sound(r), SameRoom(r, s), ~r.loaded
    PROVE  Sound(s)
BY DEF Sound, SameRoom

\* Fewer members, or one who may come in.
LEMMA MembersSound ==
    ASSUME NEW r \in Room, Sound(r), NEW S \in SUBSET Avatar,
           r.loaded /\ Private(r) => S \subseteq r.members \cup {r.creator}
    PROVE  Sound([r EXCEPT !.members = S])
<1> DEFINE s == [r EXCEPT !.members = S]
<1>1. SameRoom(r, s) /\ s.members = S /\ s.moderators = r.moderators
        /\ s.banned = r.banned /\ s.invited = r.invited
  BY PeopleChange
<1> HIDE DEF s
<1>2. Sound(s)
  BY <1>1 DEF Sound, SameRoom, Persistent, Private
<1> QED BY <1>2 DEF s

\* Handlers that change who is in a room.
LEMMA MembersKeep ==
    ASSUME IdentityInv, NEW r \in rooms, NEW S \in SUBSET Avatar,
           r.loaded /\ Private(r) => S \subseteq r.members \cup {r.creator},
           Update(r, [r EXCEPT !.members = S]), UNCHANGED Identities
    PROVE  IdentityInv'
<1>1. r \in Room /\ Sound(r)
  BY DEF IdentityInv, RoomsInv
<1>2. [r EXCEPT !.members = S] \in Room /\ SameRoom(r, [r EXCEPT !.members = S])
  BY <1>1, PeopleChange
<1> QED BY <1>1, <1>2, MembersSound, UpdateKeeps

\* Leaving a room, of one's own will or not.
LEMMA LeaveKeeps ==
    ASSUME IdentityInv, NEW r \in rooms, NEW a \in Avatar, LeaveRoom(r, a)
    PROVE  IdentityInv'
<1>1. r.members \ {a} \in SUBSET Avatar
  BY DEF IdentityInv, RoomsInv, Room
<1>2. Update(r, [r EXCEPT !.members = r.members \ {a}]) /\ UNCHANGED Identities
  BY DEF LeaveRoom, tables, Identities
<1>3. r.members \ {a} \subseteq r.members \cup {r.creator}
  OBVIOUS
<1> QED BY <1>1, <1>2, <1>3, MembersKeep

\* Refused requests.
LEMMA FailKeeps ==
    ASSUME IdentityInv, NEW code, Fail(code)
    PROVE  IdentityInv'
<1>1. UNCHANGED rooms /\ UNCHANGED Identities
  BY DEF Fail, tables, Identities
<1> QED BY <1>1, UnchangedKeeps

\* EnterRoom and LeaveRoom.
LEMMA MemberStepKeeps ==
    ASSUME IdentityInv, NEW r \in rooms, NEW a \in Avatar, MemberStep(r, a)
    PROVE  IdentityInv'
<1>1. CASE LeaveRoom(r, a)
  BY <1>1, LeaveKeeps
<1>2. ASSUME NEW right \in BOOLEAN, EnterRoom(r, a, right) PROVE IdentityInv'
  <2>1. CASE Fail(EntryCode(r, a, right))
    BY <2>1, FailKeeps
  <2>2. CASE /\ EntryCode(r, a, right) = "SUCCESS"
             /\ Update(r, [r EXCEPT !.members = r.members \cup {a}])
             /\ UNCHANGED Identities
    <3>1. ~(Private(r) /\ a # r.creator /\ a \notin r.invited)
      BY <2>2 DEF EntryCode
    <3>2. r.loaded => r.invited = {}
      BY DEF IdentityInv, RoomsInv, Sound
    <3>3. r.loaded /\ Private(r) => r.members \cup {a} \subseteq r.members \cup {r.creator}
      BY <3>1, <3>2
    <3>4. r.members \cup {a} \in SUBSET Avatar
      BY DEF IdentityInv, RoomsInv, Room
    <3> QED BY <2>2, <3>3, <3>4, MembersKeep
  <2> QED BY <1>2, <2>1, <2>2 DEF EnterRoom, tables, Identities
<1> QED BY <1>1, <1>2 DEF MemberStep

\* A role changed in a room that was not loaded.
LEMMA RoleKeeps ==
    ASSUME IdentityInv, NEW r \in rooms, ~r.loaded, NEW S \in SUBSET Avatar,
           NEW s \in {[r EXCEPT !.moderators = S], [r EXCEPT !.banned = S],
                     [r EXCEPT !.invited = S]},
           Update(r, s), UNCHANGED Identities
    PROVE  IdentityInv'
<1>1. r \in Room /\ Sound(r)
  BY DEF IdentityInv, RoomsInv
<1>2. s \in Room /\ SameRoom(r, s)
  <2>1. CASE s = [r EXCEPT !.moderators = S]
    BY <1>1, <2>1, PeopleChange
  <2>2. CASE s = [r EXCEPT !.banned = S]
    BY <1>1, <2>2, PeopleChange
  <2>3. CASE s = [r EXCEPT !.invited = S]
    BY <1>1, <2>3, PeopleChange
  <2> QED BY <2>1, <2>2, <2>3
<1>3. Sound(s)
  BY <1>1, <1>2, UnloadedSound
<1> QED BY <1>2, <1>3, UpdateKeeps

\* The process starts again and its rooms are numbered from zero.
LEMMA CrashKeeps ==
    ASSUME IdentityInv, Crash
    PROVE  IdentityInv'
BY EmptyKeeps DEF Crash, tables

\* Kicks, moderators, bans and invitations: of a loaded room nobody is the moderator
\* they ask for, and its creator ends the process.
LEMMA RoleStepKeeps ==
    ASSUME IdentityInv, NEW r \in rooms, NEW s \in Avatar, NEW a \in Avatar,
           RoleStep(r, s, a)
    PROVE  IdentityInv'
<1>1. /\ r.loaded => Persistent(r)
      /\ r.loaded => r.moderators \cup r.banned \cup r.invited = {}
      /\ \A P \in {r.moderators, r.banned, r.invited} : P \subseteq Avatar
  BY DEF IdentityInv, RoomsInv, Sound, Room
<1>2. CASE \E code : Fail(code)
  BY <1>2, FailKeeps
<1>3. CASE LeaveRoom(r, a)
  BY <1>3, LeaveKeeps
<1>4. CASE Crash
  BY <1>4, CrashKeeps
<1>5. ASSUME ~r.loaded, NEW S \in SUBSET Avatar,
             \/ Update(r, [r EXCEPT !.moderators = S])
             \/ Update(r, [r EXCEPT !.banned = S])
             \/ Update(r, [r EXCEPT !.invited = S]),
             UNCHANGED Identities
      PROVE  IdentityInv'
  BY <1>5, RoleKeeps
<1>6. CASE KickAvatar(r, s, a)
  BY <1>2, <1>3, <1>6 DEF KickAvatar
<1>7. CASE ModeratorStep(r, s, a)
  <2>1. CASE AddModerator(r, s, a)
    <3>1. \/ \E code : Fail(code)
          \/ Crash
          \/ /\ ~r.loaded
             /\ Update(r, [r EXCEPT !.moderators = r.moderators \cup {a}])
             /\ UNCHANGED Identities
      BY <1>1, <2>1 DEF AddModerator, StoreModerator, Identities
    <3>2. r.moderators \cup {a} \in SUBSET Avatar
      BY <1>1
    <3> QED BY <1>2, <1>4, <1>5, <3>1, <3>2
  <2>2. CASE RemoveModerator(r, s, a)
    <3>1. \/ \E code : Fail(code)
          \/ /\ ~r.loaded
             /\ Update(r, [r EXCEPT !.moderators = r.moderators \ {a}])
             /\ UNCHANGED Identities
      BY <1>1, <2>2 DEF RemoveModerator, StoreModerator, Identities
    <3>2. r.moderators \ {a} \in SUBSET Avatar
      BY <1>1
    <3> QED BY <1>2, <1>5, <3>1, <3>2
  <2> QED BY <1>7, <2>1, <2>2 DEF ModeratorStep
<1>8. CASE BanStep(r, s, a)
  <2>1. CASE AddBan(r, s, a)
    <3>1. \/ \E code : Fail(code)
          \/ /\ ~r.loaded
             /\ Update(r, [r EXCEPT !.banned = r.banned \cup {a}])
             /\ UNCHANGED Identities
      BY <1>1, <2>1 DEF AddBan, StoreBanned, Identities
    <3>2. r.banned \cup {a} \in SUBSET Avatar
      BY <1>1
    <3> QED BY <1>2, <1>5, <3>1, <3>2
  <2>2. CASE RemoveBan(r, s, a)
    <3>1. \/ \E code : Fail(code)
          \/ /\ ~r.loaded
             /\ Update(r, [r EXCEPT !.banned = r.banned \ {a}])
             /\ UNCHANGED Identities
      BY <1>1, <2>2 DEF RemoveBan, StoreBanned, Identities
    <3>2. r.banned \ {a} \in SUBSET Avatar
      BY <1>1
    <3> QED BY <1>2, <1>5, <3>1, <3>2
  <2> QED BY <1>8, <2>1, <2>2 DEF BanStep
<1>9. CASE InviteStep(r, s, a)
  <2>1. CASE AddInvite(r, s, a)
    <3>1. \/ \E code : Fail(code)
          \/ /\ ~r.loaded
             /\ Update(r, [r EXCEPT !.invited = r.invited \cup {a}])
             /\ UNCHANGED Identities
      BY <1>1, <2>1 DEF AddInvite, tables, Identities
    <3>2. r.invited \cup {a} \in SUBSET Avatar
      BY <1>1
    <3> QED BY <1>2, <1>5, <3>1, <3>2
  <2>2. CASE RemoveInvite(r, s, a)
    <3>1. \/ \E code : Fail(code)
          \/ /\ ~r.loaded
             /\ Update(r, [r EXCEPT !.invited = r.invited \ {a}])
             /\ UNCHANGED Identities
      BY <1>1, <2>2 DEF RemoveInvite, tables, Identities
    <3>2. r.invited \ {a} \in SUBSET Avatar
      BY <1>1
    <3> QED BY <1>2, <1>5, <3>1, <3>2
  <2> QED BY <1>9, <2>1, <2>2 DEF InviteStep
<1> QED BY <1>6, <1>7, <1>8, <1>9 DEF RoleStep

\* Somebody who logs out leaves every room.
LEMMA LogoutKeeps ==
    ASSUME IdentityInv, NEW a \in Avatar, LogoutAvatar(a)
    PROVE  IdentityInv'
<1> DEFINE Left(r) == [r EXCEPT !.members = r.members \ {a}]
<1>1. rooms' = {Left(r) : r \in rooms} /\ UNCHANGED Identities
  BY DEF LogoutAvatar, tables, Identities
<1>2. ASSUME NEW r \in rooms
      PROVE  Left(r) \in Room /\ SameRoom(r, Left(r)) /\ Sound(Left(r))
  <2>1. r \in Room /\ Sound(r) /\ r.members \ {a} \in SUBSET Avatar
    BY DEF IdentityInv, RoomsInv, Room
  <2>2. r.members \ {a} \subseteq r.members \cup {r.creator}
    OBVIOUS
  <2> QED BY <2>1, <2>2, PeopleChange, MembersSound
<1> HIDE DEF Left
<1>3. RowsInv'
  BY <1>1, RowsStay DEF IdentityInv, Identities
<1>4. \A q \in rooms' : q \in Room /\ Sound(q)'
  BY <1>1, <1>2 DEF Identities, Sound
<1>5. RoomsDistinct'
  <2> SUFFICES ASSUME NEW p \in rooms', NEW q \in rooms', p # q
               PROVE  p.id # q.id /\ p.address # q.address /\ (p.dbId = q.dbId => p.dbId = NoRow)
    BY DEF RoomsDistinct
  <2>1. PICK r \in rooms, s \in rooms : p = Left(r) /\ q = Left(s)
    BY <1>1
  <2>2. r # s
    BY <2>1
  <2> QED BY <1>2, <2>1, <2>2 DEF SameRoom, IdentityInv, RoomsInv, RoomsDistinct
<1>6. nextRoomId' \in Nat
  BY <1>1 DEF Identities, IdentityInv, RoomsInv
<1> QED BY <1>3, <1>4, <1>5, <1>6 DEF IdentityInv, RoomsInv

\* Handlers about the rooms as a whole.
LEMMA ServiceStepKeeps ==
    ASSUME IdentityInv, ServiceStep
    PROVE  IdentityInv'
<1>1. ASSUME NEW g \in Galaxy, LoadRoomsFromStorage(g) PROVE IdentityInv'
  BY <1>1, LoadKeeps
<1>2. ASSUME NEW g \in Galaxy, LoadRoomsFails(g) PROVE IdentityInv'
  BY <1>2, EmptyKeeps DEF LoadRoomsFails, tables, IdentityInv, RoomsInv
<1>3. ASSUME NEW a \in Avatar, NEW x \in RoomAddress, NEW k \in AttributeSets,
             CreateTransientRoom(a, x, k) \/ CreatePersistentRoom(a, x, k)
      PROVE  IdentityInv'
  BY <1>3, CreateKeeps
<1>4. ASSUME NEW x \in RoomAddress, CreateExistingRoom(x) \/ NoRoom(x) PROVE IdentityInv'
  BY <1>4, FailKeeps DEF CreateExistingRoom, NoRoom
<1>5. ASSUME NEW r \in rooms, DestroyRoom(r) PROVE IdentityInv'
  BY <1>5, DestroyKeeps
<1>6. ASSUME NEW a \in Avatar, LogoutAvatar(a) PROVE IdentityInv'
  BY <1>6, LogoutKeeps
<1> QED BY <1>1, <1>2, <1>3, <1>4, <1>5, <1>6, CrashKeeps DEF ServiceStep

(***************************************************************************)
(* Rooms and rows                                                          *)
(***************************************************************************)

\* The id of a row leads from an object to the row of its own address, and
\* only persistent rooms have one.
Linked ==
    \A r \in rooms :
        /\ ~Persistent(r) => r.dbId = NoRow
        /\ \A t \in roomTable : t.id = r.dbId => t.address = r.address

MatchInv == Linked /\ StoreMatches

\* Nothing happens but to the people of rooms.
PeopleOnly ==
    /\ UNCHANGED <<roomTable, base, torn>>
    /\ \A q \in rooms' : \E r \in rooms : SameRoom(r, q)
    /\ \A r \in rooms : \E q \in rooms' : SameRoom(r, q)

\* Who is in a room says nothing about its row.
LEMMA PeopleMatch ==
    ASSUME MatchInv, PeopleOnly
    PROVE  MatchInv'
<1>1. Linked'
  <2> SUFFICES ASSUME NEW q \in rooms'
               PROVE  /\ ~Persistent(q) => q.dbId = NoRow
                      /\ \A t \in roomTable : t.id = q.dbId => t.address = q.address
    BY DEF Linked, PeopleOnly, Persistent
  <2>1. PICK r \in rooms : SameRoom(r, q)
    BY DEF PeopleOnly
  <2> QED BY <2>1 DEF MatchInv, Linked, SameRoom, Persistent
<1>2. StoreMatches'
  <2> SUFFICES ASSUME NEW g \in base, NEW x \in Below[g] \ torn
               PROVE  /\ \A q \in rooms' : q.address = x /\ Persistent(q) =>
                            \E t \in roomTable : t.id = q.dbId /\ t.address = x /\ t.creator = q.creator
                      /\ \A t \in roomTable : t.address = x =>
                            \E q \in rooms' : q.address = x /\ q.dbId = t.id
    BY DEF StoreMatches, PeopleOnly, Persistent
  <2>1. ASSUME NEW q \in rooms', q.address = x, Persistent(q)
        PROVE  \E t \in roomTable : t.id = q.dbId /\ t.address = x /\ t.creator = q.creator
    <3>1. PICK r \in rooms : SameRoom(r, q)
      BY DEF PeopleOnly
    <3> QED BY <2>1, <3>1 DEF MatchInv, StoreMatches, SameRoom, Persistent
  <2>2. ASSUME NEW t \in roomTable, t.address = x
        PROVE  \E q \in rooms' : q.address = x /\ q.dbId = t.id
    <3>1. PICK r \in rooms : r.address = x /\ r.dbId = t.id
      BY <2>2 DEF MatchInv, StoreMatches
    <3>2. PICK q \in rooms' : SameRoom(r, q)
      BY DEF PeopleOnly
    <3> QED BY <3>1, <3>2 DEF SameRoom
  <2> QED BY <2>1, <2>2
<1> QED BY <1>1, <1>2 DEF MatchInv

\* The ways the handlers about people end.
LEMMA FailIsPeopleOnly ==
    ASSUME NEW code, Fail(code)
    PROVE  PeopleOnly
BY DEF Fail, tables, PeopleOnly, SameRoom

\* A list of people changes in one object.
LEMMA UpdateIsPeopleOnly ==
    ASSUME IdentityInv, NEW r \in rooms, NEW S \in SUBSET Avatar,
           UNCHANGED <<roomTable, base, torn>>,
           \/ Update(r, [r EXCEPT !.members = S])
           \/ Update(r, [r EXCEPT !.moderators = S])
           \/ Update(r, [r EXCEPT !.banned = S])
           \/ Update(r, [r EXCEPT !.invited = S])
    PROVE  PeopleOnly
<1>1. r \in Room
  BY DEF IdentityInv, RoomsInv
<1>2. ASSUME NEW s, SameRoom(r, s), Update(r, s) PROVE PeopleOnly
  BY <1>2 DEF Update, PeopleOnly, SameRoom
<1>3. CASE Update(r, [r EXCEPT !.members = S])
  BY <1>1, <1>2, <1>3, PeopleChange
<1>4. CASE Update(r, [r EXCEPT !.moderators = S])
  BY <1>1, <1>2, <1>4, PeopleChange
<1>5. CASE Update(r, [r EXCEPT !.banned = S])
  BY <1>1, <1>2, <1>5, PeopleChange
<1>6. CASE Update(r, [r EXCEPT !.invited = S])
  BY <1>1, <1>2, <1>6, PeopleChange
<1> QED BY <1>3, <1>4, <1>5, <1>6

\* Every handler of one room changes its people, or ends the process.
LEMMA RoomStepIsPeopleOnly ==
    ASSUME IdentityInv, NEW r \in rooms, NEW s \in Avatar, NEW a \in Avatar,
           MemberStep(r, a) \/ RoleStep(r, s, a)
    PROVE  PeopleOnly \/ Crash
<1>1. /\ \A P \in {r.members, r.moderators, r.banned, r.invited} :
            P \cup {a} \in SUBSET Avatar /\ P \ {a} \in SUBSET Avatar
  BY DEF IdentityInv, RoomsInv, Room
<1>2. CASE \E code : Fail(code)
  BY <1>2, FailIsPeopleOnly
<1>3. ASSUME NEW S \in SUBSET Avatar, UNCHANGED <<roomTable, base, torn>>,
             \/ Update(r, [r EXCEPT !.members = S])
             \/ Update(r, [r EXCEPT !.moderators = S])
             \/ Update(r, [r EXCEPT !.banned = S])
             \/ Update(r, [r EXCEPT !.invited = S])
      PROVE  PeopleOnly
  BY <1>3, UpdateIsPeopleOnly
<1>4. CASE LeaveRoom(r, a)
  <2>1. Update(r, [r EXCEPT !.members = r.members \ {a}]) /\ UNCHANGED <<roomTable, base, torn>>
    BY <1>4 DEF LeaveRoom, tables
  <2> QED BY <1>1, <1>3, <2>1
<1>5. ASSUME NEW right \in BOOLEAN, EnterRoom(r, a, right) PROVE PeopleOnly
  <2>1. CASE Fail(EntryCode(r, a, right))
    BY <2>1, FailIsPeopleOnly
  <2>2. CASE /\ Update(r, [r EXCEPT !.members = r.members \cup {a}])
             /\ UNCHANGED <<roomTable, base, torn>>
    <3>1. r.members \cup {a} \in SUBSET Avatar
      BY <1>1
    <3> QED BY <1>3, <2>2, <3>1
  <2> QED BY <1>5, <2>1, <2>2 DEF EnterRoom, tables
<1>6. CASE KickAvatar(r, s, a)
  BY <1>2, <1>4, <1>6 DEF KickAvatar
<1>7. CASE AddModerator(r, s, a)
  <2>1. \/ (\E code : Fail(code)) \/ Crash
        \/ /\ Update(r, [r EXCEPT !.moderators = r.moderators \cup {a}])
           /\ UNCHANGED <<roomTable, base, torn>>
    BY <1>7 DEF AddModerator, StoreModerator
  <2> QED BY <1>1, <1>2, <1>3, <2>1
<1>8. CASE RemoveModerator(r, s, a)
  <2>1. \/ \E code : Fail(code)
        \/ /\ Update(r, [r EXCEPT !.moderators = r.moderators \ {a}])
           /\ UNCHANGED <<roomTable, base, torn>>
    BY <1>8 DEF RemoveModerator, StoreModerator
  <2> QED BY <1>1, <1>2, <1>3, <2>1
<1>9. CASE AddBan(r, s, a)
  <2>1. \/ \E code : Fail(code)
        \/ /\ Update(r, [r EXCEPT !.banned = r.banned \cup {a}])
           /\ UNCHANGED <<roomTable, base, torn>>
    BY <1>9 DEF AddBan, StoreBanned
  <2> QED BY <1>1, <1>2, <1>3, <2>1
<1>10. CASE RemoveBan(r, s, a)
  <2>1. \/ \E code : Fail(code)
        \/ /\ Update(r, [r EXCEPT !.banned = r.banned \ {a}])
           /\ UNCHANGED <<roomTable, base, torn>>
    BY <1>10 DEF RemoveBan, StoreBanned
  <2> QED BY <1>1, <1>2, <1>3, <2>1
<1>11. CASE AddInvite(r, s, a)
  <2>1. \/ \E code : Fail(code)
        \/ /\ Update(r, [r EXCEPT !.invited = r.invited \cup {a}])
           /\ UNCHANGED <<roomTable, base, torn>>
    BY <1>11 DEF AddInvite, tables
  <2> QED BY <1>1, <1>2, <1>3, <2>1
<1>12. CASE RemoveInvite(r, s, a)
  <2>1. \/ \E code : Fail(code)
        \/ /\ Update(r, [r EXCEPT !.invited = r.invited \ {a}])
           /\ UNCHANGED <<roomTable, base, torn>>
    BY <1>12 DEF RemoveInvite, tables
  <2> QED BY <1>1, <1>2, <1>3, <2>1
<1> QED BY <1>4, <1>5, <1>6, <1>7, <1>8, <1>9, <1>10, <1>11, <1>12
        DEF MemberStep, RoleStep, ModeratorStep, BanStep, InviteStep

\* A load makes the rooms of the galaxy anew from their rows.
LEMMA LoadMatches ==
    ASSUME IdentityInv, NEW g \in Galaxy, LoadRoomsFromStorage(g)
    PROVE  MatchInv'
<1>1. /\ rooms' = {LoadedRoom(t, LoadedId(t, g)) : t \in RowsBelow(g)}
      /\ roomTable' = roomTable /\ base' = {g} /\ torn' = {}
  BY DEF LoadRoomsFromStorage, tables
<1>2. ASSUME NEW t \in RowsBelow(g), NEW i
      PROVE  /\ LoadedRoom(t, i).address = t.address /\ LoadedRoom(t, i).dbId = t.id
             /\ LoadedRoom(t, i).creator = t.creator
             /\ LoadedRoom(t, i).attributes = t.attributes
  BY DEF LoadedRoom
<1>3. RowsBelow(g) = {t \in roomTable : t.address \in Below[g]}
  BY DEF RowsBelow
<1>4. Linked'
  <2> SUFFICES ASSUME NEW r \in rooms'
               PROVE  /\ Persistent(r)
                      /\ \A t \in roomTable : t.id = r.dbId => t.address = r.address
    BY <1>1 DEF Linked, Persistent
  <2>1. PICK t \in RowsBelow(g) : r = LoadedRoom(t, LoadedId(t, g))
    BY <1>1
  <2>2. r.address = t.address /\ r.dbId = t.id /\ r.attributes = t.attributes
    BY <1>2, <2>1
  <2> QED BY <1>3, <2>2 DEF Persistent, IdentityInv, RowsInv
<1>5. StoreMatches'
  <2> SUFFICES ASSUME NEW x \in Below[g]
               PROVE  /\ \A r \in rooms' : r.address = x =>
                            \E t \in roomTable : t.id = r.dbId /\ t.address = x /\ t.creator = r.creator
                      /\ \A t \in roomTable : t.address = x =>
                            \E r \in rooms' : r.address = x /\ r.dbId = t.id
    BY <1>1 DEF StoreMatches
  <2>1. ASSUME NEW r \in rooms', r.address = x
        PROVE  \E t \in roomTable : t.id = r.dbId /\ t.address = x /\ t.creator = r.creator
    <3>1. PICK t \in RowsBelow(g) : r = LoadedRoom(t, LoadedId(t, g))
      BY <1>1
    <3> QED BY <1>2, <1>3, <2>1, <3>1
  <2>2. ASSUME NEW t \in roomTable, t.address = x
        PROVE  \E r \in rooms' : r.address = x /\ r.dbId = t.id
    <3>1. t \in RowsBelow(g)
      BY <1>3, <2>2
    <3>2. LoadedRoom(t, LoadedId(t, g)) \in rooms'
      BY <1>1, <3>1
    <3> QED BY <1>2, <2>2, <3>1, <3>2
  <2> QED BY <2>1, <2>2
<1> QED BY <1>4, <1>5 DEF MatchInv

\* Without a galaxy there is nothing to match.
LEMMA EmptyMatches ==
    ASSUME rooms' = {}, base' = {}
    PROVE  MatchInv'
BY DEF MatchInv, Linked, StoreMatches

\* A room that gets no row, at an address whose rows stay as they are.
LEMMA TransientMatches ==
    ASSUME IdentityInv, MatchInv, NEW a \in Avatar, NEW x \in RoomAddress,
           NEW k \in AttributeSets, CreateTransientRoom(a, x, k)
    PROVE  MatchInv'
<1> DEFINE q == NewRoom(a, x, k, NoRow)
<1>1. /\ rooms' = rooms \cup {q}
      /\ UNCHANGED <<roomTable, base, torn>>
  BY DEF CreateTransientRoom, tables
<1>2. q.dbId = NoRow /\ ~Persistent(q)
  BY DEF NewRoom, Persistent, CreateTransientRoom
<1> HIDE DEF q
<1>3. \A t \in roomTable : t.id # NoRow
  <2>1. \A t \in roomTable : t.id \in Nat
    BY DEF IdentityInv, RowsInv, Row
  <2> QED BY <2>1, SMT DEF NoRow
<1>4. Linked'
  BY <1>1, <1>2, <1>3 DEF MatchInv, Linked, Persistent
<1>5. StoreMatches'
  BY <1>1, <1>2 DEF MatchInv, StoreMatches, Persistent
<1> QED BY <1>4, <1>5 DEF MatchInv

\* A persistent room gets its row, unless the INSERT failed, which is
\* remembered, or the address is not below the galaxy.
LEMMA PersistentMatches ==
    ASSUME IdentityInv, MatchInv, NEW a \in Avatar, NEW x \in RoomAddress,
           NEW k \in AttributeSets, CreatePersistentRoom(a, x, k)
    PROVE  MatchInv'
<1>1. PICK ins \in InsertRow(a, x, k) :
         /\ roomTable' = ins.db
         /\ rooms' = rooms \cup {NewRoom(a, x, k, IF ins.ok THEN nextRow ELSE NoRow)}
         /\ torn' = IF ins.fault = 1 THEN torn \cup {x} ELSE torn
  BY DEF CreatePersistentRoom
<1> DEFINE q == NewRoom(a, x, k, IF ins.ok THEN nextRow ELSE NoRow)
           n == NewRow(a, x, k)
<1>2. /\ q.dbId = IF ins.ok THEN nextRow ELSE NoRow
      /\ q.address = x /\ q.creator = a /\ q.attributes = k
      /\ n.id = nextRow /\ n.address = x /\ n.creator = a
  BY DEF NewRoom, NewRow
<1>3. rooms' = rooms \cup {q} /\ base' = base
  BY <1>1 DEF CreatePersistentRoom
<1>4. /\ ins.ok \in BOOLEAN
      /\ ins.fault # 1 /\ (\A t \in roomTable : t.address # x) => ins.ok
      /\ \/ roomTable' = roomTable /\ ~ins.ok
         \/ roomTable' = roomTable \cup {n}
  BY <1>1, InsertRowOutcome
<1> HIDE DEF q, n
<1>5. Persistent(q) /\ \A r \in rooms : r.address # x
  BY <1>2 DEF CreatePersistentRoom, Persistent, RoomExists
<1>6. /\ \A t \in roomTable : t.id # NoRow /\ t.id # nextRow
      /\ \A r \in rooms : r.dbId # nextRow
      /\ nextRow # NoRow
  <2>1. /\ nextRow \in Nat
        /\ \A t \in roomTable : t.id \in Nat /\ t.id < nextRow
        /\ \A r \in rooms : r.dbId \in Int /\ r.dbId < nextRow
    BY DEF IdentityInv, RowsInv, Row, RoomsInv, Room, Sound
  <2> QED BY <2>1, SMT DEF NoRow
<1>7. Linked'
  <2> SUFFICES ASSUME NEW r \in rooms'
               PROVE  /\ ~Persistent(r) => r.dbId = NoRow
                      /\ \A t \in roomTable' : t.id = r.dbId => t.address = r.address
    BY DEF Linked, Persistent
  <2>1. CASE r \in rooms
    BY <1>2, <1>4, <1>6, <2>1 DEF MatchInv, Linked
  <2>2. CASE r = q
    BY <1>2, <1>4, <1>5, <1>6, <2>2
  <2> QED BY <1>3, <2>1, <2>2
<1>8. StoreMatches'
  <2> SUFFICES ASSUME NEW g \in base, NEW y \in Below[g] \ torn'
               PROVE  /\ \A r \in rooms' : r.address = y /\ Persistent(r) =>
                            \E t \in roomTable' : t.id = r.dbId /\ t.address = y /\ t.creator = r.creator
                      /\ \A t \in roomTable' : t.address = y =>
                            \E r \in rooms' : r.address = y /\ r.dbId = t.id
    BY <1>3 DEF StoreMatches, Persistent
  <2>1. y \in Below[g] \ torn
    BY <1>1
  <2>2. /\ \A r \in rooms : r.address = y /\ Persistent(r) =>
              \E t \in roomTable : t.id = r.dbId /\ t.address = y /\ t.creator = r.creator
        /\ \A t \in roomTable : t.address = y =>
              \E r \in rooms : r.address = y /\ r.dbId = t.id
    BY <2>1 DEF MatchInv, StoreMatches
  <2>3. CASE y # x
    BY <1>2, <1>3, <1>4, <2>2, <2>3
  <2>4. CASE y = x
    <3>1. \A t \in roomTable : t.address # x
      BY <1>5, <2>2, <2>4
    <3>2. ins.fault # 1
      BY <1>1, <2>4
    <3>3. ins.ok /\ roomTable' = roomTable \cup {n} /\ q.dbId = n.id
      BY <1>2, <1>4, <3>1, <3>2
    <3> QED BY <1>2, <1>3, <1>5, <2>4, <3>1, <3>3
  <2> QED BY <2>3, <2>4
<1> QED BY <1>7, <1>8 DEF MatchInv

\* A room and its row go together, unless the DELETE failed.
LEMMA DestroyMatches ==
    ASSUME IdentityInv, MatchInv, NEW r \in rooms, DestroyRoom(r)
    PROVE  MatchInv'
<1>1. PICK del \in DeleteRow(r) :
         /\ roomTable' = del.db
         /\ rooms' = IF del.ok THEN {s \in rooms : s.id # r.id} ELSE rooms
         /\ torn' = IF del.ok THEN torn ELSE torn \cup {r.address}
         /\ base' = base
  BY DEF DestroyRoom
<1> DEFINE others == {t \in roomTable : t.id # r.dbId}
<1>2. /\ del.ok \in BOOLEAN
      /\ roomTable' \in {roomTable, others}
      /\ del.ok /\ Persistent(r) => roomTable' = others
      /\ ~Persistent(r) => del.ok /\ roomTable' = roomTable
  BY <1>1, DeleteRowOutcome
<1>3. rooms' \subseteq rooms /\ roomTable' \subseteq roomTable
  BY <1>1, <1>2
<1>4. Linked'
  BY <1>3 DEF MatchInv, Linked, Persistent
<1>5. /\ \A t \in roomTable : t.id # NoRow
      /\ \A s \in rooms : s # r => s.id # r.id /\ (s.dbId = r.dbId => s.dbId = NoRow)
      /\ ~Persistent(r) => r.dbId = NoRow
      /\ \A t \in roomTable : t.id = r.dbId => t.address = r.address
  <2>1. \A t \in roomTable : t.id \in Nat
    BY DEF IdentityInv, RowsInv, Row
  <2>2. \A t \in roomTable : t.id # NoRow
    BY <2>1, SMT DEF NoRow
  <2> QED BY <2>2 DEF IdentityInv, RoomsInv, RoomsDistinct, MatchInv, Linked
<1>6. StoreMatches'
  <2> SUFFICES ASSUME NEW g \in base, NEW y \in Below[g] \ torn'
               PROVE  /\ \A s \in rooms' : s.address = y /\ Persistent(s) =>
                            \E t \in roomTable' : t.id = s.dbId /\ t.address = y /\ t.creator = s.creator
                      /\ \A t \in roomTable' : t.address = y =>
                            \E s \in rooms' : s.address = y /\ s.dbId = t.id
    BY <1>1 DEF StoreMatches, Persistent
  <2>1. /\ \A s \in rooms : s.address = y /\ Persistent(s) =>
              \E t \in roomTable : t.id = s.dbId /\ t.address = y /\ t.creator = s.creator
        /\ \A t \in roomTable : t.address = y =>
              \E s \in rooms : s.address = y /\ s.dbId = t.id
    BY <1>1 DEF MatchInv, StoreMatches
  <2>2. ASSUME NEW s \in rooms', s.address = y, Persistent(s)
        PROVE  \E t \in roomTable' : t.id = s.dbId /\ t.address = y /\ t.creator = s.creator
    <3>1. PICK t \in roomTable : t.id = s.dbId /\ t.address = y /\ t.creator = s.creator
      BY <1>3, <2>1, <2>2
    <3>2. t.id # r.dbId \/ roomTable' = roomTable
      <4>1. CASE del.ok
        BY <1>1, <1>3, <1>5, <3>1, <4>1
      <4>2. CASE ~del.ok
        BY <1>1, <1>5, <3>1, <4>2
      <4> QED BY <4>1, <4>2
    <3> QED BY <1>2, <3>1, <3>2
  <2>3. ASSUME NEW t \in roomTable', t.address = y
        PROVE  \E s \in rooms' : s.address = y /\ s.dbId = t.id
    <3>1. PICK s \in rooms : s.address = y /\ s.dbId = t.id
      BY <1>3, <2>1, <2>3
    <3>2. CASE del.ok
      <4>1. t.id # r.dbId
        BY <1>2, <1>3, <1>5, <3>2
      <4> QED BY <1>1, <1>5, <3>1, <3>2, <4>1
    <3>3. CASE ~del.ok
      BY <1>1, <3>1, <3>3
    <3> QED BY <1>2, <3>2, <3>3
  <2> QED BY <2>2, <2>3
<1> QED BY <1>4, <1>6 DEF MatchInv

\* Handlers about the rooms as a whole.
LEMMA ServiceStepMatches ==
    ASSUME IdentityInv, MatchInv, ServiceStep
    PROVE  MatchInv'
<1>1. ASSUME NEW g \in Galaxy, LoadRoomsFromStorage(g) PROVE MatchInv'
  BY <1>1, LoadMatches
<1>2. ASSUME NEW g \in Galaxy, LoadRoomsFails(g) PROVE MatchInv'
  BY <1>2, EmptyMatches DEF LoadRoomsFails
<1>3. ASSUME NEW a \in Avatar, NEW x \in RoomAddress, NEW k \in AttributeSets,
             CreateTransientRoom(a, x, k) \/ CreatePersistentRoom(a, x, k)
      PROVE  MatchInv'
  BY <1>3, TransientMatches, PersistentMatches
<1>4. ASSUME NEW x \in RoomAddress, CreateExistingRoom(x) \/ NoRoom(x) PROVE MatchInv'
  BY <1>4, FailIsPeopleOnly, PeopleMatch DEF CreateExistingRoom, NoRoom
<1>5. ASSUME NEW r \in rooms, DestroyRoom(r) PROVE MatchInv'
  BY <1>5, DestroyMatches
<1>6. ASSUME NEW a \in Avatar, LogoutAvatar(a) PROVE MatchInv'
  <2>1. /\ rooms' = {[r EXCEPT !.members = r.members \ {a}] : r \in rooms}
        /\ UNCHANGED <<roomTable, base, torn>>
    BY <1>6 DEF LogoutAvatar, tables
  <2>2. ASSUME NEW r \in rooms PROVE SameRoom(r, [r EXCEPT !.members = r.members \ {a}])
    <3>1. r \in Room /\ r.members \ {a} \in SUBSET Avatar
      BY DEF IdentityInv, RoomsInv, Room
    <3> QED BY <3>1, PeopleChange
  <2>3. PeopleOnly
    BY <2>1, <2>2 DEF PeopleOnly
  <2> QED BY <2>3, PeopleMatch
<1>7. CASE Crash
  BY <1>7, EmptyMatches DEF Crash
<1> QED BY <1>1, <1>2, <1>3, <1>4, <1>5, <1>6, <1>7 DEF ServiceStep

(***************************************************************************)
(* Theorems                                                                *)
(***************************************************************************)

\* What every handler keeps.
LEMMA NextKeepsIdentity == IdentityInv /\ [Next]_vars => IdentityInv'
<1> SUFFICES ASSUME IdentityInv, [Next]_vars PROVE IdentityInv'
  OBVIOUS
<1>1. CASE UNCHANGED vars
  BY <1>1, UnchangedKeeps DEF vars, Identities
<1>2. ASSUME NEW r \in rooms, NEW a \in Avatar, MemberStep(r, a) PROVE IdentityInv'
  BY <1>2, MemberStepKeeps
<1>3. ASSUME NEW r \in rooms, NEW s \in Avatar, NEW a \in Avatar, RoleStep(r, s, a)
      PROVE  IdentityInv'
  BY <1>3, RoleStepKeeps
<1> QED BY <1>1, <1>2, <1>3, ServiceStepKeeps DEF Next

\* Ids of objects and rows are given out once, loaded rooms included, and
\* loaded rooms are persistent and without roles (the handlers of
\* ChatRoomService).
THEOREM IdentitiesKept == Spec => []IdentityInv
BY InitIdentity, NextKeepsIdentity, PTL DEF Spec

\* A room id, an address and a row never stand for two objects, through
\* loads, failed statements and restarts (LoadRoomsFromStorage, CreateRoom,
\* PersistNewRoom, DestroyRoom).
THEOREM RoomsAlwaysDistinct == Spec => []RoomsDistinct
<1>1. IdentityInv => RoomsDistinct
  BY DEF IdentityInv, RoomsInv
<1> QED BY <1>1, IdentitiesKept, PTL

\* A room loaded from the table never has a moderator, a ban or an
\* invitation (LoadRoomsFromStorage, AddModerator, EnterRoom).
THEOREM LoadedAlwaysUnruled == Spec => []LoadedRoomsUnruled
<1>1. IdentityInv => LoadedRoomsUnruled
  BY DEF IdentityInv, RoomsInv, Sound, LoadedRoomsUnruled
<1> QED BY <1>1, IdentitiesKept, PTL

\* The persistent rooms below the galaxy loaded last are the rows below it,
\* and dbId_ leads from one to the other, except where an INSERT or a DELETE
\* failed since (LoadRoomsFromStorage, PersistNewRoom, DeleteRoom).
THEOREM StoreAlwaysMatches == Spec => []StoreMatches
<1>1. Init => MatchInv
  BY DEF Init, MatchInv, Linked, StoreMatches
<1>2. IdentityInv /\ MatchInv /\ [Next]_vars => MatchInv'
  <2> SUFFICES ASSUME IdentityInv, MatchInv, [Next]_vars PROVE MatchInv'
    OBVIOUS
  <2>1. CASE UNCHANGED vars
    <3>1. PeopleOnly
      BY <2>1 DEF vars, PeopleOnly, SameRoom
    <3> QED BY <3>1, PeopleMatch
  <2>2. ASSUME PeopleOnly \/ Crash PROVE MatchInv'
    BY <2>2, PeopleMatch, EmptyMatches DEF Crash
  <2>3. ASSUME NEW r \in rooms, NEW a \in Avatar, MemberStep(r, a) PROVE MatchInv'
    BY <2>2, <2>3, RoomStepIsPeopleOnly
  <2>4. ASSUME NEW r \in rooms, NEW s \in Avatar, NEW a \in Avatar, RoleStep(r, s, a)
        PROVE  MatchInv'
    BY <2>2, <2>4, RoomStepIsPeopleOnly
  <2> QED BY <2>1, <2>3, <2>4, ServiceStepMatches DEF Next
<1>3. MatchInv => StoreMatches
  BY DEF MatchInv
<1> QED BY <1>1, <1>2, <1>3, IdentitiesKept, PTL DEF Spec


(***************************************************************************)
(* The gateway                                                             *)
(***************************************************************************)

\* The entry of a server that said hello is its present client.  RoutesRight
\* says where messages arrive; this is why.
Registered == \A g \in hello : conn[g] # NoClient /\ clientAddressMap[g] = conn[g]

RouteInv == GatewayTypeOK /\ Registered

\* The restart and the start of the process: nothing is connected, nothing is
\* registered (Node::Node, GatewayNode::GatewayNode).
LEMMA InitRoutes == GatewayInit => RouteInv
  BY DEF GatewayInit, RouteInv, GatewayTypeOK, Registered

\* No step of the gateway breaks the invariant.  Sweep keeps the present
\* clients because it destroys none of them; Connect keeps them apart because
\* it takes a place that is not in use (OnConnectRequest, Node::Tick,
\* RegisterClientAddress).
LEMMA StepKeepsRoutes == RouteInv /\ [GatewayNext]_gatewayVars => RouteInv'
<1> SUFFICES ASSUME RouteInv, [GatewayNext]_gatewayVars PROVE RouteInv'
  OBVIOUS
<1> USE GatewayAssumption DEF RouteInv, GatewayTypeOK, Registered
<1>1. CASE Sweep
  BY <1>1 DEF Sweep, Dead
<1>2. ASSUME NEW g \in Server, Connect(g) PROVE RouteInv'
  <2>1. PICK s \in Slot \ clients :
           clients' = clients \cup {s} /\ conn' = [conn EXCEPT ![g] = s]
    BY <1>2 DEF Connect
  <2>2. g \notin hello /\ clientAddressMap' = clientAddressMap /\ hello' = hello
    BY <1>2 DEF Connect
  <2>3. \A h \in Server : conn[h] # s
    BY <2>1
  <2> QED BY <2>1, <2>2, <2>3
<1>3. ASSUME NEW g \in Server, Disconnect(g) PROVE RouteInv'
  BY <1>3 DEF Disconnect
<1>4. ASSUME NEW g \in Server, RegisterClientAddress(g) PROVE RouteInv'
  BY <1>4 DEF RegisterClientAddress, MapAfter
<1>5. CASE GatewayRestart
  BY <1>5 DEF GatewayRestart
<1>6. CASE UNCHANGED gatewayVars
  BY <1>6 DEF gatewayVars
<1> QED BY <1>1, <1>2, <1>3, <1>4, <1>5, <1>6 DEF GatewayNext, LinkStep

\* What is sent to a registered server reaches its present client, and no
\* other server has that client.
LEMMA InvRoutes == RouteInv => RoutesRight
  BY DEF RouteInv, GatewayTypeOK, Registered, RoutesRight, Reached

\* The invariant holds in every reachable state of the gateway.
THEOREM RoutesInvariant == GatewaySpec => []RouteInv
<1>1. GatewayInit => RouteInv
  BY InitRoutes
<1>2. RouteInv /\ [GatewayNext]_gatewayVars => RouteInv'
  BY StepKeepsRoutes
<1> QED BY <1>1, <1>2, PTL DEF GatewaySpec

\* clients_ and clientAddressMap_ hold clients, and no two connections share
\* one (OnConnectRequest, Node::Tick).
THEOREM GatewayTypeCorrect == GatewaySpec => []GatewayTypeOK
<1>1. RouteInv => GatewayTypeOK
  BY DEF RouteInv
<1> QED BY <1>1, RoutesInvariant, PTL

\* A game server that logged SYSTEM in on its present connection, and nobody
\* else, gets what is sent to its address (RegisterClientAddress, SendTo).
THEOREM AlwaysRoutesRight == GatewaySpec => []RoutesRight
<1>1. RouteInv => RoutesRight
  BY InvRoutes
<1> QED BY <1>1, RoutesInvariant, PTL

(***************************************************************************)
(* What the composition implements                                         *)
(***************************************************************************)

\* Every step of the composition is a step of the gateway or leaves it alone:
\* only SYSTEM's login, connections and restarts change it (LoginAvatar,
\* Node::Tick).
LEMMA StepIsGatewayStep == [MembershipNext]_mvars => [GatewayNext]_gatewayVars
<1> SUFFICES ASSUME [MembershipNext]_mvars PROVE [GatewayNext]_gatewayVars
  OBVIOUS
<1>1. ASSUME NEW a \in Avatar, Create(a) \/ Logout(a) \/ ReLogin(a)
      PROVE  UNCHANGED gatewayVars
  BY <1>1 DEF Create, Logout, ReLogin
<1>2. ASSUME NEW r \in rooms, NEW a \in Avatar, Enter(r, a) \/ Leave(r, a) \/ Destroy(r, a)
      PROVE  UNCHANGED gatewayVars
  BY <1>2 DEF Enter, Leave, TellLeft, Destroy
<1>3. ASSUME NEW r \in rooms, NEW s \in Avatar, NEW a \in Avatar, Kick(r, s, a)
      PROVE  UNCHANGED gatewayVars
  BY <1>3 DEF Kick, TellLeft
<1>4. ASSUME NEW g \in Server, NEW r \in rooms, Ask(g, r)
      PROVE  UNCHANGED gatewayVars
  BY <1>4 DEF Ask
<1>5. ASSUME NEW g \in Server, LoginSystem(g) \/ Lose(g)
      PROVE  GatewayNext
  BY <1>5 DEF LoginSystem, Lose, GatewayNext
<1>6. ASSUME Link \/ Restart
      PROVE  GatewayNext
  BY <1>6 DEF Link, Restart, GatewayNext
<1>7. UNCHANGED mvars => UNCHANGED gatewayVars
  BY DEF mvars
<1> QED BY <1>1, <1>2, <1>3, <1>4, <1>5, <1>6, <1>7 DEF MembershipNext

\* The composition implements the gateway (GatewayNode and its handlers).
THEOREM MembershipImplementsGateway == MembershipSpec => GatewaySpec
<1>1. MembershipInit => GatewayInit
  BY DEF MembershipInit
<1>2. [MembershipNext]_mvars => [GatewayNext]_gatewayVars
  BY StepIsGatewayStep
<1> QED BY <1>1, <1>2, PTL DEF MembershipSpec, GatewaySpec

\* Room notifications for a registered game server arrive there only, while
\* rooms come and go and connections are lost (SendTo).
THEOREM RoomMessagesRouted == MembershipSpec => []RoutesRight
  BY MembershipImplementsGateway, AlwaysRoutesRight, PTL

\* Every step of the composition is a handler of the rooms or leaves them
\* alone: only requests and SYSTEM's login change a room (GetRoom and a
\* FailoverReLoginAvatar of a player do not).
LEMMA StepIsRoomsStep == [MembershipNext]_mvars => [Next]_vars
<1> SUFFICES ASSUME [MembershipNext]_mvars PROVE [Next]_vars
  OBVIOUS
<1>1. ASSUME NEW a \in Avatar, Create(a) PROVE Next
  BY <1>1 DEF Create, Next, ServiceStep
<1>2. ASSUME NEW a \in Avatar, Logout(a) PROVE Next
  BY <1>2 DEF Logout, Next, ServiceStep
<1>3. ASSUME NEW r \in rooms, NEW a \in Avatar, Enter(r, a) \/ Leave(r, a) PROVE Next
  <2>1. MemberStep(r, a)
    BY <1>3 DEF Enter, Leave, MemberStep
  <2> QED BY <2>1 DEF Next
<1>4. ASSUME NEW r \in rooms, NEW d \in Avatar, Destroy(r, d) PROVE Next
  BY <1>4 DEF Destroy, Next, ServiceStep
<1>5. ASSUME NEW r \in rooms, NEW s \in Avatar, NEW a \in Avatar, Kick(r, s, a) PROVE Next
  <2>1. RoleStep(r, s, a)
    BY <1>5 DEF Kick, RoleStep
  <2> QED BY <2>1 DEF Next
<1>6. ASSUME NEW g \in Server, LoginSystem(g) PROVE Next
  BY <1>6, MembershipAssumption DEF LoginSystem, Next, ServiceStep
<1>7. CASE Restart
  BY <1>7 DEF Restart, Next, ServiceStep
<1>8. ASSUME NEW a \in Avatar, ReLogin(a) PROVE UNCHANGED vars
  BY <1>8 DEF ReLogin
<1>9. ASSUME NEW g \in Server, NEW r \in rooms, Ask(g, r) PROVE UNCHANGED vars
  BY <1>9 DEF Ask
<1>10. ASSUME NEW g \in Server, Lose(g) PROVE UNCHANGED vars
  BY <1>10 DEF Lose
<1>11. CASE Link
  BY <1>11 DEF Link
<1>12. CASE UNCHANGED mvars
  BY <1>12 DEF mvars
<1> QED BY <1>1, <1>2, <1>3, <1>4, <1>5, <1>6, <1>7, <1>8, <1>9, <1>10, <1>11, <1>12
        DEF MembershipNext

\* The composition implements the rooms (the handlers of ChatRoomService).
THEOREM MembershipImplementsRooms == MembershipSpec => Spec
<1>1. MembershipInit => Init
  BY DEF MembershipInit
<1>2. [MembershipNext]_mvars => [Next]_vars
  BY StepIsRoomsStep
<1> QED BY <1>1, <1>2, PTL DEF MembershipSpec, Spec

(***************************************************************************)
(* What the game servers know                                              *)
(***************************************************************************)

RoomId == 0..MaxRoomId

\* Who is in which room, as pairs like those in the view of a server.
Inside == {p \in RoomId \X Avatar : \E r \in rooms : r.id = p[1] /\ p[2] \in r.members}

\* The server g has an avatar in room i.
Keeper(g, i) == \E a \in Avatar : AddressOf[a] = g /\ <<i, a>> \in Inside

Shapes ==
    /\ nextRoomId <= MaxRoomId
    /\ view \in [Server -> SUBSET (RoomId \X Avatar)]

\* OwnMembersKnown, pair by pair.
OwnPairs ==
    \A g \in hello, i \in RoomId, a \in Avatar : AddressOf[a] = g =>
        /\ <<i, a>> \in Inside => <<i, a>> \in view[g]
        /\ <<i, a>> \in view[g] => <<i, a>> \in Inside \/ <<g, i>> \in untold

\* SyncedMembersKnown, pair by pair, and what makes it inductive: a server
\* that follows a room has somebody there, so that it is among the addresses
\* of every message about the room.
SyncedPairs ==
    \A g \in Server, i \in RoomId : <<g, i>> \in synced =>
        /\ Keeper(g, i)
        /\ g \in hello => \A a \in Avatar : <<i, a>> \in view[g] <=> <<i, a>> \in Inside

KnownInv == Shapes /\ OwnPairs /\ SyncedPairs

MembershipInv == IdentityInv /\ RouteInv /\ KnownInv

\* Room ids stay below the bound, and each stands for one object.
LEMMA RoomIds ==
    ASSUME IdentityInv, nextRoomId <= MaxRoomId
    PROVE  /\ rooms \subseteq Room
           /\ \A r \in rooms : r.id \in RoomId /\ r.members \subseteq Avatar
           /\ \A r, s \in rooms : r.id = s.id => r = s
<1>1. rooms \subseteq Room /\ nextRoomId \in Nat
  BY DEF IdentityInv, RoomsInv
<1>2. ASSUME NEW r \in rooms PROVE r.id \in RoomId /\ r.members \subseteq Avatar
  <2>1. r.id \in Nat /\ r.members \subseteq Avatar
    BY <1>1 DEF Room
  <2>2. r.id < nextRoomId
    BY DEF IdentityInv, RoomsInv, Sound
  <2> QED BY <1>1, <2>1, <2>2, RoomsAssumption DEF RoomId
<1>3. \A r, s \in rooms : r.id = s.id => r = s
  BY DEF IdentityInv, RoomsInv, RoomsDistinct
<1> QED BY <1>1, <1>2, <1>3

\* Inside says of each room who its members are.
LEMMA InsideIsMembers ==
    ASSUME IdentityInv, nextRoomId <= MaxRoomId, NEW r \in rooms
    PROVE  /\ r.id \in RoomId
           /\ \A a \in Avatar : <<r.id, a>> \in Inside <=> a \in r.members
           /\ \A g : Keeper(g, r.id) <=> g \in Connected(r)
<1>1. /\ r.id \in RoomId /\ r.members \subseteq Avatar
      /\ \A s \in rooms : s.id = r.id => s = r
  BY RoomIds
<1>2. \A a \in Avatar : <<r.id, a>> \in Inside <=> a \in r.members
  BY <1>1 DEF Inside
<1>3. \A g : Keeper(g, r.id) <=> g \in Connected(r)
  BY <1>1, <1>2 DEF Keeper, Connected
<1> QED BY <1>1, <1>2, <1>3

\* A pair inside has its room.
LEMMA InsideHasRoom ==
    ASSUME NEW i, NEW a, <<i, a>> \in Inside
    PROVE  \E r \in rooms : r.id = i /\ a \in r.members
BY DEF Inside

\* A handler that gives one room the members M.
LEMMA UpdatedInside ==
    ASSUME IdentityInv, nextRoomId <= MaxRoomId, NEW r \in rooms,
           NEW M \in SUBSET Avatar, Update(r, [r EXCEPT !.members = M])
    PROVE  /\ [r EXCEPT !.members = M] \in rooms'
           /\ [r EXCEPT !.members = M].members = M
           /\ [r EXCEPT !.members = M].id = r.id
           /\ \A i \in RoomId, a \in Avatar :
                 <<i, a>> \in Inside' <=> (i = r.id /\ a \in M) \/ (i # r.id /\ <<i, a>> \in Inside)
<1> DEFINE s == [r EXCEPT !.members = M]
<1>1. rooms' = (rooms \ {r}) \cup {s}
  BY DEF Update
<1>2. s.members = M /\ s.id = r.id
  <2>1. r \in Room
    BY DEF IdentityInv, RoomsInv
  <2> QED BY <2>1, PeopleChange DEF SameRoom
<1> HIDE DEF s
<1>3. \A q \in rooms : q.id = r.id => q = r
  BY RoomIds
<1>4. ASSUME NEW i \in RoomId, NEW a \in Avatar
      PROVE  <<i, a>> \in Inside' <=> (i = r.id /\ a \in M) \/ (i # r.id /\ <<i, a>> \in Inside)
  <2>1. <<i, a>> \in Inside' <=> \E q \in rooms' : q.id = i /\ a \in q.members
    BY DEF Inside
  <2>2. <<i, a>> \in Inside <=> \E q \in rooms : q.id = i /\ a \in q.members
    BY DEF Inside
  <2>3. CASE i = r.id
    BY <1>1, <1>2, <1>3, <2>1, <2>3
  <2>4. CASE i # r.id
    BY <1>1, <1>2, <2>1, <2>2, <2>4
  <2> QED BY <2>3, <2>4
<1>5. s \in rooms'
  BY <1>1
<1> QED BY <1>2, <1>4, <1>5 DEF s

\* A server that logged SYSTEM in gets what is sent to its address (SendTo).
LEMMA HelloReached ==
    ASSUME RouteInv, NEW g \in hello, NEW A, g \in A
    PROVE  g \in Reached(A)
BY DEF RouteInv, GatewayTypeOK, Registered, Reached

\* Whom KeepSynced lets follow a room has followed it, and has one there.
LEMMA SyncedKept ==
    ASSUME KeepSynced(synced), NEW g \in Server, NEW i \in RoomId, <<g, i>> \in synced',
           \A r \in rooms' : r.members \subseteq Avatar
    PROVE  <<g, i>> \in synced /\ Keeper(g, i)'
<1>1. PICK q \in rooms' : q.id = i /\ g \in Connected(q) /\ <<g, i>> \in synced
  BY DEF KeepSynced
<1>2. PICK a \in q.members : AddressOf[a] = g
  BY <1>1 DEF Connected
<1>3. a \in Avatar /\ <<i, a>> \in Inside'
  BY <1>1, <1>2 DEF Inside
<1> QED BY <1>1, <1>2, <1>3 DEF Keeper

\* What a server that said hello knows of the pair i, a after a step: what is
\* the case, or what it knew before, the pair being as it was.
Told(g, i, a) ==
    \/ <<i, a>> \in view'[g] <=> <<i, a>> \in Inside'
    \/ /\ <<i, a>> \in Inside' <=> <<i, a>> \in Inside
       /\ <<i, a>> \in view'[g] <=> <<i, a>> \in view[g]

\* A step that tells every server with somebody in a room, and the server of
\* the avatar that comes or goes, keeps what they know.
LEMMA ToldKeeps ==
    ASSUME OwnPairs, SyncedPairs, hello' = hello, untold' = untold,
           \A g \in Server, i \in RoomId :
              <<g, i>> \in synced' => <<g, i>> \in synced /\ Keeper(g, i)',
           hello \subseteq Server,
           \A g \in hello, i \in RoomId, a \in Avatar :
              AddressOf[a] = g \/ Keeper(g, i) => Told(g, i, a)
    PROVE  OwnPairs' /\ SyncedPairs'
<1>1. OwnPairs'
  <2> SUFFICES ASSUME NEW g \in hello, NEW i \in RoomId, NEW a \in Avatar, AddressOf[a] = g
               PROVE  /\ <<i, a>> \in Inside' => <<i, a>> \in view'[g]
                      /\ <<i, a>> \in view'[g] => <<i, a>> \in Inside' \/ <<g, i>> \in untold
    BY DEF OwnPairs, RoomId
  <2>1. Told(g, i, a)
    OBVIOUS
  <2>2. /\ <<i, a>> \in Inside => <<i, a>> \in view[g]
        /\ <<i, a>> \in view[g] => <<i, a>> \in Inside \/ <<g, i>> \in untold
    BY DEF OwnPairs
  <2> QED BY <2>1, <2>2 DEF Told
<1>2. SyncedPairs'
  <2> SUFFICES ASSUME NEW g \in Server, NEW i \in RoomId, <<g, i>> \in synced'
               PROVE  /\ Keeper(g, i)'
                      /\ g \in hello => \A a \in Avatar :
                            <<i, a>> \in view'[g] <=> <<i, a>> \in Inside'
    BY DEF SyncedPairs, RoomId
  <2>1. <<g, i>> \in synced /\ Keeper(g, i)'
    OBVIOUS
  <2>2. ASSUME g \in hello, NEW a \in Avatar
        PROVE  <<i, a>> \in view'[g] <=> <<i, a>> \in Inside'
    <3>1. Keeper(g, i) /\ (<<i, a>> \in view[g] <=> <<i, a>> \in Inside)
      BY <2>1, <2>2 DEF SyncedPairs
    <3>2. Told(g, i, a)
      BY <2>2, <3>1
    <3> QED BY <3>1, <3>2 DEF Told
  <2> QED BY <2>1, <2>2
<1> QED BY <1>1, <1>2

\* What is heard is about rooms that have been and avatars that are.
LEMMA HearShape ==
    ASSUME Shapes, nextRoomId' <= MaxRoomId, NEW H, NEW add, NEW drop, Hear(H, add, drop),
           add \subseteq RoomId \X Avatar
    PROVE  Shapes'
BY DEF Shapes, Hear, RoomId

\* Everybody with an avatar in the room hears of the newcomer, the newcomer's
\* server too (EnterRoom).
LEMMA EnterKnown ==
    ASSUME MembershipInv, NEW r \in rooms, NEW a \in Avatar, Enter(r, a), IdentityInv'
    PROVE  KnownInv'
<1> DEFINE M == r.members \cup {a}
           s == [r EXCEPT !.members = M]
           H == Reached(EnterAudience(r))
<1>1. /\ IdentityInv /\ RouteInv /\ Shapes /\ nextRoomId <= MaxRoomId
      /\ OwnPairs /\ SyncedPairs /\ hello \subseteq Server
  BY DEF MembershipInv, KnownInv, Shapes, RouteInv, GatewayTypeOK
<1>2. /\ r.id \in RoomId /\ r.members \subseteq Avatar
      /\ \A g : Keeper(g, r.id) <=> g \in Connected(r)
  BY <1>1, RoomIds, InsideIsMembers
<1>3. /\ Update(r, s) /\ nextRoomId' = nextRoomId
      /\ Hear(H, {<<r.id, a>>}, {}) /\ KeepSynced(synced)
      /\ hello' = hello /\ untold' = untold
  BY DEF Enter, EnterRoom, Fail, gatewayVars
<1>4. /\ s \in rooms' /\ s.members = M /\ s.id = r.id
      /\ \A i \in RoomId, b \in Avatar :
            <<i, b>> \in Inside' <=> (i = r.id /\ b \in M) \/ (i # r.id /\ <<i, b>> \in Inside)
  BY <1>1, <1>2, <1>3, UpdatedInside
<1>5. ASSUME NEW g \in hello, g = AddressOf[a] \/ Keeper(g, r.id) PROVE g \in H
  <2>1. g \in Connected(s)
    BY <1>2, <1>4, <1>5 DEF Connected
  <2>2. g \in EnterAudience(r)
    BY <1>4, <2>1 DEF EnterAudience, After
  <2> QED BY <1>1, <2>2, HelloReached
<1>6. /\ \A g \in Server : view'[g] = IF g \in H THEN (view[g] \ {}) \cup {<<r.id, a>>} ELSE view[g]
      /\ nextRoomId' <= MaxRoomId
  BY <1>1, <1>3 DEF Hear
<1>7. \A b \in Avatar : <<r.id, b>> \in Inside <=> b \in r.members
  BY <1>1, InsideIsMembers
<1> HIDE DEF H, s
<1>8. ASSUME NEW g \in hello, NEW i \in RoomId, NEW b \in Avatar,
             AddressOf[b] = g \/ Keeper(g, i)
      PROVE  Told(g, i, b)
  <2>1. g \in Server
    BY <1>1
  <2>2. CASE i = r.id /\ b = a
    <3>1. g \in H
      BY <1>5, <1>8, <2>2
    <3> QED BY <1>4, <1>6, <2>1, <2>2, <3>1 DEF Told
  <2>3. CASE i # r.id \/ b # a
    BY <1>4, <1>6, <1>7, <2>1, <2>3 DEF Told
  <2> QED BY <2>2, <2>3
<1>9. \A g \in Server, i \in RoomId :
         <<g, i>> \in synced' => <<g, i>> \in synced /\ Keeper(g, i)'
  <2>1. \A q \in rooms' : q.members \subseteq Avatar
    BY DEF IdentityInv, RoomsInv, Room
  <2> QED BY <1>3, <2>1, SyncedKept
<1>10. OwnPairs' /\ SyncedPairs'
  BY <1>1, <1>3, <1>8, <1>9, ToldKeeps
<1>11. Shapes'
  BY <1>1, <1>2, <1>3, <1>6, HearShape
<1> QED BY <1>10, <1>11 DEF KnownInv

\* Everybody with an avatar in the room hears who has gone, of the room it
\* was in (LeaveRoom, KickAvatar).
LEMMA LeftKnown ==
    ASSUME MembershipInv, NEW r \in rooms, NEW a \in Avatar,
           LeaveRoom(r, a), TellLeft(r, a), IdentityInv'
    PROVE  KnownInv'
<1> DEFINE M == r.members \ {a}
           s == [r EXCEPT !.members = M]
           H == Reached(LeaveAudience(r))
<1>1. /\ IdentityInv /\ RouteInv /\ Shapes /\ nextRoomId <= MaxRoomId
      /\ OwnPairs /\ SyncedPairs /\ hello \subseteq Server
  BY DEF MembershipInv, KnownInv, Shapes, RouteInv, GatewayTypeOK
<1>2. /\ r.id \in RoomId /\ r.members \subseteq Avatar
      /\ \A g : Keeper(g, r.id) <=> g \in Connected(r)
  BY <1>1, RoomIds, InsideIsMembers
<1>3. /\ Update(r, s) /\ nextRoomId' = nextRoomId
      /\ Hear(H, {}, {<<r.id, a>>}) /\ KeepSynced(synced)
      /\ hello' = hello /\ untold' = untold
  BY DEF LeaveRoom, TellLeft, gatewayVars
<1>4. \A i \in RoomId, b \in Avatar :
         <<i, b>> \in Inside' <=> (i = r.id /\ b \in M) \/ (i # r.id /\ <<i, b>> \in Inside)
  <2>1. M \in SUBSET Avatar
    BY <1>2
  <2> HIDE DEF M
  <2> QED BY <1>1, <1>3, <2>1, UpdatedInside
<1>5. ASSUME NEW g \in hello, Keeper(g, r.id) PROVE g \in H
  BY <1>1, <1>2, <1>5, HelloReached DEF LeaveAudience
<1>6. /\ \A g \in Server : view'[g] = IF g \in H THEN (view[g] \ {<<r.id, a>>}) \cup {} ELSE view[g]
      /\ nextRoomId' <= MaxRoomId
  BY <1>1, <1>3 DEF Hear
<1>7. \A b \in Avatar : <<r.id, b>> \in Inside <=> b \in r.members
  BY <1>1, InsideIsMembers
<1> HIDE DEF H, s
<1>8. ASSUME NEW g \in hello, NEW i \in RoomId, NEW b \in Avatar,
             AddressOf[b] = g \/ Keeper(g, i)
      PROVE  Told(g, i, b)
  <2>1. g \in Server
    BY <1>1
  <2>2. CASE i = r.id /\ b = a
    <3>1. CASE g \in H
      BY <1>4, <1>6, <2>1, <2>2, <3>1 DEF Told
    <3>2. CASE g \notin H
      <4>1. ~Keeper(g, r.id) /\ <<r.id, a>> \notin Inside
        BY <1>5, <1>8, <2>2, <3>2 DEF Keeper
      <4> QED BY <1>4, <1>6, <2>1, <2>2, <3>2, <4>1 DEF Told
    <3> QED BY <3>1, <3>2
  <2>3. CASE i # r.id \/ b # a
    BY <1>4, <1>6, <1>7, <2>1, <2>3 DEF Told
  <2> QED BY <2>2, <2>3
<1>9. \A g \in Server, i \in RoomId :
         <<g, i>> \in synced' => <<g, i>> \in synced /\ Keeper(g, i)'
  <2>1. \A q \in rooms' : q.members \subseteq Avatar
    BY DEF IdentityInv, RoomsInv, Room
  <2> QED BY <1>3, <2>1, SyncedKept
<1>10. OwnPairs' /\ SyncedPairs'
  BY <1>1, <1>3, <1>8, <1>9, ToldKeeps
<1>11. Shapes'
  BY <1>1, <1>3, <1>6, HearShape
<1> QED BY <1>10, <1>11 DEF KnownInv

\* The members of the rooms without a, room by room.
LEMMA LoggedOutInside ==
    ASSUME IdentityInv, nextRoomId <= MaxRoomId, NEW a \in Avatar, LogoutAvatar(a)
    PROVE  \A i \in RoomId, b \in Avatar :
              <<i, b>> \in Inside' <=> b # a /\ <<i, b>> \in Inside
<1> DEFINE Out(r) == [r EXCEPT !.members = r.members \ {a}]
<1>1. rooms' = {Out(r) : r \in rooms}
  BY DEF LogoutAvatar
<1>2. ASSUME NEW r \in rooms
      PROVE  Out(r).id = r.id /\ Out(r).members = r.members \ {a}
  <2>1. r \in Room /\ r.members \ {a} \in SUBSET Avatar
    BY DEF IdentityInv, RoomsInv, Room
  <2> QED BY <2>1, PeopleChange DEF SameRoom
<1> HIDE DEF Out
<1> SUFFICES ASSUME NEW i \in RoomId, NEW b \in Avatar
             PROVE  <<i, b>> \in Inside' <=> b # a /\ <<i, b>> \in Inside
  OBVIOUS
<1>3. <<i, b>> \in Inside' <=> \E q \in rooms' : q.id = i /\ b \in q.members
  BY DEF Inside
<1>4. <<i, b>> \in Inside <=> \E q \in rooms : q.id = i /\ b \in q.members
  BY DEF Inside
<1>5. (\E q \in rooms' : q.id = i /\ b \in q.members)
         <=> \E r \in rooms : Out(r).id = i /\ b \in Out(r).members
  BY <1>1
<1>6. (\E r \in rooms : Out(r).id = i /\ b \in Out(r).members)
         <=> \E r \in rooms : r.id = i /\ b \in r.members /\ b # a
  BY <1>2
<1> QED BY <1>3, <1>4, <1>5, <1>6

\* A logout is a departure from each room the avatar is in (LogoutAvatar).
LEMMA LogoutKnown ==
    ASSUME MembershipInv, NEW a \in Avatar, Logout(a), IdentityInv'
    PROVE  KnownInv'
<1> DEFINE Gone(g) == {<<r.id, a>> : r \in {q \in rooms :
                          a \in q.members /\ g \in Reached(LeaveAudience(q))}}
<1>1. /\ IdentityInv /\ RouteInv /\ Shapes /\ nextRoomId <= MaxRoomId
      /\ OwnPairs /\ SyncedPairs /\ hello \subseteq Server
  BY DEF MembershipInv, KnownInv, Shapes, RouteInv, GatewayTypeOK
<1>2. /\ LogoutAvatar(a) /\ nextRoomId' = nextRoomId
      /\ view' = [g \in Server |-> view[g] \ Gone(g)]
      /\ KeepSynced(synced) /\ hello' = hello /\ untold' = untold
  BY DEF Logout, LogoutAvatar, gatewayVars
<1>3. \A i \in RoomId, b \in Avatar :
         <<i, b>> \in Inside' <=> b # a /\ <<i, b>> \in Inside
  BY <1>1, <1>2, LoggedOutInside
<1>4. ASSUME NEW g \in hello, NEW i \in RoomId, Keeper(g, i), <<i, a>> \in Inside
      PROVE  <<i, a>> \in Gone(g)
  <2>1. PICK q \in rooms : q.id = i /\ a \in q.members
    BY <1>4, InsideHasRoom
  <2>2. g \in Connected(q)
    BY <1>1, <1>4, <2>1, InsideIsMembers
  <2>3. g \in Reached(LeaveAudience(q))
    BY <1>1, <2>2, HelloReached DEF LeaveAudience
  <2> QED BY <2>1, <2>3
<1>5. \A g, i, b : <<i, b>> \in Gone(g) => b = a
  OBVIOUS
<1>6. ASSUME NEW g, NEW i, <<i, a>> \in Gone(g) PROVE <<i, a>> \in Inside
  <2>1. PICK q \in rooms : q.id = i /\ a \in q.members
    BY <1>6
  <2> QED BY <1>1, <2>1, InsideIsMembers
<1> HIDE DEF Gone
<1>7. ASSUME NEW g \in hello, NEW i \in RoomId, NEW b \in Avatar,
             AddressOf[b] = g \/ Keeper(g, i)
      PROVE  Told(g, i, b)
  <2>1. view'[g] = view[g] \ Gone(g)
    BY <1>1, <1>2
  <2>2. CASE b = a /\ <<i, a>> \in Inside
    <3>1. Keeper(g, i)
      BY <1>7, <2>2 DEF Keeper
    <3> QED BY <1>3, <1>4, <2>1, <2>2, <3>1 DEF Told
  <2>3. CASE b # a \/ <<i, a>> \notin Inside
    <3>1. <<i, b>> \notin Gone(g)
      BY <1>5, <1>6, <2>3
    <3> QED BY <1>3, <2>1, <2>3, <3>1 DEF Told
  <2> QED BY <2>2, <2>3
<1>8. \A g \in Server, i \in RoomId :
         <<g, i>> \in synced' => <<g, i>> \in synced /\ Keeper(g, i)'
  <2>1. \A q \in rooms' : q.members \subseteq Avatar
    BY DEF IdentityInv, RoomsInv, Room
  <2> QED BY <1>2, <2>1, SyncedKept
<1>9. OwnPairs' /\ SyncedPairs'
  BY <1>1, <1>2, <1>7, <1>8, ToldKeeps
<1>10. Shapes'
  BY <1>1, <1>2 DEF Shapes, RoomId
<1> QED BY <1>9, <1>10 DEF KnownInv

\* A new room is empty, so nobody has anything to hear (CreateRoom).
LEMMA CreateKnown ==
    ASSUME MembershipInv, NEW a \in Avatar, Create(a)
    PROVE  KnownInv'
<1>1. /\ IdentityInv /\ nextRoomId <= MaxRoomId /\ Shapes
      /\ OwnPairs /\ SyncedPairs /\ hello \subseteq Server
      /\ nextRoomId \in Nat
  BY DEF MembershipInv, KnownInv, Shapes, RouteInv, GatewayTypeOK, IdentityInv, RoomsInv
<1>2. UNCHANGED <<view, synced, untold, hello>>
  BY DEF Create, gatewayVars, viewVars
<1>3. PICK x \in RoomAddress, k \in AttributeSets :
         CreateTransientRoom(a, x, k) \/ CreatePersistentRoom(a, x, k)
  BY DEF Create
<1>4. PICK n : rooms' = rooms \cup {n} /\ n.members = {}
  <2>1. CASE CreateTransientRoom(a, x, k)
    <3>1. NewRoom(a, x, k, NoRow).members = {}
      BY DEF NewRoom
    <3> QED BY <2>1, <3>1 DEF CreateTransientRoom
  <2>2. CASE CreatePersistentRoom(a, x, k)
    <3>1. \A v : NewRoom(a, x, k, v).members = {}
      BY DEF NewRoom
    <3> QED BY <2>2, <3>1 DEF CreatePersistentRoom
  <2> QED BY <1>3, <2>1, <2>2
<1>5. Inside' = Inside
  BY <1>4 DEF Inside
<1>6. nextRoomId' <= MaxRoomId
  BY <1>1, <1>3, RoomsAssumption DEF CreateTransientRoom, CreatePersistentRoom
<1> QED BY <1>1, <1>2, <1>5, <1>6 DEF KnownInv, Shapes, OwnPairs, SyncedPairs, Keeper

\* What a server is told of members that are in is the case
\* (FailoverReLoginAvatar).
LEMMA ReLoginKnown ==
    ASSUME MembershipInv, NEW a \in Avatar, ReLogin(a)
    PROVE  KnownInv'
<1> DEFINE In(g) == {<<r.id, a>> : r \in {q \in rooms :
                        a \in q.members /\ g \in Reached(Connected(q))}}
<1>1. /\ IdentityInv /\ nextRoomId <= MaxRoomId /\ Shapes
      /\ OwnPairs /\ SyncedPairs /\ hello \subseteq Server
  BY DEF MembershipInv, KnownInv, Shapes, RouteInv, GatewayTypeOK
<1>2. /\ view' = [g \in Server |-> view[g] \cup In(g)]
      /\ UNCHANGED <<rooms, nextRoomId, hello, synced, untold>>
  BY DEF ReLogin, vars, gatewayVars
<1>3. \A g : In(g) \subseteq Inside
  <2> SUFFICES ASSUME NEW g, NEW p \in In(g) PROVE p \in Inside
    OBVIOUS
  <2>1. PICK q \in rooms : a \in q.members /\ p = <<q.id, a>>
    OBVIOUS
  <2> QED BY <1>1, <2>1, InsideIsMembers
<1> HIDE DEF In
<1>4. Inside' = Inside
  BY <1>2 DEF Inside
<1>5. \A g \in hello, i \in RoomId, b \in Avatar : Told(g, i, b)
  BY <1>1, <1>2, <1>3, <1>4 DEF Told
<1>6. \A g \in Server, i \in RoomId :
         <<g, i>> \in synced' => <<g, i>> \in synced /\ Keeper(g, i)'
  BY <1>1, <1>2, <1>4 DEF SyncedPairs, Keeper
<1>7. OwnPairs' /\ SyncedPairs'
  BY <1>1, <1>2, <1>5, <1>6, ToldKeeps
<1>8. Inside \subseteq RoomId \X Avatar
  BY DEF Inside
<1>9. Shapes'
  BY <1>1, <1>2, <1>3, <1>8 DEF Shapes, RoomId
<1> QED BY <1>7, <1>9 DEF KnownInv

\* Pairs about one room.
LEMMA RoomPairs ==
    ASSUME NEW j, NEW S
    PROVE  \A i, a : <<i, a>> \in {j} \X S <=> i = j /\ a \in S
OBVIOUS

\* The answer to GetRoom names the members.
LEMMA AskKnown ==
    ASSUME MembershipInv, NEW g \in Server, NEW r \in rooms, Ask(g, r)
    PROVE  KnownInv'
<1>1. /\ IdentityInv /\ nextRoomId <= MaxRoomId /\ Shapes
      /\ OwnPairs /\ SyncedPairs /\ hello \subseteq Server
  BY DEF MembershipInv, KnownInv, Shapes, RouteInv, GatewayTypeOK
<1>2. /\ Hear({g}, {r.id} \X r.members, About(r))
      /\ synced' = synced \cup (({g} \cap Connected(r)) \X {r.id})
      /\ UNCHANGED <<rooms, nextRoomId, hello, untold>>
  BY DEF Ask, vars, gatewayVars
<1>3. Inside' = Inside
  BY <1>2 DEF Inside
<1>4. /\ r.id \in RoomId /\ r.members \subseteq Avatar
      /\ \A a \in Avatar : <<r.id, a>> \in Inside <=> a \in r.members
      /\ \A h : Keeper(h, r.id) <=> h \in Connected(r)
  BY <1>1, RoomIds, InsideIsMembers
<1>5. \A h \in Server : view'[h] =
         IF h = g THEN (view[h] \ ({r.id} \X Avatar)) \cup ({r.id} \X r.members) ELSE view[h]
  BY <1>2 DEF Hear, About
<1>6. \A a \in Avatar : <<r.id, a>> \in view'[g] <=> <<r.id, a>> \in Inside
  <2> SUFFICES ASSUME NEW a \in Avatar
               PROVE  <<r.id, a>> \in view'[g] <=> <<r.id, a>> \in Inside
    OBVIOUS
  <2>1. <<r.id, a>> \in {r.id} \X Avatar /\ (<<r.id, a>> \in {r.id} \X r.members <=> a \in r.members)
    BY RoomPairs
  <2>2. view'[g] = (view[g] \ ({r.id} \X Avatar)) \cup ({r.id} \X r.members)
    BY <1>5
  <2>3. <<r.id, a>> \in view'[g] <=> a \in r.members
    BY <2>1, <2>2, Zenon
  <2> QED BY <1>4, <2>3
<1>7. ASSUME NEW h \in Server, NEW i \in RoomId, NEW a \in Avatar, h # g \/ i # r.id
      PROVE  <<i, a>> \in view'[h] <=> <<i, a>> \in view[h]
  <2>1. CASE h # g
    BY <1>5, <2>1
  <2>2. CASE h = g /\ i # r.id
    <3>1. <<i, a>> \notin {r.id} \X Avatar /\ <<i, a>> \notin {r.id} \X r.members
      BY <2>2, RoomPairs
    <3>2. view'[h] = (view[h] \ ({r.id} \X Avatar)) \cup ({r.id} \X r.members)
      BY <1>5, <2>2
    <3> QED BY <3>1, <3>2, Zenon
  <2> QED BY <1>7, <2>1, <2>2
<1>8. OwnPairs'
  <2> SUFFICES ASSUME NEW h \in hello, NEW i \in RoomId, NEW a \in Avatar, AddressOf[a] = h
               PROVE  /\ <<i, a>> \in Inside => <<i, a>> \in view'[h]
                      /\ <<i, a>> \in view'[h] => <<i, a>> \in Inside \/ <<h, i>> \in untold
    BY <1>2, <1>3 DEF OwnPairs, RoomId
  <2> QED BY <1>1, <1>6, <1>7 DEF OwnPairs
<1>9. SyncedPairs'
  <2> SUFFICES ASSUME NEW h \in Server, NEW i \in RoomId, <<h, i>> \in synced'
               PROVE  /\ Keeper(h, i)
                      /\ h \in hello => \A a \in Avatar :
                            <<i, a>> \in view'[h] <=> <<i, a>> \in Inside
    BY <1>2, <1>3 DEF SyncedPairs, RoomId, Keeper
  <2>1. CASE h = g /\ i = r.id
    <3>1. Keeper(h, i)
      <4>1. CASE <<h, i>> \in synced
        BY <1>1, <4>1 DEF SyncedPairs
      <4>2. CASE <<h, i>> \notin synced
        BY <1>2, <1>4, <2>1, <4>2
      <4> QED BY <4>1, <4>2
    <3> QED BY <1>6, <2>1, <3>1
  <2>2. CASE h # g \/ i # r.id
    <3>1. <<h, i>> \in synced
      BY <1>2, <2>2
    <3> QED BY <1>1, <1>7, <2>2, <3>1 DEF SyncedPairs
  <2> QED BY <2>1, <2>2
<1>10. Shapes'
  <2>1. {r.id} \X r.members \subseteq RoomId \X Avatar
    BY <1>4
  <2> QED BY <1>1, <1>2, <2>1, HearShape
<1> QED BY <1>8, <1>9, <1>10 DEF KnownInv

\* The members of the rooms when one is gone.
LEMMA DestroyedInside ==
    ASSUME NEW r, rooms' = {s \in rooms : s.id # r.id},
           NEW i \in RoomId, NEW a \in Avatar
    PROVE  <<i, a>> \in Inside' <=> i # r.id /\ <<i, a>> \in Inside
BY DEF Inside

\* Those with an avatar in the destroyed room hear of it, or asked for it, or
\* are at the creator's address and are remembered as untold (DestroyRoom,
\* GetRemoteAddresses).
LEMMA DestroyKnown ==
    ASSUME MembershipInv, NEW r \in rooms, NEW d \in Avatar, Destroy(r, d), IdentityInv'
    PROVE  KnownInv'
<1> DEFINE H == Reached(Remote(r)) \cup {AddressOf[d]}
<1>1. /\ IdentityInv /\ RouteInv /\ Shapes /\ nextRoomId <= MaxRoomId
      /\ OwnPairs /\ SyncedPairs /\ hello \subseteq Server
  BY DEF MembershipInv, KnownInv, Shapes, RouteInv, GatewayTypeOK
<1>2. /\ DestroyRoom(r) /\ KeepSynced(synced)
      /\ hello' = hello /\ nextRoomId' = nextRoomId
  BY DEF Destroy, DestroyRoom, gatewayVars
<1>3. \A g \in Server, i \in RoomId :
         <<g, i>> \in synced' => <<g, i>> \in synced /\ Keeper(g, i)'
  <2>1. \A q \in rooms' : q.members \subseteq Avatar
    BY DEF IdentityInv, RoomsInv, Room
  <2> QED BY <1>2, <2>1, SyncedKept
<1>4. CASE result' # "SUCCESS"
  <2>1. rooms' = rooms /\ UNCHANGED <<view, untold>>
    BY <1>2, <1>4 DEF Destroy, DestroyRoom
  <2>2. Inside' = Inside
    BY <2>1 DEF Inside
  <2>3. \A g \in hello, i \in RoomId, a \in Avatar : Told(g, i, a)
    BY <2>1, <2>2 DEF Told
  <2>4. OwnPairs' /\ SyncedPairs'
    BY <1>1, <1>2, <1>3, <2>1, <2>3, ToldKeeps
  <2> QED BY <1>1, <1>2, <2>1, <2>4 DEF KnownInv, Shapes
<1>5. CASE result' = "SUCCESS"
  <2>1. /\ rooms' = {s \in rooms : s.id # r.id}
        /\ Hear(H, {}, About(r))
        /\ untold' = untold \cup Believed({AddressOf[r.creator]} \ {AddressOf[d]}, {r.id})
    BY <1>2, <1>5 DEF Destroy, DestroyRoom
  <2>2. \A i \in RoomId, a \in Avatar :
           <<i, a>> \in Inside' <=> i # r.id /\ <<i, a>> \in Inside
    BY <2>1, DestroyedInside
  <2>3. \A g \in Server : view'[g] =
           IF g \in H THEN (view[g] \ ({r.id} \X Avatar)) \cup {} ELSE view[g]
    BY <2>1 DEF Hear, About
  <2>4. ASSUME NEW g \in hello, g \notin H, g \in Connected(r),
               NEW a \in Avatar, <<r.id, a>> \in view[g]
        PROVE  <<g, r.id>> \in untold'
    <3>1. g \notin Remote(r)
      BY <1>1, <2>4, HelloReached
    <3>2. g = AddressOf[r.creator] /\ g # AddressOf[d]
      BY <2>4, <3>1 DEF Remote
    <3>3. <<g, r.id>> \in Believed({AddressOf[r.creator]} \ {AddressOf[d]}, {r.id})
      BY <2>4, <3>2 DEF Believed
    <3> QED BY <2>1, <3>3
  <2> HIDE DEF H
  <2>5. OwnPairs'
    <3> SUFFICES ASSUME NEW g \in hello, NEW i \in RoomId, NEW a \in Avatar, AddressOf[a] = g
                 PROVE  /\ <<i, a>> \in Inside' => <<i, a>> \in view'[g]
                        /\ <<i, a>> \in view'[g] => <<i, a>> \in Inside' \/ <<g, i>> \in untold'
      BY <1>2 DEF OwnPairs, RoomId
    <3>1. /\ <<i, a>> \in Inside => <<i, a>> \in view[g]
          /\ <<i, a>> \in view[g] => <<i, a>> \in Inside \/ <<g, i>> \in untold
      BY <1>1 DEF OwnPairs
    <3>2. untold \subseteq untold' /\ g \in Server
      BY <1>1, <2>1
    <3>3. CASE i # r.id
      BY <2>2, <2>3, <3>1, <3>2, <3>3
    <3>4. CASE i = r.id
      <4>1. <<i, a>> \in view'[g] => g \notin H /\ <<i, a>> \in view[g]
        <5>1. <<i, a>> \in {r.id} \X Avatar
          BY <3>4, RoomPairs
        <5> QED BY <2>3, <3>2, <5>1, Zenon
      <4>2. <<i, a>> \in Inside => g \in Connected(r)
        <5>1. <<i, a>> \in Inside => Keeper(g, r.id)
          BY <3>4 DEF Keeper
        <5> QED BY <1>1, <5>1, InsideIsMembers
      <4> QED BY <2>2, <2>4, <3>1, <3>2, <3>4, <4>1, <4>2
    <3> QED BY <3>3, <3>4
  <2>6. SyncedPairs'
    <3> SUFFICES ASSUME NEW g \in Server, NEW i \in RoomId, <<g, i>> \in synced'
                 PROVE  /\ Keeper(g, i)'
                        /\ g \in hello => \A a \in Avatar :
                              <<i, a>> \in view'[g] <=> <<i, a>> \in Inside'
      BY <1>2 DEF SyncedPairs, RoomId
    <3>1. <<g, i>> \in synced /\ Keeper(g, i)'
      BY <1>3
    <3>2. i # r.id
      BY <2>2, <3>1 DEF Keeper
    <3>3. g \in hello => \A a \in Avatar : <<i, a>> \in view[g] <=> <<i, a>> \in Inside
      BY <1>1, <3>1 DEF SyncedPairs
    <3> QED BY <2>2, <2>3, <3>1, <3>2, <3>3
  <2>7. Shapes'
    BY <1>1, <1>2, <2>1, HearShape
  <2> QED BY <2>5, <2>6, <2>7 DEF KnownInv
<1> QED BY <1>4, <1>5

\* After SYSTEM's login no room has a member, and every belief of a room that
\* was is remembered as untold (LoadRoomsFromStorage).
LEMMA LoginSystemKnown ==
    ASSUME MembershipInv, NEW h \in Server, LoginSystem(h), IdentityInv'
    PROVE  KnownInv'
<1>1. /\ IdentityInv /\ nextRoomId <= MaxRoomId /\ Shapes
      /\ OwnPairs /\ hello \subseteq Server
  BY DEF MembershipInv, KnownInv, Shapes, RouteInv, GatewayTypeOK
<1>2. /\ LoadRoomsFromStorage(h) \/ LoadRoomsFails(h)
      /\ KeepSynced(synced) /\ hello' = hello \cup {h} /\ view' = view
      /\ untold' = untold \cup Believed(Server, {r.id : r \in rooms})
                          \cup Believed({h}, RoomId)
  BY DEF LoginSystem, RegisterClientAddress, RoomId
<1>3. \A q \in rooms' : q.members = {}
  BY <1>2 DEF LoadRoomsFromStorage, LoadRoomsFails, LoadedRoom
<1>4. Inside' = {}
  BY <1>3 DEF Inside
<1>5. nextRoomId' <= MaxRoomId
  BY <1>1, <1>2 DEF LoadRoomsFromStorage, LoadRoomsFails
<1>6. OwnPairs'
  <2> SUFFICES ASSUME NEW g \in hello', NEW i \in RoomId, NEW a \in Avatar,
                      AddressOf[a] = g, <<i, a>> \in view[g]
               PROVE  <<g, i>> \in untold'
    BY <1>2, <1>4 DEF OwnPairs, RoomId
  <2>1. CASE g = h
    <3>1. <<g, i>> \in Believed({h}, RoomId)
      BY <2>1 DEF Believed
    <3> QED BY <1>2, <3>1
  <2>2. CASE g \in hello /\ <<i, a>> \in Inside
    <3>1. PICK r \in rooms : r.id = i
      BY <2>2, InsideHasRoom
    <3>2. <<g, i>> \in Believed(Server, {q.id : q \in rooms})
      BY <1>1, <2>2, <3>1 DEF Believed
    <3> QED BY <1>2, <3>2
  <2>3. CASE g \in hello /\ <<i, a>> \notin Inside
    BY <1>1, <1>2, <2>3 DEF OwnPairs
  <2> QED BY <1>2, <2>1, <2>2, <2>3
<1>7. SyncedPairs'
  <2>1. ASSUME NEW g \in Server, NEW i \in RoomId, <<g, i>> \in synced' PROVE FALSE
    <3>1. Keeper(g, i)'
      BY <1>2, <1>3, <2>1, SyncedKept
    <3> QED BY <1>4, <3>1 DEF Keeper
  <2> QED BY <2>1 DEF SyncedPairs, RoomId
<1>8. Shapes'
  BY <1>1, <1>2, <1>5 DEF Shapes
<1> QED BY <1>6, <1>7, <1>8 DEF KnownInv

\* Who is gone knows nothing (Node::Tick, OnConnectRequest).
LEMMA LoseKnown ==
    ASSUME MembershipInv, NEW h \in Server, Lose(h)
    PROVE  KnownInv'
<1>1. Shapes /\ OwnPairs /\ SyncedPairs
  BY DEF MembershipInv, KnownInv
<1>2. /\ hello' = hello \ {h} /\ view' = [view EXCEPT ![h] = {}]
      /\ synced' = synced \ ({h} \X RoomId) /\ untold' = untold \ ({h} \X RoomId)
      /\ UNCHANGED <<rooms, nextRoomId>>
  BY DEF Lose, Disconnect, vars, RoomId
<1>3. Inside' = Inside
  BY <1>2 DEF Inside
<1>4. \A g \in Server : g # h => view'[g] = view[g]
  BY <1>1, <1>2 DEF Shapes
<1>5. hello \subseteq Server
  BY DEF MembershipInv, RouteInv, GatewayTypeOK
<1>6. OwnPairs'
  BY <1>1, <1>2, <1>3, <1>4, <1>5 DEF OwnPairs, RoomId
<1>7. SyncedPairs'
  BY <1>1, <1>2, <1>3, <1>4 DEF SyncedPairs, Keeper, RoomId
<1>8. Shapes'
  BY <1>1, <1>2 DEF Shapes
<1> QED BY <1>6, <1>7, <1>8 DEF KnownInv

\* Nothing changes for the rooms or for those who know of them.
LEMMA NothingKnown ==
    ASSUME MembershipInv, UNCHANGED <<rooms, nextRoomId, hello, view, synced, untold>>
    PROVE  KnownInv'
<1>1. Inside' = Inside
  BY DEF Inside
<1>2. Shapes' /\ OwnPairs' /\ SyncedPairs'
  BY <1>1 DEF MembershipInv, KnownInv, Shapes, OwnPairs, SyncedPairs, Keeper
<1> QED BY <1>2 DEF KnownInv

\* The start of the process.
LEMMA InitKnown == MembershipInit => MembershipInv
<1> SUFFICES ASSUME MembershipInit PROVE MembershipInv
  OBVIOUS
<1>1. IdentityInv /\ RouteInv
  BY InitIdentity, InitRoutes DEF MembershipInit
<1>2. KnownInv
  BY RoomsAssumption DEF MembershipInit, Init, GatewayInit, KnownInv, Shapes, OwnPairs, SyncedPairs
<1> QED BY <1>1, <1>2 DEF MembershipInv

\* No step breaks the invariant.
LEMMA StepKeepsKnown == MembershipInv /\ [MembershipNext]_mvars => MembershipInv'
<1> SUFFICES ASSUME MembershipInv, [MembershipNext]_mvars PROVE MembershipInv'
  OBVIOUS
<1>1. IdentityInv'
  BY StepIsRoomsStep, NextKeepsIdentity DEF MembershipInv
<1>2. RouteInv'
  BY StepIsGatewayStep, StepKeepsRoutes DEF MembershipInv
<1>3. KnownInv'
  <2>1. ASSUME NEW a \in Avatar, Create(a) \/ Logout(a) \/ ReLogin(a) PROVE KnownInv'
    BY <1>1, <2>1, CreateKnown, LogoutKnown, ReLoginKnown
  <2>2. ASSUME NEW r \in rooms, NEW a \in Avatar, Enter(r, a) \/ Leave(r, a) \/ Destroy(r, a)
        PROVE  KnownInv'
    BY <1>1, <2>2, EnterKnown, LeftKnown, DestroyKnown DEF Leave
  <2>3. ASSUME NEW r \in rooms, NEW s \in Avatar, NEW a \in Avatar, Kick(r, s, a)
        PROVE  KnownInv'
    <3>1. LeaveRoom(r, a) /\ TellLeft(r, a)
      BY <2>3 DEF Kick, KickAvatar
    <3> QED BY <1>1, <3>1, LeftKnown
  <2>4. ASSUME NEW g \in Server, NEW r \in rooms, Ask(g, r) PROVE KnownInv'
    BY <2>4, AskKnown
  <2>5. ASSUME NEW g \in Server, LoginSystem(g) \/ Lose(g) PROVE KnownInv'
    BY <1>1, <2>5, LoginSystemKnown, LoseKnown
  <2>6. CASE Link
    <3>1. hello' = hello
      BY <2>6 DEF Link, LinkStep, Sweep, Connect
    <3> QED BY <2>6, <3>1, NothingKnown DEF Link, vars, viewVars
  <2>7. CASE Restart
    BY <2>7, RoomsAssumption
    DEF Restart, Crash, GatewayRestart, KnownInv, Shapes, OwnPairs, SyncedPairs
  <2>8. CASE UNCHANGED mvars
    BY <2>8, NothingKnown DEF mvars, vars, gatewayVars, viewVars
  <2> QED BY <2>1, <2>2, <2>3, <2>4, <2>5, <2>6, <2>7, <2>8 DEF MembershipNext
<1> QED BY <1>1, <1>2, <1>3 DEF MembershipInv

\* What every handler of rooms and connections keeps.
THEOREM MembershipInvariant == MembershipSpec => []MembershipInv
BY InitKnown, StepKeepsKnown, PTL DEF MembershipSpec

\* Of its own avatars a game server that logged SYSTEM in knows exactly the
\* rooms they are in, except rooms that went without a word
\* (GetConnectedAddresses, GetRemoteAddresses and the order of their calls).
THEOREM OwnMembersAlwaysKnown == MembershipSpec => []OwnMembersKnown
<1>1. MembershipInv => OwnMembersKnown
  <2> SUFFICES ASSUME MembershipInv, NEW g \in hello, NEW a \in Avatar, AddressOf[a] = g
               PROVE  /\ \A r \in rooms : a \in r.members => <<r.id, a>> \in view[g]
                      /\ \A p \in view[g] : p[2] = a /\ <<g, p[1]>> \notin untold =>
                            \E r \in rooms : r.id = p[1] /\ a \in r.members
    BY DEF OwnMembersKnown
  <2>1. IdentityInv /\ Shapes /\ nextRoomId <= MaxRoomId /\ OwnPairs /\ g \in Server
    BY DEF MembershipInv, KnownInv, Shapes, RouteInv, GatewayTypeOK
  <2>2. ASSUME NEW r \in rooms, a \in r.members PROVE <<r.id, a>> \in view[g]
    BY <2>1, <2>2, InsideIsMembers DEF OwnPairs
  <2>3. ASSUME NEW p \in view[g], p[2] = a, <<g, p[1]>> \notin untold
        PROVE  \E r \in rooms : r.id = p[1] /\ a \in r.members
    <3>1. p[1] \in RoomId /\ p = <<p[1], a>>
      BY <2>1, <2>3 DEF Shapes
    <3>2. <<p[1], a>> \in Inside
      BY <2>1, <2>3, <3>1 DEF OwnPairs
    <3> QED BY <3>2, InsideHasRoom
  <2> QED BY <2>2, <2>3
<1> QED BY <1>1, MembershipInvariant, PTL

\* A game server that asked for the members of a room while it had an avatar
\* there, and has had one since, knows the members (SendEnterRoomUpdate,
\* SendLeaveRoomUpdate, SendKickAvatarUpdate).
THEOREM SyncedMembersAlwaysKnown == MembershipSpec => []SyncedMembersKnown
<1>1. MembershipInv => SyncedMembersKnown
  <2> SUFFICES ASSUME MembershipInv, NEW r \in rooms, NEW g \in hello, <<g, r.id>> \in synced
               PROVE  view[g] \cap ({r.id} \X Avatar) = {r.id} \X r.members
    BY DEF SyncedMembersKnown, About
  <2>1. /\ IdentityInv /\ nextRoomId <= MaxRoomId /\ SyncedPairs /\ g \in Server
        /\ r.members \subseteq Avatar
    BY RoomIds DEF MembershipInv, KnownInv, Shapes, RouteInv, GatewayTypeOK
  <2>2. /\ r.id \in RoomId
        /\ \A a \in Avatar : <<r.id, a>> \in Inside <=> a \in r.members
    BY <2>1, InsideIsMembers
  <2>3. \A a \in Avatar : <<r.id, a>> \in view[g] <=> a \in r.members
    BY <2>1, <2>2 DEF SyncedPairs
  <2> QED BY <2>1, <2>3
<1> QED BY <1>1, MembershipInvariant, PTL
=============================================================================
