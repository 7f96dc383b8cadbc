----------------------------- MODULE AvatarCache -----------------------------
(***************************************************************************)
(* ChatAvatarService when one avatar may be asked for in several spellings.*)
(*                                                                         *)
(* A request names an avatar with UTF-16 strings.  The table stores them   *)
(* cut to a byte per character (FromWideString) and compares them by its   *)
(* collation, without regard to case; the cache compares the UTF-16        *)
(* strings exactly.  A name the cache does not have may therefore still    *)
(* find a row, and GetAvatar then makes a second object for the same       *)
(* avatar: avatarCache_ is a sequence of objects, of which lookups by id   *)
(* and by name find the first that fits.                                   *)
(*                                                                         *)
(* Module Avatars is about what happens when every avatar has one spelling *)
(* and statements may fail; here they succeed.  A spelling stands for a    *)
(* name and an address.                                                    *)
(***************************************************************************)
EXTENDS Naturals, Sequences, SequencesExt

CONSTANTS
    Spelling,   \* what requests call avatars
    Narrow,     \* Narrow[n]: n after FromWideString and ToWideString
    Same,       \* Same[n]: the representative of n under the collation
    MaxObjects  \* bound: objects in the cache

ASSUME SpellingAssumption ==
    /\ Narrow \in [Spelling -> Spelling]
    /\ Same \in [Spelling -> Spelling]
    /\ \A n \in Spelling : Narrow[Narrow[n]] = Narrow[n]
    /\ MaxObjects \in Nat

VARIABLES
    rows,    \* table avatar: rows[id] is the stored spelling
    dbList,  \* table friend: dbList[id] are the ids of its friends
    cache,   \* avatarCache_: objects with an id, a name, a list and the flag
    online,  \* onlineAvatars_: places in the cache
    left     \* history: ids that logged out and have not logged in since

vars == <<rows, dbList, cache, online, left>>

Id == 1..Len(rows)
Place == 1..Len(cache)

Object(id, name, list) == [id |-> id, name |-> name, list |-> list, flag |-> FALSE]

(***************************************************************************)
(* Finding and loading                                                     *)
(***************************************************************************)

\* The ids the SELECT by name finds: one or none, because of the UNIQUE key.
RowsOf(n) == {id \in Id : Same[rows[id]] = Same[Narrow[n]]}

NamedIn(c, n) == {i \in DOMAIN c : c[i].name = n}
WithIdIn(c, id) == {i \in DOMAIN c : c[i].id = id}

FirstOf(S) == CHOOSE i \in S : \A j \in S : i <= j

\* Wrong on purpose: lookups by id find the object made last.
ByIdNewest(c, id) == CHOOSE i \in WithIdIn(c, id) : \A j \in WithIdIn(c, id) : j <= i

\* GetCachedAvatar(avatarId), when there is one.
ById(c, id) == FirstOf(WithIdIn(c, id))

\* Wrong on purpose: the loaded object is called what the request called it.
LoadedNameAsked(id, n) == n

\* LoadStoredAvatar takes the name from the row, widened.
LoadedName(id, n) == rows[id]

\* The ids LoadFriendList asks for, directly or not, that have no object: the
\* least set that holds the missing friends of id and of its own members.
Missing(c, id) ==
    LET absent == {k \in Id : WithIdIn(c, k) = {} /\ k # id}
        closed(S) == \A k \in S \cup {id} : dbList[k] \cap absent \subseteq S
    IN {k \in absent : \A S \in SUBSET absent : closed(S) => k \in S}

\* The cache after an object for id was made under the name n and its
\* friends were loaded.
Load(c, id, n) ==
    c \o <<Object(id, LoadedName(id, n), dbList[id])>>
      \o SetToSeq({Object(k, LoadedName(k, rows[k]), dbList[k]) : k \in Missing(c, id)})

\* GetAvatar(avatarId), for an id that has a row.
AfterId(c, id) == IF WithIdIn(c, id) # {} THEN c ELSE Load(c, id, rows[id])

\* GetAvatar(name, address), for a name that has an object or a row.
AfterName(c, n) ==
    IF NamedIn(c, n) # {} THEN c ELSE Load(c, FirstOf(RowsOf(n)), n)

\* The object it returns: the one it found or the one it made.
ByName(c, n) == IF NamedIn(c, n) # {} THEN FirstOf(NamedIn(c, n)) ELSE Len(c) + 1

Known(n) == NamedIn(cache, n) # {} \/ RowsOf(n) # {}

Room(c) == Len(c) <= MaxObjects

(***************************************************************************)
(* Handlers                                                                *)
(***************************************************************************)

\* IsOnline: an object with this id is in onlineAvatars_.
Listed(c, i) == \E j \in ToSet(online) : c[j].id = c[i].id

\* ChatAvatarService::LoginAvatar of the object at place i.
GoOnline(c, i) ==
    /\ cache' = [c EXCEPT ![i].flag = TRUE]
    /\ online' = IF Listed(c, i) THEN online ELSE Append(online, i)

\* LoginAvatar of a name with an object or a row.
LoginKnown(n) ==
    /\ Known(n)
    /\ Room(AfterName(cache, n))
    /\ GoOnline(AfterName(cache, n), ByName(cache, n))
    /\ left' = left \ {cache'[ByName(cache, n)].id}
    /\ UNCHANGED <<rows, dbList>>

\* Wrong on purpose: the id is asked for before the INSERT.
NewIdEarly == Len(rows)

\* GetLastInsertId after the INSERT of CreateAvatar.
NewId == Len(rows) + 1

\* LoginAvatar of a new name: CreateAvatar stores the narrowed name, and the
\* object keeps the name of the request.
LoginNew(n) ==
    /\ ~Known(n)
    /\ Room(Append(cache, n))
    /\ rows' = Append(rows, Narrow[n])
    /\ dbList' = Append(dbList, {})
    /\ GoOnline(Append(cache, Object(NewId, n, {})), Len(cache) + 1)
    /\ UNCHANGED left

\* Wrong on purpose: remove_if without erase, which leaves the list as long
\* as it was.
WithoutUnerased(c, i) ==
    LET kept == SelectSeq(online, LAMBDA j : c[j].id # c[i].id)
    IN kept \o SubSeq(online, Len(kept) + 1, Len(online))

\* onlineAvatars_ without the objects of the avatar at place i: remove_if and
\* erase keep the others in their order.
Without(c, i) ==
    LET kept[k \in 0..Len(online)] ==
            IF k = 0 THEN <<>>
            ELSE IF c[online[k]].id = c[i].id THEN kept[k - 1]
            ELSE Append(kept[k - 1], online[k])
    IN kept[Len(online)]

\* LogoutAvatar: the flag tested is that of the first object with the id.
Logout(id) ==
    /\ Room(AfterId(cache, id))
    /\ LET c == AfterId(cache, id)
           i == ById(c, id)
       IN /\ cache' = [c EXCEPT ![i].flag = FALSE]
          /\ online' = IF c[i].flag THEN Without(c, i) ELSE online
    /\ left' = left \cup {id}
    /\ UNCHANGED <<rows, dbList>>

\* AddFriend: the source by id, the destination by name.
AddFriend(id, n) ==
    /\ Known(n)
    /\ LET c == AfterName(AfterId(cache, id), n)
           i == ById(c, id)
           friend == c[ByName(AfterId(cache, id), n)].id
       IN /\ Room(c)
          /\ cache' = [c EXCEPT ![i].list = @ \cup {friend}]
          /\ dbList' = IF friend \in c[i].list THEN dbList
                       ELSE [dbList EXCEPT ![id] = @ \cup {friend}]
    /\ UNCHANGED <<rows, online, left>>

\* RemoveFriend: likewise.
RemoveFriend(id, n) ==
    /\ Known(n)
    /\ LET c == AfterName(AfterId(cache, id), n)
           i == ById(c, id)
           friend == c[ByName(AfterId(cache, id), n)].id
       IN /\ Room(c)
          /\ cache' = [c EXCEPT ![i].list = @ \ {friend}]
          /\ dbList' = IF friend \in c[i].list THEN [dbList EXCEPT ![id] = @ \ {friend}]
                       ELSE dbList
    /\ UNCHANGED <<rows, online, left>>

\* GetAnyAvatar: a lookup by name.
GetAnyAvatar(n) ==
    /\ Known(n)
    /\ Room(AfterName(cache, n))
    /\ cache' = AfterName(cache, n)
    /\ UNCHANGED <<rows, dbList, online, left>>

\* SetAvatarAttributes with persistence: UpdateAvatar writes the object's name
\* back along with the attributes.
SetAvatarAttributes(id) ==
    /\ Room(AfterId(cache, id))
    /\ cache' = AfterId(cache, id)
    /\ rows' = [rows EXCEPT ![id] = Narrow[cache'[ById(cache', id)].name]]
    /\ UNCHANGED <<dbList, online, left>>

\* The process ends and starts again.
Crash ==
    /\ cache' = <<>>
    /\ online' = <<>>
    /\ left' = {}
    /\ UNCHANGED <<rows, dbList>>

Init ==
    /\ rows = <<>>
    /\ dbList = <<>>
    /\ cache = <<>>
    /\ online = <<>>
    /\ left = {}

Next ==
    \/ \E n \in Spelling : LoginKnown(n) \/ LoginNew(n) \/ GetAnyAvatar(n)
    \/ \E id \in Id : Logout(id) \/ SetAvatarAttributes(id)
    \/ \E id \in Id, n \in Spelling : AddFriend(id, n) \/ RemoveFriend(id, n)
    \/ Crash

Spec == Init /\ [][Next]_vars

(***************************************************************************)
(* Properties                                                              *)
(***************************************************************************)

\* A lookup that the cache answers names the avatar the table would name, in
\* whatever spelling its objects were made and found (GetCachedAvatar by name,
\* CreateAvatar, LoadStoredAvatar).
CacheTransparent ==
    \A n \in Spelling :
        NamedIn(cache, n) # {} => RowsOf(n) = {cache[FirstOf(NamedIn(cache, n))].id}

\* Of several objects for one avatar the one made first has the stored friend
\* list; the lists of the others may be as old as their objects.
FirstObjectAgrees ==
    \A i \in Place :
        (\A j \in 1..(i - 1) : cache[j].id # cache[i].id)
            => cache[i].list = dbList[cache[i].id]

\* Writing an object back never renames its row, under whatever name the
\* object was asked for (UpdateAvatar writes name and address as well).
NamesKept == [][\A id \in Id : rows'[id] = rows[id]]_vars

\* An avatar that logged out is off the list ("logout removes all matching
\* online avatars", EraseRemoveIfRegression_Tests.cpp:273), unless it has two
\* objects: LogoutAvatar returns early when the flag of the first is off, and
\* does not look at the list.
LoggedOutLeft ==
    \A i \in ToSet(online) :
        cache[i].id \in left => \E j \in Place : j # i /\ cache[j].id = cache[i].id
=============================================================================
