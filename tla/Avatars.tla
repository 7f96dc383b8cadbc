------------------------------- MODULE Avatars -------------------------------
(***************************************************************************)
(* ChatAvatarService and ChatAvatar: the avatars known to the chat server, *)
(* their friend and ignore lists, and who is online.                       *)
(*                                                                         *)
(* The truth is kept twice.  The MariaDB tables avatar, friend and ignore  *)
(* survive the process; the cache avatarCache_ holds, for the avatars      *)
(* touched since the process started, an object with the lists and the     *)
(* attributes.  A friend list is a vector of raw ChatAvatar pointers, so   *)
(* loading an avatar loads everyone on its lists, everyone on theirs, and  *)
(* so on.  Nothing ever leaves the cache: RemoveCachedAvatar is only       *)
(* called by DestroyAvatar, which GatewayClient::OnIncoming never          *)
(* dispatches.                                                             *)
(*                                                                         *)
(* The server is single threaded and each handler runs to completion, so   *)
(* a handler is one action; inside it each SQL statement may fail (module  *)
(* Outcomes), which throws out of the handler at that point and leaves     *)
(* what was done before it.  HandleIncomingMessage turns the exception     *)
(* into the result code.                                                   *)
(*                                                                         *)
(* An avatar is identified with its row: the table has UNIQUE(name,        *)
(* address), rows are never deleted, and each name has one spelling here.  *)
(* An id no row has is an avatar outside the table.                        *)
(***************************************************************************)
EXTENDS Outcomes, FiniteSets

CONSTANTS
    Avatar,     \* every (name, address) a client may ask for
    Attribute,  \* values of the attributes word
    MaxFaults   \* bound: failed statements in one behaviour

ASSUME AvatarsAssumption ==
    /\ Attribute # {}  \* some value is there to start from
    /\ MaxFaults \in Nat

VARIABLES
    row,        \* table avatar: the avatars that have a row
    dbFriend,   \* table friend: dbFriend[a] are the friend_avatar_id of a
    dbIgnore,   \* table ignore
    dbAttr,     \* column avatar.attributes
    cached,     \* avatarCache_
    friends,    \* friendList_ of each cached object
    ignores,    \* ignoreList_ of each cached object
    attr,       \* attributes_ of each cached object
    flag,       \* the objects with isOnline_ = true
    online,     \* onlineAvatars_
    result,     \* result code of the last answer
    dirty,      \* history: pairs of avatars a failed statement was about
    transient,  \* history: avatars whose attributes_ were changed without
                \*   a successful UPDATE
    faults      \* failed statements so far

store   == <<row, dbFriend, dbIgnore, dbAttr>>
memory  == <<cached, friends, ignores, attr, flag, online>>
history == <<dirty, transient, faults>>
vars    == <<row, dbFriend, dbIgnore, dbAttr, cached, friends, ignores, attr,
             flag, online, result, dirty, transient, faults>>

Success          == "SUCCESS"
SrcDoesntExist   == "SRCAVATARDOESNTEXIST"
DestDoesntExist  == "DESTAVATARDOESNTEXIST"
Database         == "DATABASE"
NoAnswer         == "NONE"

ResultCode == {Success, SrcDoesntExist, DestDoesntExist, Database, NoAnswer}

MayFail == faults < MaxFaults

Answer(ok) == IF ok THEN Success ELSE Database

(***************************************************************************)
(* The statements on the tables friend and ignore.                         *)
(***************************************************************************)

\* Wrong on purpose: the contact is stored nowhere.
StoreRowForgotten(goOn, old, b) == {NotNeeded(old)}

\* PersistFriend and PersistIgnore, reached unless an earlier statement threw.
StoreRow(goOn, old, b) == IF goOn THEN Insert(old, b, MayFail) ELSE {NotRun(old)}

\* Wrong on purpose: the contact is only taken out of the object's list.
DropRowForgotten(list, old, b) == {NotNeeded(old)}

\* RemoveFriend and RemoveIgnore of ChatAvatarService, called when the list
\* of the object held the contact.
DropRow(list, old, b) == IF b \in list THEN Delete(old, b, MayFail) ELSE {NotNeeded(old)}

(***************************************************************************)
(* GetAvatar                                                               *)
(***************************************************************************)

\* The avatars LoadFriendList and LoadIgnoreList of a ask GetAvatar for.
Contacts(a) == dbFriend[a] \cup dbIgnore[a]

\* Wrong on purpose: the contacts of a loaded avatar are not loaded.
LoadClosedShallow(S, X) == (X \cap row) \ cached \subseteq S

\* A set GetAvatar may stop at: it holds the stored avatars asked for that
\* are not cached and, with each of its members, the uncached contacts.
LoadClosed(S, X) ==
    /\ (X \cap row) \ cached \subseteq S
    /\ \A a \in S : Contacts(a) \ cached \subseteq S

\* The objects that GetAvatar(x), for every x in X, adds to the cache.  The
\* recursion GetAvatar -> LoadFriendList -> GetAvatar ends because an object
\* enters the cache before its lists are read; what it adds is the least
\* closed set.
Fetch(X) ==
    {a \in row \ cached :
        \A S \in SUBSET (row \ cached) : LoadClosed(S, X) => a \in S}

\* Lists and attributes of the cached objects after those loads.
FriendsAfter(X) == [a \in Avatar |-> IF a \in Fetch(X) THEN dbFriend[a] ELSE friends[a]]
IgnoresAfter(X) == [a \in Avatar |-> IF a \in Fetch(X) THEN dbIgnore[a] ELSE ignores[a]]

\* Wrong on purpose: LoadStoredAvatar does not read the attributes column.
AttrAfterForgotten(X) == attr

\* Attributes of the cached objects after those loads.
AttrAfter(X) == [a \in Avatar |-> IF a \in Fetch(X) THEN dbAttr[a] ELSE attr[a]]

\* The loads of X succeed and the handler changes none of the lists.
GetAvatar(X) ==
    /\ cached' = cached \cup Fetch(X)
    /\ friends' = FriendsAfter(X)
    /\ ignores' = IgnoresAfter(X)
    /\ attr' = AttrAfter(X)

(***************************************************************************)
(* A SELECT fails while the lookups of a handler run (at most two, for the *)
(* source and the destination).  The object of an avatar is put into the   *)
(* cache first and its lists are filled row by row, each row after the     *)
(* contact itself was loaded, so what stays behind is a set S of new       *)
(* objects with partly filled lists that point to cached objects.          *)
(***************************************************************************)
LoadFails(X) ==
    /\ MayFail
    /\ ~(X \subseteq cached)
    /\ result' = Database
    /\ faults' = faults + 1
    /\ \E S \in SUBSET Fetch(X) :
       \E f \in [S -> SUBSET (cached \cup S)], g \in [S -> SUBSET (cached \cup S)] :
          /\ \A a \in S : f[a] \subseteq dbFriend[a] /\ g[a] \subseteq dbIgnore[a]
          /\ cached' = cached \cup S
          /\ friends' = [a \in Avatar |-> IF a \in S THEN f[a] ELSE friends[a]]
          /\ ignores' = [a \in Avatar |-> IF a \in S THEN g[a] ELSE ignores[a]]
          /\ attr' = [a \in Avatar |-> IF a \in S THEN dbAttr[a] ELSE attr[a]]
          /\ dirty' = dirty \cup (S \X Avatar)
    /\ UNCHANGED <<store, flag, online, transient>>

(***************************************************************************)
(* Sessions                                                                *)
(***************************************************************************)

\* ChatAvatarService::LoginAvatar: the flag is set in any case, the list is
\* searched so that an avatar is never listed twice.
GoOnline(a) ==
    /\ flag' = flag \cup {a}
    /\ online' = online \cup {a}

\* Wrong on purpose: only the flag is cleared.
GoOfflineFlagOnly(a) ==
    /\ flag' = flag \ {a}
    /\ online' = online

\* ChatAvatarService::LogoutAvatar: an object whose flag is off is left alone.
GoOffline(a) ==
    /\ flag' = flag \ {a}
    /\ online' = IF a \in flag THEN online \ {a} ELSE online

\* LoginAvatar of an avatar that has a row.  FailoverReLoginAvatar does the
\* same to this state.  The attributes in the request are not used.  For
\* SYSTEM the rooms are loaded afterwards (module Rooms); if that fails, the
\* answer is DATABASE, and this state is as it would be.
LoginKnown(a) ==
    /\ a \in row
    /\ GetAvatar({a})
    /\ GoOnline(a)
    /\ result' = Success
    /\ UNCHANGED <<store, history>>

\* Wrong on purpose: the object is cached before the INSERT.
LoginNewCacheFirst(a, t) ==
    /\ a \notin row
    /\ \E ins \in Insert(row, a, MayFail) :
          /\ row' = ins.db
          /\ dbAttr' = IF a \in ins.db THEN [dbAttr EXCEPT ![a] = t] ELSE dbAttr
          /\ faults' = faults + ins.fault
          /\ result' = Answer(ins.ok)
          /\ IF ins.ok THEN GoOnline(a) ELSE UNCHANGED <<flag, online>>
    /\ cached' = cached \cup {a}
    /\ attr' = [attr EXCEPT ![a] = t]
    /\ UNCHANGED <<dbFriend, dbIgnore, friends, ignores, dirty, transient>>

\* LoginAvatar of an avatar without a row: CreateAvatar inserts it (that may
\* fail, with or without the row stored) and only then caches it.
LoginNew(a, t) ==
    /\ a \notin row
    /\ \E ins \in Insert(row, a, MayFail) :
          /\ row' = ins.db
          /\ dbAttr' = IF a \in ins.db THEN [dbAttr EXCEPT ![a] = t] ELSE dbAttr
          /\ faults' = faults + ins.fault
          /\ result' = Answer(ins.ok)
          /\ IF ins.ok
             THEN /\ cached' = cached \cup {a}
                  /\ attr' = [attr EXCEPT ![a] = t]
                  /\ GoOnline(a)
             ELSE UNCHANGED <<cached, attr, flag, online>>
    /\ UNCHANGED <<dbFriend, dbIgnore, friends, ignores, dirty, transient>>

\* LogoutAvatar of a known id.
LogoutAvatar(a) ==
    /\ a \in row
    /\ GetAvatar({a})
    /\ GoOffline(a)
    /\ result' = Success
    /\ UNCHANGED <<store, history>>

(***************************************************************************)
(* Friend and ignore lists                                                 *)
(***************************************************************************)

\* ChatAvatar::AddFriend of b to the cached object a.  Memory is changed
\* before the statement that stores the change: a statement that throws
\* leaves the object as it is at that point.
AddFriend(a, b) ==
    /\ {a, b} \subseteq row
    /\ cached' = cached \cup Fetch({a, b})
    /\ attr' = AttrAfter({a, b})
    /\ LET F == FriendsAfter({a, b})
           I == IgnoresAfter({a, b})
       IN IF b \in F[a]
          THEN /\ friends' = F
               /\ ignores' = I
               /\ result' = Success
               /\ UNCHANGED <<dbFriend, dbIgnore, dirty, faults>>
          ELSE \E del \in DropRow(I[a], dbIgnore[a], b) :
               \E ins \in StoreRow(del.ok, dbFriend[a], b) :
                  /\ ignores' = [I EXCEPT ![a] = @ \ {b}]
                  /\ friends' = IF del.ok THEN [F EXCEPT ![a] = @ \cup {b}] ELSE F
                  /\ dbIgnore' = [dbIgnore EXCEPT ![a] = del.db]
                  /\ dbFriend' = [dbFriend EXCEPT ![a] = ins.db]
                  /\ result' = Answer(ins.ok)
                  /\ dirty' = IF ins.ok THEN dirty ELSE dirty \cup {<<a, b>>}
                  /\ faults' = faults + del.fault + ins.fault
    /\ UNCHANGED <<row, dbAttr, flag, online, transient>>

\* ChatAvatar::AddIgnore, the same with the two lists exchanged.
AddIgnore(a, b) ==
    /\ {a, b} \subseteq row
    /\ cached' = cached \cup Fetch({a, b})
    /\ attr' = AttrAfter({a, b})
    /\ LET F == FriendsAfter({a, b})
           I == IgnoresAfter({a, b})
       IN IF b \in I[a]
          THEN /\ friends' = F
               /\ ignores' = I
               /\ result' = Success
               /\ UNCHANGED <<dbFriend, dbIgnore, dirty, faults>>
          ELSE \E del \in DropRow(F[a], dbFriend[a], b) :
               \E ins \in StoreRow(del.ok, dbIgnore[a], b) :
                  /\ friends' = [F EXCEPT ![a] = @ \ {b}]
                  /\ ignores' = IF del.ok THEN [I EXCEPT ![a] = @ \cup {b}] ELSE I
                  /\ dbFriend' = [dbFriend EXCEPT ![a] = del.db]
                  /\ dbIgnore' = [dbIgnore EXCEPT ![a] = ins.db]
                  /\ result' = Answer(ins.ok)
                  /\ dirty' = IF ins.ok THEN dirty ELSE dirty \cup {<<a, b>>}
                  /\ faults' = faults + del.fault + ins.fault
    /\ UNCHANGED <<row, dbAttr, flag, online, transient>>

\* ChatAvatar::RemoveFriend: the DELETE is only issued when the object's own
\* list held the contact.
RemoveFriend(a, b) ==
    /\ {a, b} \subseteq row
    /\ cached' = cached \cup Fetch({a, b})
    /\ attr' = AttrAfter({a, b})
    /\ ignores' = IgnoresAfter({a, b})
    /\ LET F == FriendsAfter({a, b})
       IN \E del \in DropRow(F[a], dbFriend[a], b) :
             /\ friends' = [F EXCEPT ![a] = @ \ {b}]
             /\ dbFriend' = [dbFriend EXCEPT ![a] = del.db]
             /\ result' = Answer(del.ok)
             /\ dirty' = IF del.ok THEN dirty ELSE dirty \cup {<<a, b>>}
             /\ faults' = faults + del.fault
    /\ UNCHANGED <<row, dbIgnore, dbAttr, flag, online, transient>>

\* ChatAvatar::RemoveIgnore.
RemoveIgnore(a, b) ==
    /\ {a, b} \subseteq row
    /\ cached' = cached \cup Fetch({a, b})
    /\ attr' = AttrAfter({a, b})
    /\ friends' = FriendsAfter({a, b})
    /\ LET I == IgnoresAfter({a, b})
       IN \E del \in DropRow(I[a], dbIgnore[a], b) :
             /\ ignores' = [I EXCEPT ![a] = @ \ {b}]
             /\ dbIgnore' = [dbIgnore EXCEPT ![a] = del.db]
             /\ result' = Answer(del.ok)
             /\ dirty' = IF del.ok THEN dirty ELSE dirty \cup {<<a, b>>}
             /\ faults' = faults + del.fault
    /\ UNCHANGED <<row, dbFriend, dbAttr, flag, online, transient>>

(***************************************************************************)
(* Lookups and attributes                                                  *)
(***************************************************************************)

\* GetAnyAvatar, FriendStatus and IgnoreStatus read one avatar.
GetAnyAvatar(a) ==
    /\ a \in row
    /\ GetAvatar({a})
    /\ result' = Success
    /\ UNCHANGED <<store, flag, online, history>>

\* The source of a request has no row.
NoSource(a) ==
    /\ a \notin row
    /\ result' = SrcDoesntExist
    /\ UNCHANGED <<store, memory, history>>

\* The destination of AddFriend, AddIgnore or RemoveFriend has no row: the
\* source was loaded before that was found out.
NoDestination(a, b) ==
    /\ a \in row
    /\ b \notin row
    /\ GetAvatar({a})
    /\ result' = DestDoesntExist
    /\ UNCHANGED <<store, flag, online, history>>

\* RemoveIgnore tests srcAvatar again where it means destAvatar.  With no
\* destination the null pointer reaches the search of the ignore list, which
\* dereferences it for each entry: nothing happens when the list is empty.
RemoveIgnoreNoDestination(a, b) ==
    /\ a \in row
    /\ b \notin row
    /\ IgnoresAfter({a})[a] = {}
    /\ GetAvatar({a})
    /\ result' = Success
    /\ UNCHANGED <<store, flag, online, history>>

\* PersistAvatar, if the request asks for it: one UPDATE of the row.
StoreAttributes(p, old, t) ==
    IF p THEN Execute(old, t, MayFail) ELSE {NotNeeded(old)}

\* SetAvatarAttributes with persistent = p.  Only a value that differs from
\* the object's is written, and then only if p.
SetAvatarAttributes(a, t, p) ==
    /\ a \in row
    /\ cached' = cached \cup Fetch({a})
    /\ friends' = FriendsAfter({a})
    /\ ignores' = IgnoresAfter({a})
    /\ attr' = [AttrAfter({a}) EXCEPT ![a] = t]
    /\ IF AttrAfter({a})[a] # t
       THEN \E upd \in StoreAttributes(p, dbAttr[a], t) :
               /\ dbAttr' = [dbAttr EXCEPT ![a] = upd.db]
               /\ result' = Answer(upd.ok)
               /\ transient' = IF p /\ upd.ok THEN transient \ {a}
                                              ELSE transient \cup {a}
               /\ faults' = faults + upd.fault
       ELSE /\ result' = Success
            /\ UNCHANGED <<dbAttr, transient, faults>>
    /\ UNCHANGED <<row, dbFriend, dbIgnore, flag, online, dirty>>

(***************************************************************************)
(* The process ends and systemd starts it again: the memory is lost.  It   *)
(* may be stopped or killed at any time, and two requests end it, both     *)
(* through a null pointer: LogoutAvatar of an unknown id, and RemoveIgnore *)
(* of an unknown avatar from a list that is not empty.  A process killed   *)
(* between two statements of a handler leaves the tables as a failed       *)
(* second statement does, so that case is a failing handler followed by    *)
(* Crash.                                                                  *)
(***************************************************************************)
Crash ==
    /\ cached' = {}
    /\ friends' = [a \in Avatar |-> {}]
    /\ ignores' = [a \in Avatar |-> {}]
    /\ attr' = [a \in Avatar |-> CHOOSE t \in Attribute : TRUE]
    /\ flag' = {}
    /\ online' = {}
    /\ transient' = {}
    /\ result' = NoAnswer
    /\ UNCHANGED <<store, dirty, faults>>

Init ==
    /\ row = {}
    /\ dbFriend = [a \in Avatar |-> {}]
    /\ dbIgnore = [a \in Avatar |-> {}]
    /\ dbAttr = [a \in Avatar |-> CHOOSE t \in Attribute : TRUE]
    /\ cached = {}
    /\ friends = [a \in Avatar |-> {}]
    /\ ignores = [a \in Avatar |-> {}]
    /\ attr = [a \in Avatar |-> CHOOSE t \in Attribute : TRUE]
    /\ flag = {}
    /\ online = {}
    /\ result = NoAnswer
    /\ dirty = {}
    /\ transient = {}
    /\ faults = 0

SessionStep(a) ==
    \/ LoginKnown(a)
    \/ \E t \in Attribute : LoginNew(a, t)
    \/ LogoutAvatar(a)
    \/ GetAnyAvatar(a)
    \/ NoSource(a)
    \/ \E t \in Attribute, p \in BOOLEAN : SetAvatarAttributes(a, t, p)

ContactStep(a, b) ==
    \/ AddFriend(a, b)
    \/ AddIgnore(a, b)
    \/ RemoveFriend(a, b)
    \/ RemoveIgnore(a, b)
    \/ NoDestination(a, b)
    \/ RemoveIgnoreNoDestination(a, b)
    \/ LoadFails({a, b})

Next ==
    \/ \E a \in Avatar : SessionStep(a)
    \/ \E a, b \in Avatar : ContactStep(a, b)
    \/ Crash

Spec == Init /\ [][Next]_vars

(***************************************************************************)
(* Properties                                                              *)
(***************************************************************************)

\* Every variable has its type; only avatars with a row are cached.
TypeOK ==
    /\ row \subseteq Avatar
    /\ dbFriend \in [Avatar -> SUBSET Avatar]
    /\ dbIgnore \in [Avatar -> SUBSET Avatar]
    /\ dbAttr \in [Avatar -> Attribute]
    /\ cached \subseteq row
    /\ friends \in [Avatar -> SUBSET Avatar]
    /\ ignores \in [Avatar -> SUBSET Avatar]
    /\ attr \in [Avatar -> Attribute]
    /\ flag \subseteq Avatar
    /\ online \subseteq Avatar
    /\ result \in ResultCode
    /\ dirty \subseteq Avatar \X Avatar
    /\ transient \subseteq Avatar
    /\ faults \in 0..MaxFaults

\* No list of a cached object points outside the cache, however the loads
\* that built it were interleaved with updates, failed half way or were
\* shared between avatars: the raw pointers in friendList_ and ignoreList_
\* are always good (GetAvatar, LoadFriendList, LoadIgnoreList).
ContactsCached ==
    \A a \in cached : friends[a] \cup ignores[a] \subseteq cached

\* The cache and the tables agree on every pair of avatars no statement ever
\* failed for: a list read from the cache is the list a restart would read.
\* (AddFriend, AddIgnore, RemoveFriend and RemoveIgnore write both.)
CleanPairsAgree ==
    \A a \in cached, b \in Avatar :
        <<a, b>> \notin dirty =>
            /\ b \in friends[a] <=> b \in dbFriend[a]
            /\ b \in ignores[a] <=> b \in dbIgnore[a]

\* Nobody is both a friend and ignored, in the tables, unless a statement
\* about the pair failed: AddFriend and AddIgnore take the other entry out.
ListsDisjoint ==
    \A a, b \in Avatar :
        <<a, b>> \notin dirty => ~(b \in dbFriend[a] /\ b \in dbIgnore[a])

\* The flag isOnline_ of the objects and the list onlineAvatars_ say the same
\* and the list points into the cache (LoginAvatar, LogoutAvatar, restart).
OnlineAgree ==
    /\ flag = online
    /\ online \subseteq cached

\* The attributes of an object are the stored ones unless they were set
\* without persistence, or the UPDATE failed, since they were last written.
AttributesAgree ==
    \A a \in cached \ transient : attr[a] = dbAttr[a]
=============================================================================
