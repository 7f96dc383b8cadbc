----------------------------- MODULE AvatarLoad -----------------------------
(***************************************************************************)
(* GetAvatar one statement and one row at a time.                          *)
(*                                                                         *)
(* Loading an avatar is a depth-first walk over stored contact lists:      *)
(* GetAvatar puts the object into the cache, LoadFriendList reads its rows *)
(* and calls GetAvatar for each before it appends the pointer, then        *)
(* LoadIgnoreList does the same.  The rows of a list are buffered by the   *)
(* first Step (mysql_store_result), so only the three SELECTs of an avatar *)
(* can fail; the exception unwinds the whole walk and leaves in the cache  *)
(* the objects made so far, those in the middle of it with partial lists.  *)
(*                                                                         *)
(* Module Avatars takes a handler with the walks of its one or two lookups *)
(* as a single step (Fetch, LoadFails).  Here the walk comes first, step   *)
(* by step, and the handler's own statements follow when it has ended.     *)
(* LoadSpec implements the specification of Avatars.                       *)
(***************************************************************************)
EXTENDS Avatars, Sequences, FiniteSetsExt

VARIABLES
    caller,  \* the avatars the running handler looks up, <<>> between handlers
    looked,  \* how many of these lookups have returned
    stack,   \* calls of GetAvatar(id) in progress, the last one on top
    before   \* history: the cached objects when the handler began

walk == <<caller, looked, stack, before>>
loadVars == <<vars, walk>>

\* A call of GetAvatar that has put its object into the cache, the list it
\* loads ("none" before LoadFriendList), and the rows of it not yet read.  The
\* row last read is the avatar of the frame above.
Frame == [avatar : Avatar, list : {"none", "friend", "ignore"}, rows : SUBSET Avatar]

Opened(a) == [avatar |-> a, list |-> "none", rows |-> {}]

Depth == Len(stack)
Top == stack[Depth]
Below == SubSeq(stack, 1, Depth - 1)

Snapshot == [cached |-> cached, friends |-> friends, ignores |-> ignores, attr |-> attr]

\* OnIncoming has returned, or the handler was unwound by an exception.
HandlerOver ==
    /\ caller' = <<>>
    /\ looked' = 0
    /\ stack' = <<>>
    /\ before' = Snapshot'

(***************************************************************************)
(* The walk                                                                *)
(***************************************************************************)

\* The handler is about to call GetAvatar(a).  A handler without its source
\* does not look the destination up.
Asks(a) ==
    /\ looked < Len(caller)
    /\ stack = <<>>
    /\ a = caller[looked + 1]
    /\ looked = 1 => caller[1] \in row

\* Wrong on purpose: the object enters the cache after its lists are loaded,
\* so that a cycle of contacts is never noticed.
EnterCacheLate(a) == UNCHANGED <<cached, friends, ignores, attr>>

\* LoadStoredAvatar, then emplace_back into avatarCache_.
EnterCache(a) ==
    /\ cached' = cached \cup {a}
    /\ friends' = [friends EXCEPT ![a] = {}]
    /\ ignores' = [ignores EXCEPT ![a] = {}]
    /\ attr' = [attr EXCEPT ![a] = dbAttr[a]]

\* GetAvatar for the handler returns at once: the avatar is cached, or its
\* SELECT finds no row.
Answered(a) ==
    /\ Asks(a)
    /\ a \in cached \/ a \notin row
    /\ looked' = looked + 1
    /\ UNCHANGED <<vars, caller, stack, before>>

\* GetAvatar for the handler finds a row.
OpenFirst(a) ==
    /\ Asks(a)
    /\ a \in row \ cached
    /\ EnterCache(a)
    /\ stack' = <<Opened(a)>>
    /\ UNCHANGED <<store, flag, online, result, history, caller, looked, before>>

\* LoadFriendList: its SELECT returns.
ReadFriends ==
    /\ stack # <<>>
    /\ Top.list = "none"
    /\ stack' = [stack EXCEPT ![Depth].list = "friend", ![Depth].rows = dbFriend[Top.avatar]]
    /\ UNCHANGED <<vars, caller, looked, before>>

\* LoadFriendList has returned, the SELECT of LoadIgnoreList returns.
ReadIgnores ==
    /\ stack # <<>>
    /\ Top.list = "friend"
    /\ Top.rows = {}
    /\ stack' = [stack EXCEPT ![Depth].list = "ignore", ![Depth].rows = dbIgnore[Top.avatar]]
    /\ UNCHANGED <<vars, caller, looked, before>>

\* Wrong on purpose: a contact that had to be loaded is not appended.
PointForgotten(f, r) == UNCHANGED <<friends, ignores>>

\* The pointer to r is appended to the list frame f loads.
Point(f, r) ==
    IF f.list = "friend"
    THEN friends' = [friends EXCEPT ![f.avatar] = @ \cup {r}] /\ UNCHANGED ignores
    ELSE ignores' = [ignores EXCEPT ![f.avatar] = @ \cup {r}] /\ UNCHANGED friends

\* Wrong on purpose: a row whose avatar is cached is read again and again.
RowsAfterStuck(f, r) == f.rows

\* Step moves on to the next row.
RowsAfter(f, r) == f.rows \ {r}

\* The next row names a cached avatar.
ReadCachedRow(r) ==
    /\ stack # <<>>
    /\ r \in Top.rows \cap cached
    /\ Point(Top, r)
    /\ stack' = [stack EXCEPT ![Depth].rows = RowsAfter(Top, r)]
    /\ UNCHANGED <<store, cached, attr, flag, online, result, history, caller, looked, before>>

\* The next row names an avatar to be loaded: GetAvatar is entered again.
OpenRow(r) ==
    /\ stack # <<>>
    /\ r \in Top.rows
    /\ r \in row \ cached
    /\ EnterCache(r)
    /\ stack' = Append([stack EXCEPT ![Depth].rows = RowsAfter(Top, r)], Opened(r))
    /\ UNCHANGED <<store, flag, online, result, history, caller, looked, before>>

\* GetAvatar has read both lists.
BothListsRead == stack # <<>> /\ Top.list = "ignore" /\ Top.rows = {}

\* It returns to the list of another avatar, which gets its pointer.
ReturnToList ==
    /\ BothListsRead
    /\ Depth > 1
    /\ Point(stack[Depth - 1], Top.avatar)
    /\ stack' = Below
    /\ UNCHANGED <<store, cached, attr, flag, online, result, history, caller, looked, before>>

\* It returns to the handler.
ReturnToHandler ==
    /\ BothListsRead
    /\ Depth = 1
    /\ stack' = <<>>
    /\ looked' = looked + 1
    /\ UNCHANGED <<vars, caller, before>>

\* The next thing the walk does is a SELECT.
SelectDue ==
    \/ \E a \in Avatar : Asks(a) /\ a \notin cached
    \/ /\ stack # <<>>
       /\ \/ Top.list = "none"
          \/ Top.list = "friend" /\ Top.rows = {}
          \/ ~(Top.rows \subseteq cached)

\* It throws, for the second time or with the connection lost.
SelectFails ==
    /\ SelectDue
    /\ MayFail
    /\ dirty' = dirty \cup ((cached \ before.cached) \X Avatar)
    /\ result' = Database
    /\ faults' = faults + 1
    /\ UNCHANGED <<store, memory, transient>>
    /\ HandlerOver

(***************************************************************************)
(* The handler                                                             *)
(***************************************************************************)

\* HandleIncomingMessage starts a handler that looks up the avatars c.
Begin(c) ==
    /\ caller = <<>>
    /\ caller' = c
    /\ UNCHANGED <<vars, looked, stack, before>>

LookupsDone ==
    /\ caller # <<>>
    /\ stack = <<>>
    /\ looked = Len(caller) \/ (looked = 1 /\ caller[1] \notin row)

\* What a handler with a source and a destination does after its lookups.
ContactHandler(a, b) ==
    \/ AddFriend(a, b)
    \/ AddIgnore(a, b)
    \/ RemoveFriend(a, b)
    \/ RemoveIgnore(a, b)
    \/ NoSource(a)
    \/ NoDestination(a, b)
    \/ RemoveIgnoreNoDestination(a, b)

\* The rest of the handler, to its end.
Finish ==
    /\ LookupsDone
    /\ IF Len(caller) = 1 THEN SessionStep(caller[1]) ELSE ContactHandler(caller[1], caller[2])
    /\ HandlerOver

\* The process may be killed during a walk as well.
CrashInLoad == Crash /\ HandlerOver

LoadInit ==
    /\ Init
    /\ caller = <<>>
    /\ looked = 0
    /\ stack = <<>>
    /\ before = Snapshot

WalkStep ==
    \/ \E a \in Avatar : Answered(a) \/ OpenFirst(a)
    \/ ReadFriends
    \/ ReadIgnores
    \/ \E r \in Avatar : ReadCachedRow(r) \/ OpenRow(r)
    \/ ReturnToList
    \/ ReturnToHandler

LoadNext ==
    \/ \E a \in Avatar : Begin(<<a>>)
    \/ \E a, b \in Avatar : Begin(<<a, b>>)
    \/ WalkStep
    \/ SelectFails
    \/ Finish
    \/ CrashInLoad

LoadSpec == LoadInit /\ [][LoadNext]_loadVars

(***************************************************************************)
(* Properties                                                              *)
(***************************************************************************)

\* No call of GetAvatar is entered for an avatar whose call is in progress,
\* whatever cycles the stored lists contain: the recursion of GetAvatar,
\* LoadFriendList and LoadIgnoreList is no deeper than there are rows.
NoReentry ==
    \A i, j \in 1..Depth : i # j => stack[i].avatar # stack[j].avatar

\* An object made by the running handler whose GetAvatar has returned has
\* both of its lists complete although other loads are still in the middle:
\* a walk that fails leaves only the objects of calls in progress partial.
ReturnedComplete ==
    \A a \in cached \ before.cached :
        \/ \E i \in 1..Depth : stack[i].avatar = a
        \/ friends[a] = dbFriend[a] /\ ignores[a] = dbIgnore[a]

\* What a call of GetAvatar has still to do itself: its row, its return, and
\* at most every avatar in each list it has not read.
CallWork(f) ==
    1 + Cardinality(f.rows)
      + CASE f.list = "none" -> 2 * (Cardinality(Avatar) + 1)
          [] f.list = "friend" -> Cardinality(Avatar) + 1
          [] f.list = "ignore" -> 0

\* What the walk has still to do at most: its calls, those of the avatars that
\* are not cached yet, and the lookups of the handler.
Work ==
    MapThenSumSet(LAMBDA i : CallWork(stack[i]), 1..Depth)
      + Cardinality(row \ cached) * (2 * Cardinality(Avatar) + 4)
      + (Len(caller) - looked)

\* Every step of a walk leaves less to do, whatever cycles the stored lists
\* contain: GetAvatar, LoadFriendList and LoadIgnoreList call each other only
\* finitely often.
WalkEnds == [][WalkStep => Work' < Work]_loadVars

\* Seen at the ends of handlers only, the walk is the single step of Avatars:
\* what it loads is Fetch, what it leaves when it fails is allowed by
\* LoadFails, and each handler works as if its lookups were atomic.
Atomic == INSTANCE Avatars WITH
    cached <- before.cached, friends <- before.friends,
    ignores <- before.ignores, attr <- before.attr

ImplementsAvatars == Atomic!Spec
=============================================================================
