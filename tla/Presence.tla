------------------------------ MODULE Presence ------------------------------
(***************************************************************************)
(* Who is told that a friend came or went: the notifications GatewayClient *)
(* sends from the handlers of Avatars.                                     *)
(*                                                                         *)
(* A game server connects to the gateway and logs in the avatar SYSTEM at  *)
(* its own address; GatewayNode then keeps the connection in               *)
(* clientAddressMap_ and every notification for an avatar of that address  *)
(* goes there.  With no entry for the address, SendTo drops the message.   *)
(* An entry is never taken out while the process runs.                     *)
(*                                                                         *)
(* The connection is the reliable ordered channel of the UDP library and   *)
(* is assumed to stay up; so a notification is applied when it is sent.    *)
(* What the game server does with it is modelled from the messages it      *)
(* gets (external): it keeps, for each avatar it has logged in, the        *)
(* friends it was told are online, and forgets them when the avatar logs   *)
(* out or the friend leaves the list.                                      *)
(***************************************************************************)
EXTENDS Avatars

CONSTANTS
    System,     \* the avatars named SYSTEM
    Address,    \* addresses of game servers
    AddressOf   \* the address of each avatar

ASSUME PresenceAssumption ==
    /\ System \subseteq Avatar
    /\ AddressOf \in [Avatar -> Address]

VARIABLES
    registered, \* the addresses in clientAddressMap_
    view,       \* view[a]: the friends a's game server believes online
    watching    \* history: avatars that logged in at a registered address

presenceVars == <<registered, view, watching>>
pvars == <<vars, presenceVars>>

Reachable(a) == AddressOf[a] \in registered

(***************************************************************************)
(* The messages                                                            *)
(***************************************************************************)

\* Wrong on purpose: only online friends of the newcomer are told of it.
LoginAudienceOfFriends(a) ==
    {w \in online' : w \in friends'[a] /\ Reachable(w)}

\* SendFriendLoginUpdates, first loop: the online avatars that list a.  The
\* newcomer is on the list of online avatars by then.
LoginAudience(a) ==
    {w \in online' : a \in friends'[w] /\ Reachable(w)}

\* SendFriendLogoutUpdates runs before the avatar is taken off the list, and
\* for an avatar that was not online too.
LogoutAudience(a) ==
    {w \in online : a \in friends[w] /\ Reachable(w)}

\* LoginAvatar: SYSTEM registers its client and tells nobody; anybody else
\* is announced, and its client is sent the friends that are online.
Announce(a) ==
    IF a \in System
    THEN /\ registered' = registered \cup {AddressOf[a]}
         /\ UNCHANGED <<view, watching>>
    ELSE /\ view' = [w \in Avatar |->
                IF w = a THEN friends'[a] \cap flag'
                ELSE IF w \in LoginAudience(a) THEN view[w] \cup {a} ELSE view[w]]
         /\ watching' = IF Reachable(a) THEN watching \cup {a} ELSE watching
         /\ UNCHANGED registered

Login(a) ==
    /\ LoginKnown(a) \/ \E t \in Attribute : LoginNew(a, t)
    /\ IF result' = Success THEN Announce(a) ELSE UNCHANGED presenceVars

Logout(a) ==
    /\ LogoutAvatar(a)
    /\ view' = [w \in Avatar |->
          IF w = a THEN {}
          ELSE IF w \in LogoutAudience(a) THEN view[w] \ {a} ELSE view[w]]
    /\ watching' = watching \ {a}
    /\ UNCHANGED registered

\* AddFriend sends the status of the new friend unless the statement threw;
\* a client that has not logged a in has nowhere to keep it.
FriendStatusSent(a, b) ==
    /\ result' = Success
    /\ b \in flag
    /\ Reachable(a)
    /\ a \in online

Befriend(a, b) ==
    /\ AddFriend(a, b)
    /\ view' = IF FriendStatusSent(a, b) THEN [view EXCEPT ![a] = @ \cup {b}] ELSE view
    /\ UNCHANGED <<registered, watching>>

\* RemoveFriend and AddIgnore send nothing; the client that asked drops the
\* contact.
Unfriend(a, b) ==
    /\ RemoveFriend(a, b) \/ AddIgnore(a, b)
    /\ view' = [view EXCEPT ![a] = @ \ {b}]
    /\ UNCHANGED <<registered, watching>>

\* The requests that send no notification.
Quiet ==
    /\ \/ \E a \in Avatar : GetAnyAvatar(a)
       \/ \E a, b \in Avatar : RemoveIgnore(a, b) \/ LoadFails({a, b})
    /\ UNCHANGED presenceVars

Restart ==
    /\ Crash
    /\ registered' = {}
    /\ view' = [a \in Avatar |-> {}]
    /\ watching' = {}

PresenceInit ==
    /\ Init
    /\ registered = {}
    /\ view = [a \in Avatar |-> {}]
    /\ watching = {}

PresenceNext ==
    \/ \E a \in Avatar : Login(a) \/ Logout(a)
    \/ \E a, b \in Avatar : Befriend(a, b) \/ Unfriend(a, b)
    \/ Quiet
    \/ Restart

PresenceSpec == PresenceInit /\ [][PresenceNext]_pvars

(***************************************************************************)
(* Properties                                                              *)
(***************************************************************************)

\* What the game server of an avatar believes of each friend is what the
\* chat server's own list of online avatars says, whoever came first, was
\* befriended while online or while offline, or logged out twice.  Leaves
\* out SYSTEM, whose login is not announced, pairs with a failed statement
\* (AddFriend throws before it sends), and avatars that logged in before
\* their address was registered (SendFriendLoginUpdates,
\* SendFriendLogoutUpdates, AddFriend).
PresenceAccurate ==
    \A a \in watching \ System, b \in Avatar \ System :
        b \in friends[a] /\ <<a, b>> \notin dirty =>
            (b \in view[a] <=> b \in online)
=============================================================================
