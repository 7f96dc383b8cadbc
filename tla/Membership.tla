------------------------------ MODULE Membership ------------------------------
(***************************************************************************)
(* What game servers know of who is in which room: Rooms composed with     *)
(* Gateway and the messages MEnterRoom, MLeaveRoom, MKickAvatar and        *)
(* MDestroyRoom.                                                           *)
(*                                                                         *)
(* A message goes to the addresses that have a member in the room, taken   *)
(* after an entry and before a departure.  The destruction of a room is    *)
(* announced to remote addresses only, those other than its creator's.     *)
(* Nobody is told when the rooms are thrown away because some game server  *)
(* logs SYSTEM in, nor when a connection is lost: its avatars stay.        *)
(*                                                                         *)
(* A game server is modelled from what it is sent (external): it applies   *)
(* the messages in their order, takes the members from the answer to       *)
(* GetRoom (ResEnterRoom carries none) and forgets a room whose            *)
(* destruction it asked for; it knows nothing when it connects.  Each      *)
(* avatar's requests come from the server at the avatar's address.  The    *)
(* role requests send nothing and are left to Rooms.                       *)
(***************************************************************************)
EXTENDS Rooms, Gateway

CONSTANT AddressOf  \* the address of each avatar

ASSUME MembershipAssumption ==
    /\ Galaxy = Server
    /\ AddressOf \in [Avatar -> Server]

VARIABLES
    view,    \* view[g]: the pairs <<room id, avatar>> g believes in
    synced,  \* history: pairs <<g, id>>: g asked for the members, and has had
             \* an avatar in the room ever since
    untold   \* history: pairs <<g, id>> of rooms g believed in that went
             \* without a word to g

viewVars == <<view, synced, untold>>
mvars == <<vars, gatewayVars, viewVars>>

\* GetConnectedAddresses
Connected(r) == {AddressOf[a] : a \in r.members}

\* GetRemoteAddresses
Remote(r) == Connected(r) \ {AddressOf[r.creator]}

\* The object with this number, in memory after the step.
After(r) == {q \in rooms' : q.id = r.id}

\* Wrong on purpose: GetRemoteAddresses for GetConnectedAddresses.
EnterAudienceRemote(r) == UNION {Remote(q) : q \in After(r)}

\* EnterRoom computes the addresses after the avatar is in,
EnterAudience(r) == UNION {Connected(q) : q \in After(r)}

\* Wrong on purpose: the addresses are taken after the avatar has left.
LeaveAudienceAfter(r) == UNION {Connected(q) : q \in After(r)}

\* LeaveRoom, KickAvatar and LogoutAvatar before it is out.
LeaveAudience(r) == Connected(r)

About(r) == {r.id} \X Avatar  \* all that can be believed of a room

\* What the servers H believe of the rooms numbered I.
Believed(H, I) == {p \in H \X I : \E a \in Avatar : <<p[2], a>> \in view[p[1]]}

\* The servers H add and drop beliefs.
Hear(H, add, drop) ==
    view' = [g \in Server |-> IF g \in H THEN (view[g] \ drop) \cup add ELSE view[g]]

\* A server follows a room no longer when it has nobody there.
KeepSynced(S) ==
    synced' = {p \in S : \E q \in rooms' : q.id = p[2] /\ p[1] \in Connected(q)}

Present(a) == conn[AddressOf[a]] # NoClient

(***************************************************************************)
(* Requests                                                                *)
(***************************************************************************)

\* CreateRoom: the new room is empty; nobody is told.
Create(a) ==
    /\ Present(a)
    /\ \E x \in RoomAddress, k \in AttributeSets :
          CreateTransientRoom(a, x, k) \/ CreatePersistentRoom(a, x, k)
    /\ UNCHANGED <<gatewayVars, viewVars>>

\* EnterRoom that succeeds.
Enter(r, a) ==
    /\ Present(a)
    /\ EntryCode(r, a, TRUE) = "SUCCESS"
    /\ EnterRoom(r, a, TRUE)
    /\ Hear(Reached(EnterAudience(r)), {<<r.id, a>>}, {})
    /\ KeepSynced(synced)
    /\ UNCHANGED <<gatewayVars, untold>>

\* What LeaveRoom and KickAvatar send; the answer names no avatar.
TellLeft(r, a) ==
    /\ Hear(Reached(LeaveAudience(r)), {}, {<<r.id, a>>})
    /\ KeepSynced(synced)
    /\ UNCHANGED <<gatewayVars, untold>>

Leave(r, a) == Present(a) /\ LeaveRoom(r, a) /\ TellLeft(r, a)

\* KickAvatar by s that succeeds.
Kick(r, s, a) ==
    /\ Present(s)
    /\ s \in r.moderators /\ a \in r.members
    /\ KickAvatar(r, s, a)
    /\ TellLeft(r, a)

\* LogoutAvatar: a leaves its rooms one by one, with a message for each.
Logout(a) ==
    /\ Present(a)
    /\ LogoutAvatar(a)
    /\ view' = [g \in Server |-> view[g] \ {<<r.id, a>> : r \in {q \in rooms :
                   a \in q.members /\ g \in Reached(LeaveAudience(q))}}]
    /\ KeepSynced(synced)
    /\ UNCHANGED <<gatewayVars, untold>>

\* FailoverReLoginAvatar: MEnterRoom for each room the avatar is in.
ReLogin(a) ==
    /\ Present(a)
    /\ view' = [g \in Server |-> view[g] \cup {<<r.id, a>> : r \in {q \in rooms :
                   a \in q.members /\ g \in Reached(Connected(q))}}]
    /\ UNCHANGED <<vars, gatewayVars, synced, untold>>

\* GetRoom by the server g.
Ask(g, r) ==
    /\ conn[g] # NoClient
    /\ Hear({g}, {r.id} \X r.members, About(r))
    /\ synced' = synced \cup (({g} \cap Connected(r)) \X {r.id})
    /\ UNCHANGED <<vars, gatewayVars, untold>>

\* DestroyRoom on behalf of d.  A statement that throws sends no message.
Destroy(r, d) ==
    /\ Present(d)
    /\ DestroyRoom(r)
    /\ IF result' = "SUCCESS"
       THEN /\ Hear(Reached(Remote(r)) \cup {AddressOf[d]}, {}, About(r))
            /\ untold' = untold \cup
                  Believed({AddressOf[r.creator]} \ {AddressOf[d]}, {r.id})
       ELSE UNCHANGED <<view, untold>>
    /\ KeepSynced(synced)
    /\ UNCHANGED gatewayVars

\* The login of SYSTEM registers the client, then loads the rooms.  Up to then
\* messages to the address were dropped.
LoginSystem(g) ==
    /\ conn[g] # NoClient
    /\ LoadRoomsFromStorage(g) \/ LoadRoomsFails(g)
    /\ RegisterClientAddress(g)
    /\ untold' = untold \cup Believed(Server, {r.id : r \in rooms})
                        \cup Believed({g}, 0..MaxRoomId)
    /\ KeepSynced(synced)
    /\ UNCHANGED view

(***************************************************************************)
(* Connections                                                             *)
(***************************************************************************)

Link == LinkStep /\ UNCHANGED <<vars, viewVars>>

Lose(g) ==
    /\ Disconnect(g)
    /\ view' = [view EXCEPT ![g] = {}]
    /\ synced' = synced \ ({g} \X (0..MaxRoomId))
    /\ untold' = untold \ ({g} \X (0..MaxRoomId))
    /\ UNCHANGED vars

Restart ==
    /\ Crash
    /\ GatewayRestart
    /\ view' = [g \in Server |-> {}]
    /\ synced' = {}
    /\ untold' = {}

MembershipInit ==
    /\ Init
    /\ GatewayInit
    /\ view = [g \in Server |-> {}]
    /\ synced = {}
    /\ untold = {}

MembershipNext ==
    \/ \E a \in Avatar : Create(a) \/ Logout(a) \/ ReLogin(a)
    \/ \E r \in rooms, a \in Avatar : Enter(r, a) \/ Leave(r, a) \/ Destroy(r, a)
    \/ \E r \in rooms, s, a \in Avatar : Kick(r, s, a)
    \/ \E g \in Server, r \in rooms : Ask(g, r)
    \/ \E g \in Server : LoginSystem(g) \/ Lose(g)
    \/ Link
    \/ Restart

MembershipSpec == MembershipInit /\ [][MembershipNext]_mvars

(***************************************************************************)
(* Properties                                                              *)
(***************************************************************************)

\* Of its own avatars a game server that has logged SYSTEM in knows exactly
\* the rooms they are in, whoever put them out and whichever server destroyed
\* the room, except rooms that went without a word (GetConnectedAddresses,
\* GetRemoteAddresses and the order of their calls in the handlers).
OwnMembersKnown ==
    \A g \in hello : \A a \in {b \in Avatar : AddressOf[b] = g} :
        /\ \A r \in rooms : a \in r.members => <<r.id, a>> \in view[g]
        /\ \A p \in view[g] : p[2] = a /\ <<g, p[1]>> \notin untold =>
              \E r \in rooms : r.id = p[1] /\ a \in r.members

\* A game server that asked for the members of a room while it had an avatar
\* there, and has had one since, knows the members: it gets every change,
\* those of other servers' avatars too, and misses or doubles none
\* (SendEnterRoomUpdate, SendLeaveRoomUpdate, SendKickAvatarUpdate).
SyncedMembersKnown ==
    \A r \in rooms, g \in hello : <<g, r.id>> \in synced =>
        view[g] \cap About(r) = {r.id} \X r.members
=============================================================================
