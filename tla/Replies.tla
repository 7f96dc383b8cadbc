------------------------------- MODULE Replies -------------------------------
(***************************************************************************)
(* One request at a time: GatewayClient::OnIncoming, HandleIncomingMessage *)
(* and the shape of every handler and every response.                      *)
(*                                                                         *)
(* What the handlers do to avatars, rooms and messages is in other         *)
(* modules.  Here a handler is the order in which it does four things: try *)
(* something that may throw, use something it did not check, set a field   *)
(* of its response, and notify game servers.  A response is the fields its *)
(* write function puts on the wire, always or on success only; what read   *)
(* takes from a request is there whatever the request says, and is left    *)
(* out.  Module Process starts the process and ends it with End.           *)
(***************************************************************************)
EXTENDS Naturals, Sequences

CONSTANTS
    Track,     \* the numbers clients give requests
    None       \* no request, no response

VARIABLES
    request,   \* the request being handled
    script,    \* what its handler has left to do
    assigned,  \* the fields of the response that were assigned
    told,      \* the handler has notified somebody
    result,    \* response.result
    reply,     \* the response just sent
    running    \* the process serves

(***************************************************************************)
(* What handlers are made of                                               *)
(***************************************************************************)

\* Something that throws ChatResultException or DatabaseException, or not.
Try(what) == [do |-> "try", what |-> what]

\* A pointer is used that may be null, which ends the process.
Trust(what) == [do |-> "trust", what |-> what]

Set(field) == [do |-> "set", what |-> field]

Tell == [do |-> "tell", what |-> "update"]

\* SetApiVersion decides on the result without an exception.
Judge == [do |-> "judge", what |-> "version"]

Source == Try("source avatar")
Dest == Try("destination avatar")
Room == Try("room")
Store == Try("statement")

(***************************************************************************)
(* Handlers: the ways through each constructor in Protocol.cpp             *)
(***************************************************************************)

AddBan == {<<Source, Dest, Room, Set("destRoomId"), Store>>}

AddFriend == {<<Source, Dest, Store>>, <<Source, Dest, Store, Tell>>}

AddIgnore == {<<Source, Dest, Store>>}

AddInvite == {<<Source, Dest, Room, Set("destRoomId"), Try("role")>>}

AddModerator == {<<Source, Dest, Room, Set("destRoomId"), Store>>}

\* The creator is looked up and not checked; the room is stored without an
\* exception.
CreateRoom == {<<Try("room exists"), Trust("creator"), Set("room")>>}

DestroyRoom == {<<Source, Room, Set("roomId"), Store, Tell>>}

EnterRoom == {<<Source, Room, Set("roomId"), Try("entry"), Tell>>}

FailoverReLoginAvatar ==
    {<<Source, Store, Try("load rooms")>>, <<Source, Store, Try("load rooms"), Tell>>,
     <<Source, Store, Tell>>}

FriendStatus == {<<Source, Set("srcAvatar")>>}

GetAnyAvatar == {<<Source, Set("isOnline"), Set("avatar")>>}

GetPersistentHeaders == {<<Store, Set("headers")>>}

GetPersistentMessage == {<<Store, Set("message")>>}

GetRoom == {<<Room, Set("room")>>}

GetRoomSummaries == {<<Set("rooms")>>}

IgnoreStatus == {<<Source, Set("srcAvatar")>>}

KickAvatar == {<<Source, Dest, Room, Set("destRoomId"), Try("role"), Tell>>}

LeaveRoom == {<<Source, Room, Set("roomId"), Tell>>}

\* SYSTEM loads rooms, other avatars tell their friends.
LoginAvatar ==
    {<<Source, Store, Try("load rooms"), Set("avatar")>>, <<Source, Store, Tell, Set("avatar")>>}

\* The avatar is looked up and not checked.
LogoutAvatar == {<<Try("statement"), Trust("avatar"), Tell>>}

RemoveBan == {<<Source, Dest, Room, Set("destRoomId"), Store>>}

RemoveFriend == {<<Source, Dest, Store>>}

\* The second check tests the source again, so the destination may be null.
RemoveIgnore == {<<Source, Try("statement"), Trust("destination"), Store>>}

RemoveInvite == {<<Source, Dest, Room, Set("destRoomId"), Try("role")>>}

RemoveModerator == {<<Source, Dest, Room, Set("destRoomId"), Store>>}

SendInstantMessage == {<<Source, Dest, Try("ignored"), Tell>>}

\* Wrong on purpose: the update is sent before the message is stored.
SendPersistentMessageEarly ==
    {<<Dest, Source, Try("ignored"), Tell, Store, Set("messageId")>>,
     <<Dest, Tell, Store, Set("messageId")>>}

\* With a source avatar to check, or with a name only.
SendPersistentMessage ==
    {<<Dest, Source, Try("ignored"), Store, Set("messageId"), Tell>>,
     <<Dest, Store, Set("messageId"), Tell>>}

SendRoomMessage == {<<Source, Room, Set("roomId"), Tell>>}

SetApiVersion == {<<Set("version"), Judge>>}

\* The attributes may be the same, or not to be stored.
SetAvatarAttributes == {<<Source, Set("avatar")>>, <<Source, Set("avatar"), Store>>}

UpdatePersistentMessage == {<<Store>>}

UpdatePersistentMessages == {<<Store>>}

(***************************************************************************)
(* Responses: the fields after type, track and result                      *)
(***************************************************************************)

\* Fields written always, fields written on success, and fields the
\* constructor of the response sets.
Response(always, success, initial) ==
    [always |-> always, success |-> success, initial |-> initial]

Plain == Response({}, {}, {})

ResAddBan == Response({"destRoomId"}, {}, {})
ResAddFriend == Plain
ResAddIgnore == Plain
ResAddInvite == Response({"destRoomId"}, {}, {})
ResAddModerator == Response({"destRoomId"}, {}, {})
ResCreateRoom == Response({}, {"room", "extraRooms"}, {"extraRooms"})
ResDestroyRoom == Response({"roomId"}, {}, {})

\* gotRoomObj is never set, so the room that follows it is never written.
ResEnterRoom == Response({"roomId", "gotRoomObj"}, {}, {"gotRoomObj"})

ResFailoverReLoginAvatar == Plain
ResFriendStatus == Response({}, {"srcAvatar"}, {})

\* Wrong on purpose: the avatar is written whatever the result.
ResGetAnyAvatarAlways == Response({"isOnline", "avatar"}, {}, {})

ResGetAnyAvatar == Response({"isOnline"}, {"avatar"}, {})
ResGetPersistentHeaders == Response({"headers"}, {}, {"headers"})
ResGetPersistentMessage == Response({}, {"message"}, {})
ResGetRoom == Response({}, {"room", "extraRooms"}, {"extraRooms"})
ResGetRoomSummaries == Response({"rooms"}, {}, {"rooms"})
ResIgnoreStatus == Response({}, {"srcAvatar"}, {})
ResKickAvatar == Response({"destRoomId"}, {}, {})
ResLeaveRoom == Response({"roomId"}, {}, {})
ResLoginAvatar == Response({}, {"avatar"}, {})
ResLogoutAvatar == Plain
ResRemoveBan == Response({"destRoomId"}, {}, {})
ResRemoveFriend == Plain
ResRemoveIgnore == Plain
ResRemoveInvite == Response({"destRoomId"}, {}, {})
ResRemoveModerator == Response({"destRoomId"}, {}, {})
ResSendInstantMessage == Plain
ResSendPersistentMessage == Response({}, {"messageId"}, {})
ResSendRoomMessage == Response({"roomId"}, {}, {})
ResSetApiVersion == Response({"version"}, {}, {})
ResSetAvatarAttributes == Response({}, {"avatar"}, {})
ResUpdatePersistentMessage == Plain
ResUpdatePersistentMessages == Plain

\* The fields that are pointers, which writing a response follows.
Pointer == {"room", "avatar", "srcAvatar"}

(***************************************************************************)
(* Dispatch                                                                *)
(***************************************************************************)

Handle(ways, response) == [ways |-> ways, response |-> response]

\* The cases of OnIncoming.
Dispatch ==
    [LOGINAVATAR |-> Handle(LoginAvatar, ResLoginAvatar),
     LOGOUTAVATAR |-> Handle(LogoutAvatar, ResLogoutAvatar),
     CREATEROOM |-> Handle(CreateRoom, ResCreateRoom),
     DESTROYROOM |-> Handle(DestroyRoom, ResDestroyRoom),
     SENDINSTANTMESSAGE |-> Handle(SendInstantMessage, ResSendInstantMessage),
     SENDROOMMESSAGE |-> Handle(SendRoomMessage, ResSendRoomMessage),
     ADDFRIEND |-> Handle(AddFriend, ResAddFriend),
     REMOVEFRIEND |-> Handle(RemoveFriend, ResRemoveFriend),
     FRIENDSTATUS |-> Handle(FriendStatus, ResFriendStatus),
     ADDIGNORE |-> Handle(AddIgnore, ResAddIgnore),
     REMOVEIGNORE |-> Handle(RemoveIgnore, ResRemoveIgnore),
     ENTERROOM |-> Handle(EnterRoom, ResEnterRoom),
     LEAVEROOM |-> Handle(LeaveRoom, ResLeaveRoom),
     ADDMODERATOR |-> Handle(AddModerator, ResAddModerator),
     REMOVEMODERATOR |-> Handle(RemoveModerator, ResRemoveModerator),
     ADDBAN |-> Handle(AddBan, ResAddBan),
     REMOVEBAN |-> Handle(RemoveBan, ResRemoveBan),
     ADDINVITE |-> Handle(AddInvite, ResAddInvite),
     REMOVEINVITE |-> Handle(RemoveInvite, ResRemoveInvite),
     KICKAVATAR |-> Handle(KickAvatar, ResKickAvatar),
     GETROOM |-> Handle(GetRoom, ResGetRoom),
     GETROOMSUMMARIES |-> Handle(GetRoomSummaries, ResGetRoomSummaries),
     SENDPERSISTENTMESSAGE |-> Handle(SendPersistentMessage, ResSendPersistentMessage),
     GETPERSISTENTHEADERS |-> Handle(GetPersistentHeaders, ResGetPersistentHeaders),
     GETPERSISTENTMESSAGE |-> Handle(GetPersistentMessage, ResGetPersistentMessage),
     UPDATEPERSISTENTMESSAGE |-> Handle(UpdatePersistentMessage, ResUpdatePersistentMessage),
     UPDATEPERSISTENTMESSAGES |-> Handle(UpdatePersistentMessages, ResUpdatePersistentMessages),
     IGNORESTATUS |-> Handle(IgnoreStatus, ResIgnoreStatus),
     FAILOVER_RELOGINAVATAR |-> Handle(FailoverReLoginAvatar, ResFailoverReLoginAvatar),
     SETAPIVERSION |-> Handle(SetApiVersion, ResSetApiVersion),
     SETAVATARATTRIBUTES |-> Handle(SetAvatarAttributes, ResSetAvatarAttributes),
     GETANYAVATAR |-> Handle(GetAnyAvatar, ResGetAnyAvatar)]

Idle == running /\ request = None

\* OnIncoming reads the type, HandleIncomingMessage the request.  Each way
\* through the handler is as good as another.
Receive(type, track) ==
    /\ Idle
    /\ request' = [type |-> type, track |-> track]
    /\ script' \in Dispatch[type].ways
    /\ assigned' = Dispatch[type].response.initial
    /\ told' = FALSE
    /\ result' = "SUCCESS"
    /\ reply' = None
    /\ UNCHANGED running

Doing(what) == running /\ request # None /\ script # <<>> /\ Head(script).do = what

\* The next step succeeds.
Proceed ==
    /\ \E what \in {"try", "trust", "set", "tell", "judge"} : Doing(what)
    /\ script' = Tail(script)
    /\ assigned' = IF Doing("set") THEN assigned \cup {Head(script).what} ELSE assigned
    /\ told' = (told \/ Doing("tell"))
    /\ UNCHANGED <<request, result, reply, running>>

\* It throws and is caught, or decides against the request: the result says
\* so and the rest of the handler is skipped.
Refuse ==
    /\ Doing("try") \/ Doing("judge")
    /\ script' = <<>>
    /\ result' = "error"
    /\ UNCHANGED <<request, assigned, told, reply, running>>

\* Nothing is being handled.
Clear ==
    /\ request' = None /\ script' = <<>> /\ assigned' = {} /\ told' = FALSE
    /\ result' = "SUCCESS"

\* A null pointer is followed.
End == Doing("trust") /\ running' = FALSE /\ reply' = None /\ Clear

\* The fields the write function of the response puts on the wire.
Written ==
    Dispatch[request.type].response.always
        \cup IF result = "SUCCESS" THEN Dispatch[request.type].response.success ELSE {}

TheReply ==
    [track |-> request.track, result |-> result, unset |-> Written \ assigned, told |-> told]


\* Send(response), after the try block.
Respond ==
    /\ running /\ request # None /\ script = <<>>
    /\ reply' = TheReply
    /\ Clear
    /\ UNCHANGED running

\* A process that has just started, or waits for requests.
NothingAsked ==
    /\ request = None /\ script = <<>> /\ assigned = {} /\ told = FALSE
    /\ result = "SUCCESS" /\ reply = None

(***************************************************************************)
(* Properties                                                              *)
(***************************************************************************)

\* A response that says SUCCESS carries only fields its handler has set, and
\* no response, not even an error, follows a pointer that was not set
\* (the write functions of protocol/, against the constructors of
\* Protocol.cpp and where they throw).
WrittenWasSet ==
    reply # None =>
        IF reply.result = "SUCCESS" THEN reply.unset = {}
                                    ELSE reply.unset \cap Pointer = {}

\* A request that was refused, for whatever reason and at whatever step, has
\* not notified anybody of what it did not do (the order of the statements and
\* the Send...Update calls in every handler).
RefusedToldNobody == reply # None /\ reply.result # "SUCCESS" => ~reply.told

\* The requests whose handlers use a lookup they did not check.
Unchecked == {"CREATEROOM", "LOGOUTAVATAR", "REMOVEIGNORE"}

=============================================================================
