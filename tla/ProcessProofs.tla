---------------------------- MODULE ProcessProofs ----------------------------
(***************************************************************************)
(* What a process that serves has checked, and what its responses carry,   *)
(* for every configuration, every environment and every order of edits,    *)
(* migrations, outages and requests.                                       *)
(***************************************************************************)
EXTENDS Process, Sequences, TLAPS

\* There is a table schema_version, and with a migration every earlier one is
\* recorded in it.
Recorded == table \subseteq 1..MaxVersion /\ \A v \in table : 1..v \subseteq table

\* A start that has seen the table will still find it, and whatever version it
\* read is recorded with all before it.
VersionInv ==
    /\ table = Unset \/ Recorded
    /\ pc \in {"read version", "compare", "serving"} => Recorded
    /\ pc \in {"compare", "serving"} => version \in table
    /\ pc = "serving" => Supported(version)

\* Every step of a process but those of requests, and what requests leave.
LEMMA StepCases ==
    ASSUME [ProcessNext]_processVars
    PROVE  Next \/ UNCHANGED vars
<1>1. CASE HandlerStep
  BY <1>1 DEF HandlerStep
<1>2. CASE HandlerCrash
  BY <1>2 DEF HandlerCrash, Next
<1>3. CASE StartStep
  BY <1>3 DEF StartStep, Next
<1>4. CASE OperatorStep
  BY <1>4 DEF OperatorStep, Next
<1>5. CASE UNCHANGED processVars
  BY <1>5 DEF processVars
<1> QED BY <1>1, <1>2, <1>3, <1>4, <1>5 DEF ProcessNext

\* The steps that end in the state of a process that has stopped.
Ends ==
    \/ NoConfigurationFile \/ Incomplete \/ ModeRefused \/ ConnectFails
    \/ NoTable \/ NoVersion \/ Unsupported \/ Crash

\* A start that fails leaves the operator's side and its own variables.
LEMMA EndsStop == Ends => pc' = "stopped" /\ UNCHANGED <<operator, process>>
BY DEF Ends, NoConfigurationFile, Incomplete, ModeRefused, ConnectFails, NoTable,
       NoVersion, Unsupported, Crash, Throw

\* A recorded version is a number, and so is every one before it.
LEMMA NumbersInRange == \A n \in Nat : \A v \in 1..n : v \in Nat /\ 1..v \subseteq 1..n
BY SMT

\* A table there is is not a missing one.
LEMMA RecordedExists == Recorded => table # Unset
BY BootstrapAssumption DEF Recorded

\* A migration keeps the record complete.
LEMMA RecordVersionKeeps ==
    ASSUME Recorded, RecordVersion
    PROVE  Recorded' /\ table \subseteq table' /\ UNCHANGED <<pc, version>>
<1>1. PICK w \in 1..MaxVersion : 1..(w - 1) \subseteq table /\ table' = table \cup {w}
  BY DEF RecordVersion
<1>2. \A v \in 1..w : v = w \/ v \in 1..(w - 1)
  BY BootstrapAssumption, SMT
<1>3. 1..w \subseteq table'
  BY <1>1, <1>2
<1>4. ASSUME NEW v \in table' PROVE 1..v \subseteq table'
  <2>1. CASE v = w
    BY <1>3, <2>1
  <2>2. CASE v \in table
    <3>1. 1..v \subseteq table
      BY <2>2 DEF Recorded
    <3> QED BY <1>1, <3>1
  <2> QED BY <1>1, <2>1, <2>2
<1>5. table' \subseteq 1..MaxVersion
  BY <1>1 DEF Recorded
<1> QED BY <1>1, <1>4, <1>5 DEF Recorded, RecordVersion, process

\* Each step of a start, of the operator and of the database keeps the
\* version invariant.
LEMMA StepKeepsVersion ==
    ASSUME VersionInv, Next \/ UNCHANGED vars
    PROVE  VersionInv'
<1> USE DEF VersionInv, operator, process
<1>1. CASE Ends
  BY <1>1, EndsStop DEF Recorded
<1>2. CASE Launch \/ BuildConfiguration \/ CreateDatabaseConnection \/ ConfigureTls \/ Connect
  BY <1>2 DEF Launch, BuildConfiguration, CreateDatabaseConnection, ConfigureTls, Connect,
              Recorded
<1>3. CASE TableExists
  BY <1>3 DEF TableExists, Recorded
<1>4. CASE ReadSchemaVersion
  BY <1>4 DEF ReadSchemaVersion, Recorded
<1>5. CASE Serve
  BY <1>5 DEF Serve, Supported, Recorded
<1>6. CASE EditFile \/ EditEnvironment \/ DatabaseChanges
  BY <1>6 DEF EditFile, EditEnvironment, DatabaseChanges, Supported, Recorded
<1>7. CASE CreateTables
  <2>1. table = Unset /\ table' = {} /\ UNCHANGED <<pc, version>>
    BY <1>7 DEF CreateTables
  <2>2. pc \notin {"read version", "compare", "serving"}
    BY <2>1, RecordedExists
  <2>3. Recorded'
    BY <2>1 DEF Recorded
  <2> QED BY <2>1, <2>2, <2>3
<1>8. CASE RecordVersion
  <2>1. Recorded
    BY <1>8 DEF RecordVersion
  <2>2. Recorded' /\ table \subseteq table' /\ UNCHANGED <<pc, version>>
    BY <1>8, <2>1, RecordVersionKeeps
  <2> QED BY <2>2 DEF Supported
<1>9. CASE UNCHANGED vars
  BY <1>9 DEF vars, Supported, Recorded
<1> QED BY <1>1, <1>2, <1>3, <1>4, <1>5, <1>6, <1>7, <1>8, <1>9 DEF Next, Start, Ends

\* Behind a process that serves every required migration has run to its end,
\* whatever the operator and the database do before, between and after the two
\* statements that look (ValidateDatabaseSchemaOrThrow).
THEOREM SchemaAlwaysComplete == ProcessSpec => []SchemaComplete
<1>1. ProcessInit => VersionInv
  BY DEF ProcessInit, Init, VersionInv
<1>2. VersionInv /\ [ProcessNext]_processVars => VersionInv'
  BY StepCases, StepKeepsVersion
<1>3. VersionInv => SchemaComplete
  <2> SUFFICES ASSUME VersionInv, pc = "serving"
               PROVE  1..kRequiredSchemaVersion \subseteq table
    BY DEF SchemaComplete
  <2>1. version \in table /\ version \in Nat /\ version >= kRequiredSchemaVersion
    BY BootstrapAssumption, NumbersInRange DEF VersionInv, Recorded, Supported
  <2>2. 1..version \subseteq table
    BY <2>1 DEF VersionInv, Recorded
  <2>3. 1..kRequiredSchemaVersion \subseteq 1..version
    BY <2>1 DEF kRequiredSchemaVersion
  <2> QED BY <2>2, <2>3
<1> QED BY <1>1, <1>2, <1>3, PTL DEF ProcessSpec

\* From the moment the mode is accepted it stays accepted, and the connection
\* is one the client library may make in that mode.
Accepted == {"connect", "find table", "read version", "compare", "serving"}

TlsInv ==
    /\ pc \in Accepted => ModeAccepted(config.ssl_mode)
    /\ pc \in Accepted \ {"connect"} => tls \in Encrypted

\* Each step keeps the mode invariant.
LEMMA StepKeepsTls ==
    ASSUME TlsInv, Next \/ UNCHANGED vars
    PROVE  TlsInv'
<1> USE DEF TlsInv, Accepted, operator, process
<1>1. CASE Ends
  BY <1>1, EndsStop
<1>2. CASE Launch \/ BuildConfiguration \/ CreateDatabaseConnection
  BY <1>2 DEF Launch, BuildConfiguration, CreateDatabaseConnection
<1>3. CASE ConfigureTls
  BY <1>3 DEF ConfigureTls, ModeAccepted
<1>4. CASE Connect
  BY <1>4 DEF Connect, ModeAccepted, Encrypted
<1>5. CASE TableExists \/ ReadSchemaVersion \/ Serve
  BY <1>5 DEF TableExists, ReadSchemaVersion, Serve, ModeAccepted, Encrypted
<1>6. CASE EditFile \/ EditEnvironment \/ DatabaseChanges \/ CreateTables \/ RecordVersion
  BY <1>6 DEF EditFile, EditEnvironment, DatabaseChanges, CreateTables, RecordVersion,
              ModeAccepted, Encrypted
<1>7. CASE UNCHANGED vars
  BY <1>7 DEF vars, ModeAccepted, Encrypted
<1> QED BY <1>1, <1>2, <1>3, <1>4, <1>5, <1>6, <1>7 DEF Next, Start, Ends

\* A process that was told to encrypt its connection never serves over one
\* that is not, whatever the build's mysql.h declares (ConfigureTls).
THEOREM NeverDowngraded == ProcessSpec => []NoSilentDowngrade
<1>1. ProcessInit => TlsInv
  BY DEF ProcessInit, Init, TlsInv, Accepted
<1>2. TlsInv /\ [ProcessNext]_processVars => TlsInv'
  BY StepCases, StepKeepsTls
<1>3. TlsInv => NoSilentDowngrade
  <2> SUFFICES ASSUME TlsInv, pc = "serving",
                      ToLowerCopy(config.ssl_mode)
                        \in {"required", "verify_ca", "verify_identity"}
               PROVE  tls
    BY DEF NoSilentDowngrade
  <2>1. SslModeMacro
    BY DEF TlsInv, Accepted, ModeAccepted
  <2>2. Encrypted = {TRUE}
    BY <2>1 DEF Encrypted, Mode
  <2>3. tls \in Encrypted
    BY DEF TlsInv, Accepted
  <2> QED BY <2>2, <2>3
<1> QED BY <1>1, <1>2, <1>3, PTL DEF ProcessSpec

(***************************************************************************)
(* Requests: what every handler can be relied on for                       *)
(***************************************************************************)

IsSeq(s) == \E S : s \in Seq(S)

MayRefuse(act) == act.do \in {"try", "judge"}

Silent(act) == act.do # "tell"

\* A handler with s left to do refuses nothing once it has told somebody.
TellsLast(s) == \A i, j \in 1..Len(s) : i < j /\ ~Silent(s[i]) => ~MayRefuse(s[j])

\* s sets field f on its way.
Sets(s, f) == \E i \in 1..Len(s) : s[i] = Requests!Set(f)

\* s sets every field the response has on success, but for what is set.
SetsAll(s, response, set) ==
    \A f \in response.always \cup response.success : f \in set \/ Sets(s, f)

\* What a handler and its response must be like: no field that is written
\* always is a pointer, and every way through it that succeeds sets all fields
\* and tells only when nothing can go wrong any more.
Sound(ways, response) ==
    /\ response.always \cap Requests!Pointer = {}
    /\ \A s \in ways : IsSeq(s) /\ TellsLast(s) /\ SetsAll(s, response, response.initial)

\* What the steps of handlers are, as far as the proofs go.
LEMMA Steps ==
    /\ \A w : ~MayRefuse(Requests!Set(w)) /\ Silent(Requests!Set(w))
    /\ \A w : Silent(Requests!Try(w)) /\ Silent(Requests!Trust(w))
    /\ Silent(Requests!Source) /\ Silent(Requests!Dest) /\ Silent(Requests!Room)
    /\ Silent(Requests!Store) /\ Silent(Requests!Judge) /\ ~MayRefuse(Requests!Tell)
BY DEF MayRefuse, Silent, Requests!Try, Requests!Trust, Requests!Set, Requests!Source,
       Requests!Dest, Requests!Room, Requests!Store, Requests!Tell, Requests!Judge

\* Handlers of one step.
LEMMA One ==
    ASSUME NEW a
    PROVE  /\ IsSeq(<<a>>)
           /\ TellsLast(<<a>>)
           /\ \A f : a = Requests!Set(f) => Sets(<<a>>, f)
<1> DEFINE s == <<a>>
<1>1. IsSeq(s)
  <2> DEFINE S == {a}
  <2>1. a \in S
    OBVIOUS
  <2> HIDE DEF S
  <2>2. s \in Seq(S)
    BY <2>1
  <2> QED BY <2>2, Zenon DEF IsSeq
<1>2. TellsLast(s)
  BY DEF TellsLast
<1>3. \A f : a = Requests!Set(f) => Sets(s, f)
  BY DEF Sets
<1> QED BY <1>1, <1>2, <1>3

\* Handlers of two steps.
LEMMA Two ==
    ASSUME NEW a, NEW b,
           Silent(a) \/ ~MayRefuse(b)
    PROVE  /\ IsSeq(<<a, b>>)
           /\ TellsLast(<<a, b>>)
           /\ \A f : a = Requests!Set(f) \/ b = Requests!Set(f) => Sets(<<a, b>>, f)
<1> DEFINE s == <<a, b>>
<1>1. IsSeq(s)
  <2> DEFINE S == {a, b}
  <2>1. a \in S /\ b \in S
    OBVIOUS
  <2> HIDE DEF S
  <2>2. s \in Seq(S)
    BY <2>1
  <2> QED BY <2>2, Zenon DEF IsSeq
<1>2. TellsLast(s)
  BY DEF TellsLast
<1>3. \A f : a = Requests!Set(f) \/ b = Requests!Set(f) => Sets(s, f)
  BY DEF Sets
<1> QED BY <1>1, <1>2, <1>3

\* Handlers of three steps.
LEMMA Three ==
    ASSUME NEW a, NEW b, NEW c,
           Silent(a), Silent(b) \/ ~MayRefuse(c)
    PROVE  /\ IsSeq(<<a, b, c>>)
           /\ TellsLast(<<a, b, c>>)
           /\ \A f : a = Requests!Set(f) \/ b = Requests!Set(f) \/ c = Requests!Set(f)
                  => Sets(<<a, b, c>>, f)
<1> DEFINE s == <<a, b, c>>
<1>1. IsSeq(s)
  <2> DEFINE S == {a, b, c}
  <2>1. a \in S /\ b \in S /\ c \in S
    OBVIOUS
  <2> HIDE DEF S
  <2>2. s \in Seq(S)
    BY <2>1
  <2> QED BY <2>2, Zenon DEF IsSeq
<1>2. TellsLast(s)
  BY DEF TellsLast
<1>3. \A f : a = Requests!Set(f) \/ b = Requests!Set(f) \/ c = Requests!Set(f) => Sets(s, f)
  BY DEF Sets
<1> QED BY <1>1, <1>2, <1>3

\* Handlers of four steps.
LEMMA Four ==
    ASSUME NEW a, NEW b, NEW c, NEW d,
           Silent(a), Silent(b), Silent(c) \/ ~MayRefuse(d)
    PROVE  /\ IsSeq(<<a, b, c, d>>)
           /\ TellsLast(<<a, b, c, d>>)
           /\ \A f : a = Requests!Set(f) \/ b = Requests!Set(f) \/ c = Requests!Set(f)
                  \/ d = Requests!Set(f) => Sets(<<a, b, c, d>>, f)
<1> DEFINE s == <<a, b, c, d>>
<1>1. IsSeq(s)
  <2> DEFINE S == {a, b, c, d}
  <2>1. a \in S /\ b \in S /\ c \in S /\ d \in S
    OBVIOUS
  <2> HIDE DEF S
  <2>2. s \in Seq(S)
    BY <2>1
  <2> QED BY <2>2, Zenon DEF IsSeq
<1>2. TellsLast(s)
  BY DEF TellsLast
<1>3. \A f : a = Requests!Set(f) \/ b = Requests!Set(f) \/ c = Requests!Set(f)
                  \/ d = Requests!Set(f) => Sets(s, f)
  BY DEF Sets
<1> QED BY <1>1, <1>2, <1>3

\* Handlers of five steps.
LEMMA Five ==
    ASSUME NEW a, NEW b, NEW c, NEW d, NEW e,
           Silent(a), Silent(b), Silent(c), Silent(d) \/ ~MayRefuse(e)
    PROVE  /\ IsSeq(<<a, b, c, d, e>>)
           /\ TellsLast(<<a, b, c, d, e>>)
           /\ \A f : a = Requests!Set(f) \/ b = Requests!Set(f) \/ c = Requests!Set(f)
                  \/ d = Requests!Set(f) \/ e = Requests!Set(f) => Sets(<<a, b, c, d, e>>, f)
<1> DEFINE s == <<a, b, c, d, e>>
<1>1. IsSeq(s)
  <2> DEFINE S == {a, b, c, d, e}
  <2>1. a \in S /\ b \in S /\ c \in S /\ d \in S /\ e \in S
    OBVIOUS
  <2> HIDE DEF S
  <2>2. s \in Seq(S)
    BY <2>1
  <2> QED BY <2>2, Zenon DEF IsSeq
<1>2. TellsLast(s)
  BY DEF TellsLast
<1>3. \A f : a = Requests!Set(f) \/ b = Requests!Set(f) \/ c = Requests!Set(f)
                  \/ d = Requests!Set(f) \/ e = Requests!Set(f) => Sets(s, f)
  BY DEF Sets
<1> QED BY <1>1, <1>2, <1>3

\* Handlers of six steps.
LEMMA Six ==
    ASSUME NEW a, NEW b, NEW c, NEW d, NEW e, NEW g,
           Silent(a), Silent(b), Silent(c), Silent(d), Silent(e) \/ ~MayRefuse(g)
    PROVE  /\ IsSeq(<<a, b, c, d, e, g>>)
           /\ TellsLast(<<a, b, c, d, e, g>>)
           /\ \A f : a = Requests!Set(f) \/ b = Requests!Set(f) \/ c = Requests!Set(f)
                  \/ d = Requests!Set(f) \/ e = Requests!Set(f) \/ g = Requests!Set(f)
                  => Sets(<<a, b, c, d, e, g>>, f)
<1> DEFINE s == <<a, b, c, d, e, g>>
<1>1. IsSeq(s)
  <2> DEFINE S == {a, b, c, d, e, g}
  <2>1. a \in S /\ b \in S /\ c \in S /\ d \in S /\ e \in S /\ g \in S
    OBVIOUS
  <2> HIDE DEF S
  <2>2. s \in Seq(S)
    BY <2>1
  <2> QED BY <2>2, Zenon DEF IsSeq
<1>2. TellsLast(s)
  BY DEF TellsLast
<1>3. \A f : a = Requests!Set(f) \/ b = Requests!Set(f) \/ c = Requests!Set(f)
                  \/ d = Requests!Set(f) \/ e = Requests!Set(f) \/ g = Requests!Set(f) => Sets(s, f)
  BY DEF Sets
<1> QED BY <1>1, <1>2, <1>3

\* Handlers of requests about moderators and bans are sound.
LEMMA RoleHandlersSound ==
    /\ Sound(Requests!AddBan, Requests!ResAddBan)
    /\ Sound(Requests!RemoveBan, Requests!ResRemoveBan)
    /\ Sound(Requests!AddModerator, Requests!ResAddModerator)
    /\ Sound(Requests!RemoveModerator, Requests!ResRemoveModerator)
<1> DEFINE s == <<Requests!Source, Requests!Dest, Requests!Room,
                  Requests!Set("destRoomId"), Requests!Store>>
<1>1. IsSeq(s) /\ TellsLast(s) /\ Sets(s, "destRoomId")
  BY Five, Steps
<1> QED BY <1>1 DEF Sound, SetsAll, Requests!Pointer, Requests!Response, Requests!Plain,
           Requests!AddBan, Requests!ResAddBan, Requests!RemoveBan, Requests!ResRemoveBan,
           Requests!AddModerator, Requests!ResAddModerator, Requests!RemoveModerator,
           Requests!ResRemoveModerator

\* Handlers of requests about invitations are sound.
LEMMA InviteHandlersSound ==
    /\ Sound(Requests!AddInvite, Requests!ResAddInvite)
    /\ Sound(Requests!RemoveInvite, Requests!ResRemoveInvite)
<1> DEFINE s == <<Requests!Source, Requests!Dest, Requests!Room,
                  Requests!Set("destRoomId"), Requests!Try("role")>>
<1>1. IsSeq(s) /\ TellsLast(s) /\ Sets(s, "destRoomId")
  BY Five, Steps
<1> QED BY <1>1 DEF Sound, SetsAll, Requests!Pointer, Requests!Response, Requests!Plain,
           Requests!AddInvite, Requests!ResAddInvite, Requests!RemoveInvite,
           Requests!ResRemoveInvite

\* Handlers of requests about kicks are sound.
LEMMA KickAvatarSound ==
    Sound(Requests!KickAvatar, Requests!ResKickAvatar)
<1> DEFINE s == <<Requests!Source, Requests!Dest, Requests!Room,
                  Requests!Set("destRoomId"), Requests!Try("role"), Requests!Tell>>
<1>1. IsSeq(s) /\ TellsLast(s) /\ Sets(s, "destRoomId")
  BY Six, Steps
<1> QED BY <1>1 DEF Sound, SetsAll, Requests!Pointer, Requests!Response, Requests!Plain,
           Requests!KickAvatar, Requests!ResKickAvatar

\* Handlers of requests about lists of friends and ignored avatars are sound.
LEMMA ListHandlersSound ==
    /\ Sound(Requests!AddFriend, Requests!ResAddFriend)
    /\ Sound(Requests!AddIgnore, Requests!ResAddIgnore)
    /\ Sound(Requests!RemoveFriend, Requests!ResRemoveFriend)
<1> DEFINE s == <<Requests!Source, Requests!Dest, Requests!Store>>
<1> DEFINE t == <<Requests!Source, Requests!Dest, Requests!Store, Requests!Tell>>
<1>1. IsSeq(s) /\ TellsLast(s)
  BY Three, Steps
<1>2. IsSeq(t) /\ TellsLast(t)
  BY Four, Steps
<1> QED BY <1>1, <1>2 DEF Sound, SetsAll, Requests!Pointer, Requests!Response,
           Requests!Plain, Requests!AddFriend, Requests!ResAddFriend, Requests!AddIgnore,
           Requests!ResAddIgnore, Requests!RemoveFriend, Requests!ResRemoveFriend

\* RemoveIgnore.
LEMMA RemoveIgnoreSound ==
    Sound(Requests!RemoveIgnore, Requests!ResRemoveIgnore)
<1> DEFINE s == <<Requests!Source, Requests!Try("statement"),
                  Requests!Trust("destination"), Requests!Store>>
<1>1. IsSeq(s) /\ TellsLast(s)
  BY Four, Steps
<1> QED BY <1>1 DEF Sound, SetsAll, Requests!Pointer, Requests!Response, Requests!Plain,
           Requests!RemoveIgnore, Requests!ResRemoveIgnore

\* Handlers of requests about the contacts of an avatar are sound.
LEMMA StatusHandlersSound ==
    /\ Sound(Requests!FriendStatus, Requests!ResFriendStatus)
    /\ Sound(Requests!IgnoreStatus, Requests!ResIgnoreStatus)
<1> DEFINE s == <<Requests!Source, Requests!Set("srcAvatar")>>
<1>1. IsSeq(s) /\ TellsLast(s) /\ Sets(s, "srcAvatar")
  BY Two, Steps
<1> QED BY <1>1 DEF Sound, SetsAll, Requests!Pointer, Requests!Response, Requests!Plain,
           Requests!FriendStatus, Requests!ResFriendStatus, Requests!IgnoreStatus,
           Requests!ResIgnoreStatus

\* Handlers of requests about new rooms are sound.
LEMMA CreateRoomSound ==
    Sound(Requests!CreateRoom, Requests!ResCreateRoom)
<1> DEFINE s == <<Requests!Try("room exists"), Requests!Trust("creator"),
                  Requests!Set("room")>>
<1>1. IsSeq(s) /\ TellsLast(s) /\ Sets(s, "room")
  BY Three, Steps
<1> QED BY <1>1 DEF Sound, SetsAll, Requests!Pointer, Requests!Response, Requests!Plain,
           Requests!CreateRoom, Requests!ResCreateRoom

\* Handlers of requests about rooms destroyed are sound.
LEMMA DestroyRoomSound ==
    Sound(Requests!DestroyRoom, Requests!ResDestroyRoom)
<1> DEFINE s == <<Requests!Source, Requests!Room, Requests!Set("roomId"), Requests!Store,
                  Requests!Tell>>
<1>1. IsSeq(s) /\ TellsLast(s) /\ Sets(s, "roomId")
  BY Five, Steps
<1> QED BY <1>1 DEF Sound, SetsAll, Requests!Pointer, Requests!Response, Requests!Plain,
           Requests!DestroyRoom, Requests!ResDestroyRoom

\* Handlers of requests about rooms entered are sound.
LEMMA EnterRoomSound ==
    Sound(Requests!EnterRoom, Requests!ResEnterRoom)
<1> DEFINE s == <<Requests!Source, Requests!Room, Requests!Set("roomId"),
                  Requests!Try("entry"), Requests!Tell>>
<1>1. IsSeq(s) /\ TellsLast(s) /\ Sets(s, "roomId")
  BY Five, Steps
<1> QED BY <1>1 DEF Sound, SetsAll, Requests!Pointer, Requests!Response, Requests!Plain,
           Requests!EnterRoom, Requests!ResEnterRoom

\* Handlers of requests about rooms left and spoken in are sound.
LEMMA MemberHandlersSound ==
    /\ Sound(Requests!LeaveRoom, Requests!ResLeaveRoom)
    /\ Sound(Requests!SendRoomMessage, Requests!ResSendRoomMessage)
<1> DEFINE s == <<Requests!Source, Requests!Room, Requests!Set("roomId"), Requests!Tell>>
<1>1. IsSeq(s) /\ TellsLast(s) /\ Sets(s, "roomId")
  BY Four, Steps
<1> QED BY <1>1 DEF Sound, SetsAll, Requests!Pointer, Requests!Response, Requests!Plain,
           Requests!LeaveRoom, Requests!ResLeaveRoom, Requests!SendRoomMessage,
           Requests!ResSendRoomMessage

\* Handlers of requests about one room are sound.
LEMMA GetRoomSound ==
    Sound(Requests!GetRoom, Requests!ResGetRoom)
<1> DEFINE s == <<Requests!Room, Requests!Set("room")>>
<1>1. IsSeq(s) /\ TellsLast(s) /\ Sets(s, "room")
  BY Two, Steps
<1> QED BY <1>1 DEF Sound, SetsAll, Requests!Pointer, Requests!Response, Requests!Plain,
           Requests!GetRoom, Requests!ResGetRoom

\* Handlers of requests about all rooms are sound.
LEMMA GetRoomSummariesSound ==
    Sound(Requests!GetRoomSummaries, Requests!ResGetRoomSummaries)
<1> DEFINE s == <<Requests!Set("rooms")>>
<1>1. IsSeq(s) /\ TellsLast(s) /\ Sets(s, "rooms")
  BY One, Steps
<1> QED BY <1>1 DEF Sound, SetsAll, Requests!Pointer, Requests!Response, Requests!Plain,
           Requests!GetRoomSummaries, Requests!ResGetRoomSummaries

\* Handlers of requests about logins are sound.
LEMMA LoginAvatarSound ==
    Sound(Requests!LoginAvatar, Requests!ResLoginAvatar)
<1> DEFINE s == <<Requests!Source, Requests!Store, Requests!Try("load rooms"),
                  Requests!Set("avatar")>>
<1> DEFINE t == <<Requests!Source, Requests!Store, Requests!Tell, Requests!Set("avatar")>>
<1>1. IsSeq(s) /\ TellsLast(s) /\ Sets(s, "avatar")
  BY Four, Steps
<1>2. IsSeq(t) /\ TellsLast(t) /\ Sets(t, "avatar")
  BY Four, Steps
<1> QED BY <1>1, <1>2 DEF Sound, SetsAll, Requests!Pointer, Requests!Response,
           Requests!Plain, Requests!LoginAvatar, Requests!ResLoginAvatar

\* Handlers of requests about logouts are sound.
LEMMA LogoutAvatarSound ==
    Sound(Requests!LogoutAvatar, Requests!ResLogoutAvatar)
<1> DEFINE s == <<Requests!Try("statement"), Requests!Trust("avatar"), Requests!Tell>>
<1>1. IsSeq(s) /\ TellsLast(s)
  BY Three, Steps
<1> QED BY <1>1 DEF Sound, SetsAll, Requests!Pointer, Requests!Response, Requests!Plain,
           Requests!LogoutAvatar, Requests!ResLogoutAvatar

\* Handlers of requests about logins after a failover are sound.
LEMMA FailoverSound ==
    Sound(Requests!FailoverReLoginAvatar, Requests!ResFailoverReLoginAvatar)
<1> DEFINE s == <<Requests!Source, Requests!Store, Requests!Try("load rooms")>>
<1> DEFINE t == <<Requests!Source, Requests!Store, Requests!Try("load rooms"),
                  Requests!Tell>>
<1> DEFINE u == <<Requests!Source, Requests!Store, Requests!Tell>>
<1>1. IsSeq(s) /\ TellsLast(s)
  BY Three, Steps
<1>2. IsSeq(t) /\ TellsLast(t)
  BY Four, Steps
<1>3. IsSeq(u) /\ TellsLast(u)
  BY Three, Steps
<1> QED BY <1>1, <1>2, <1>3 DEF Sound, SetsAll, Requests!Pointer, Requests!Response,
           Requests!Plain, Requests!FailoverReLoginAvatar,
           Requests!ResFailoverReLoginAvatar

\* Handlers of requests about any avatar are sound.
LEMMA GetAnyAvatarSound ==
    Sound(Requests!GetAnyAvatar, Requests!ResGetAnyAvatar)
<1> DEFINE s == <<Requests!Source, Requests!Set("isOnline"), Requests!Set("avatar")>>
<1>1. IsSeq(s) /\ TellsLast(s) /\ Sets(s, "isOnline") /\ Sets(s, "avatar")
  BY Three, Steps
<1> QED BY <1>1 DEF Sound, SetsAll, Requests!Pointer, Requests!Response, Requests!Plain,
           Requests!GetAnyAvatar, Requests!ResGetAnyAvatar

\* Handlers of requests about attributes are sound.
LEMMA SetAvatarAttributesSound ==
    Sound(Requests!SetAvatarAttributes, Requests!ResSetAvatarAttributes)
<1> DEFINE s == <<Requests!Source, Requests!Set("avatar")>>
<1> DEFINE t == <<Requests!Source, Requests!Set("avatar"), Requests!Store>>
<1>1. IsSeq(s) /\ TellsLast(s) /\ Sets(s, "avatar")
  BY Two, Steps
<1>2. IsSeq(t) /\ TellsLast(t) /\ Sets(t, "avatar")
  BY Three, Steps
<1> QED BY <1>1, <1>2 DEF Sound, SetsAll, Requests!Pointer, Requests!Response,
           Requests!Plain, Requests!SetAvatarAttributes, Requests!ResSetAvatarAttributes

\* Handlers of requests about instant messages are sound.
LEMMA SendInstantMessageSound ==
    Sound(Requests!SendInstantMessage, Requests!ResSendInstantMessage)
<1> DEFINE s == <<Requests!Source, Requests!Dest, Requests!Try("ignored"), Requests!Tell>>
<1>1. IsSeq(s) /\ TellsLast(s)
  BY Four, Steps
<1> QED BY <1>1 DEF Sound, SetsAll, Requests!Pointer, Requests!Response, Requests!Plain,
           Requests!SendInstantMessage, Requests!ResSendInstantMessage

\* Handlers of requests about mail sent are sound.
LEMMA SendPersistentMessageSound ==
    Sound(Requests!SendPersistentMessage, Requests!ResSendPersistentMessage)
<1> DEFINE s == <<Requests!Dest, Requests!Source, Requests!Try("ignored"), Requests!Store,
                  Requests!Set("messageId"), Requests!Tell>>
<1> DEFINE t == <<Requests!Dest, Requests!Store, Requests!Set("messageId"), Requests!Tell>>
<1>1. IsSeq(s) /\ TellsLast(s) /\ Sets(s, "messageId")
  BY Six, Steps
<1>2. IsSeq(t) /\ TellsLast(t) /\ Sets(t, "messageId")
  BY Four, Steps
<1> QED BY <1>1, <1>2 DEF Sound, SetsAll, Requests!Pointer, Requests!Response,
           Requests!Plain, Requests!SendPersistentMessage,
           Requests!ResSendPersistentMessage

\* Handlers of requests about mail listed are sound.
LEMMA GetPersistentHeadersSound ==
    Sound(Requests!GetPersistentHeaders, Requests!ResGetPersistentHeaders)
<1> DEFINE s == <<Requests!Store, Requests!Set("headers")>>
<1>1. IsSeq(s) /\ TellsLast(s) /\ Sets(s, "headers")
  BY Two, Steps
<1> QED BY <1>1 DEF Sound, SetsAll, Requests!Pointer, Requests!Response, Requests!Plain,
           Requests!GetPersistentHeaders, Requests!ResGetPersistentHeaders

\* Handlers of requests about mail read are sound.
LEMMA GetPersistentMessageSound ==
    Sound(Requests!GetPersistentMessage, Requests!ResGetPersistentMessage)
<1> DEFINE s == <<Requests!Store, Requests!Set("message")>>
<1>1. IsSeq(s) /\ TellsLast(s) /\ Sets(s, "message")
  BY Two, Steps
<1> QED BY <1>1 DEF Sound, SetsAll, Requests!Pointer, Requests!Response, Requests!Plain,
           Requests!GetPersistentMessage, Requests!ResGetPersistentMessage

\* Handlers of requests about mail put away are sound.
LEMMA UpdateMailSound ==
    /\ Sound(Requests!UpdatePersistentMessage, Requests!ResUpdatePersistentMessage)
    /\ Sound(Requests!UpdatePersistentMessages, Requests!ResUpdatePersistentMessages)
<1> DEFINE s == <<Requests!Store>>
<1>1. IsSeq(s) /\ TellsLast(s)
  BY One, Steps
<1> QED BY <1>1 DEF Sound, SetsAll, Requests!Pointer, Requests!Response, Requests!Plain,
           Requests!UpdatePersistentMessage, Requests!ResUpdatePersistentMessage,
           Requests!UpdatePersistentMessages, Requests!ResUpdatePersistentMessages

\* Handlers of requests about versions are sound.
LEMMA SetApiVersionSound ==
    Sound(Requests!SetApiVersion, Requests!ResSetApiVersion)
<1> DEFINE s == <<Requests!Set("version"), Requests!Judge>>
<1>1. IsSeq(s) /\ TellsLast(s) /\ Sets(s, "version")
  BY Two, Steps
<1> QED BY <1>1 DEF Sound, SetsAll, Requests!Pointer, Requests!Response, Requests!Plain,
           Requests!SetApiVersion, Requests!ResSetApiVersion

\* The cases of OnIncoming.
LEMMA DispatchSound ==
    \A type \in DOMAIN Requests!Dispatch :
        Sound(Requests!Dispatch[type].ways, Requests!Dispatch[type].response)
<1> DEFINE D == Requests!Dispatch
           Good(type) == Sound(D[type].ways, D[type].response)
<1>1. DOMAIN D =
        {"LOGINAVATAR", "LOGOUTAVATAR", "CREATEROOM", "DESTROYROOM",
         "SENDINSTANTMESSAGE", "SENDROOMMESSAGE", "ADDFRIEND", "REMOVEFRIEND",
         "FRIENDSTATUS", "ADDIGNORE", "REMOVEIGNORE", "ENTERROOM", "LEAVEROOM",
         "ADDMODERATOR", "REMOVEMODERATOR", "ADDBAN", "REMOVEBAN", "ADDINVITE",
         "REMOVEINVITE", "KICKAVATAR", "GETROOM", "GETROOMSUMMARIES",
         "SENDPERSISTENTMESSAGE", "GETPERSISTENTHEADERS", "GETPERSISTENTMESSAGE",
         "UPDATEPERSISTENTMESSAGE", "UPDATEPERSISTENTMESSAGES", "IGNORESTATUS",
         "FAILOVER_RELOGINAVATAR", "SETAPIVERSION", "SETAVATARATTRIBUTES",
         "GETANYAVATAR"}
  BY DEF Requests!Dispatch
<1>2. \A w, r : Requests!Handle(w, r).ways = w /\ Requests!Handle(w, r).response = r
  BY DEF Requests!Handle
<1>3. /\ D["LOGINAVATAR"] = Requests!Handle(Requests!LoginAvatar, Requests!ResLoginAvatar)
      /\ D["LOGOUTAVATAR"] = Requests!Handle(Requests!LogoutAvatar, Requests!ResLogoutAvatar)
      /\ D["CREATEROOM"] = Requests!Handle(Requests!CreateRoom, Requests!ResCreateRoom)
      /\ D["DESTROYROOM"] = Requests!Handle(Requests!DestroyRoom, Requests!ResDestroyRoom)
      /\ D["SENDINSTANTMESSAGE"] =
           Requests!Handle(Requests!SendInstantMessage, Requests!ResSendInstantMessage)
      /\ D["SENDROOMMESSAGE"] =
           Requests!Handle(Requests!SendRoomMessage, Requests!ResSendRoomMessage)
      /\ D["ADDFRIEND"] = Requests!Handle(Requests!AddFriend, Requests!ResAddFriend)
      /\ D["REMOVEFRIEND"] = Requests!Handle(Requests!RemoveFriend, Requests!ResRemoveFriend)
      /\ D["FRIENDSTATUS"] = Requests!Handle(Requests!FriendStatus, Requests!ResFriendStatus)
      /\ D["ADDIGNORE"] = Requests!Handle(Requests!AddIgnore, Requests!ResAddIgnore)
      /\ D["REMOVEIGNORE"] = Requests!Handle(Requests!RemoveIgnore, Requests!ResRemoveIgnore)
      /\ D["ENTERROOM"] = Requests!Handle(Requests!EnterRoom, Requests!ResEnterRoom)
      /\ D["LEAVEROOM"] = Requests!Handle(Requests!LeaveRoom, Requests!ResLeaveRoom)
      /\ D["ADDMODERATOR"] = Requests!Handle(Requests!AddModerator, Requests!ResAddModerator)
      /\ D["REMOVEMODERATOR"] =
           Requests!Handle(Requests!RemoveModerator, Requests!ResRemoveModerator)
      /\ D["ADDBAN"] = Requests!Handle(Requests!AddBan, Requests!ResAddBan)
      /\ D["REMOVEBAN"] = Requests!Handle(Requests!RemoveBan, Requests!ResRemoveBan)
      /\ D["ADDINVITE"] = Requests!Handle(Requests!AddInvite, Requests!ResAddInvite)
      /\ D["REMOVEINVITE"] = Requests!Handle(Requests!RemoveInvite, Requests!ResRemoveInvite)
      /\ D["KICKAVATAR"] = Requests!Handle(Requests!KickAvatar, Requests!ResKickAvatar)
      /\ D["GETROOM"] = Requests!Handle(Requests!GetRoom, Requests!ResGetRoom)
      /\ D["GETROOMSUMMARIES"] =
           Requests!Handle(Requests!GetRoomSummaries, Requests!ResGetRoomSummaries)
      /\ D["SENDPERSISTENTMESSAGE"] =
           Requests!Handle(Requests!SendPersistentMessage, Requests!ResSendPersistentMessage)
      /\ D["GETPERSISTENTHEADERS"] =
           Requests!Handle(Requests!GetPersistentHeaders, Requests!ResGetPersistentHeaders)
      /\ D["GETPERSISTENTMESSAGE"] =
           Requests!Handle(Requests!GetPersistentMessage, Requests!ResGetPersistentMessage)
      /\ D["UPDATEPERSISTENTMESSAGE"] =
           Requests!Handle(Requests!UpdatePersistentMessage, Requests!ResUpdatePersistentMessage)
      /\ D["UPDATEPERSISTENTMESSAGES"] =
           Requests!Handle(Requests!UpdatePersistentMessages, Requests!ResUpdatePersistentMessages)
      /\ D["IGNORESTATUS"] = Requests!Handle(Requests!IgnoreStatus, Requests!ResIgnoreStatus)
      /\ D["FAILOVER_RELOGINAVATAR"] =
           Requests!Handle(Requests!FailoverReLoginAvatar, Requests!ResFailoverReLoginAvatar)
      /\ D["SETAPIVERSION"] = Requests!Handle(Requests!SetApiVersion, Requests!ResSetApiVersion)
      /\ D["SETAVATARATTRIBUTES"] =
           Requests!Handle(Requests!SetAvatarAttributes, Requests!ResSetAvatarAttributes)
      /\ D["GETANYAVATAR"] = Requests!Handle(Requests!GetAnyAvatar, Requests!ResGetAnyAvatar)
  BY ZenonT(30) DEF Requests!Dispatch
<1> HIDE DEF D
<1>4. /\ Good("LOGINAVATAR")
      /\ Good("LOGOUTAVATAR")
      /\ Good("CREATEROOM")
      /\ Good("DESTROYROOM")
      /\ Good("SENDINSTANTMESSAGE")
      /\ Good("SENDROOMMESSAGE")
      /\ Good("ADDFRIEND")
      /\ Good("REMOVEFRIEND")
      /\ Good("FRIENDSTATUS")
      /\ Good("ADDIGNORE")
      /\ Good("REMOVEIGNORE")
      /\ Good("ENTERROOM")
      /\ Good("LEAVEROOM")
      /\ Good("ADDMODERATOR")
      /\ Good("REMOVEMODERATOR")
      /\ Good("ADDBAN")
      /\ Good("REMOVEBAN")
      /\ Good("ADDINVITE")
      /\ Good("REMOVEINVITE")
      /\ Good("KICKAVATAR")
      /\ Good("GETROOM")
      /\ Good("GETROOMSUMMARIES")
      /\ Good("SENDPERSISTENTMESSAGE")
      /\ Good("GETPERSISTENTHEADERS")
      /\ Good("GETPERSISTENTMESSAGE")
      /\ Good("UPDATEPERSISTENTMESSAGE")
      /\ Good("UPDATEPERSISTENTMESSAGES")
      /\ Good("IGNORESTATUS")
      /\ Good("FAILOVER_RELOGINAVATAR")
      /\ Good("SETAPIVERSION")
      /\ Good("SETAVATARATTRIBUTES")
      /\ Good("GETANYAVATAR")
  BY <1>2, <1>3, RoleHandlersSound, InviteHandlersSound, KickAvatarSound, ListHandlersSound,
   RemoveIgnoreSound, StatusHandlersSound, CreateRoomSound, DestroyRoomSound, EnterRoomSound,
   MemberHandlersSound, GetRoomSound, GetRoomSummariesSound, LoginAvatarSound,
   LogoutAvatarSound, FailoverSound, GetAnyAvatarSound, SetAvatarAttributesSound,
   SendInstantMessageSound, SendPersistentMessageSound, GetPersistentHeadersSound,
   GetPersistentMessageSound, UpdateMailSound, SetApiVersionSound
<1> HIDE DEF Good
<1>5. \A type \in DOMAIN D : Good(type)
  BY <1>1, <1>4, Zenon
<1> QED BY <1>5 DEF Good, D

(***************************************************************************)
(* Requests: the invariant                                                 *)
(***************************************************************************)

\* What is left of the handler of a request sets what the response still
\* lacks, and refuses nothing once somebody was told.
RequestInv ==
    /\ request # Unset =>
          /\ request.type \in DOMAIN Requests!Dispatch
          /\ IsSeq(script) /\ TellsLast(script)
          /\ told => \A i \in 1..Len(script) : ~MayRefuse(script[i])
          /\ IF result = "SUCCESS"
             THEN SetsAll(script, Requests!Dispatch[request.type].response, assigned)
             ELSE script = <<>> /\ ~told
    /\ WrittenWasSet
    /\ RefusedToldNobody

\* What is left of a way after its next step.
LEMMA AfterOneStep ==
    ASSUME NEW s, s # <<>>, IsSeq(s), TellsLast(s)
    PROVE  /\ IsSeq(Tail(s)) /\ TellsLast(Tail(s))
           /\ ~Silent(Head(s)) => \A i \in 1..Len(Tail(s)) : ~MayRefuse(Tail(s)[i])
           /\ (\A i \in 1..Len(s) : ~MayRefuse(s[i]))
                 => \A i \in 1..Len(Tail(s)) : ~MayRefuse(Tail(s)[i])
           /\ \A f : Sets(s, f) => Head(s) = Requests!Set(f) \/ Sets(Tail(s), f)
<1>1. PICK S : s \in Seq(S)
  BY DEF IsSeq
<1>2. /\ Tail(s) \in Seq(S) /\ Len(Tail(s)) = Len(s) - 1 /\ Len(s) \in Nat /\ Len(s) > 0
      /\ Head(s) = s[1]
      /\ \A i \in 1..Len(Tail(s)) : Tail(s)[i] = s[i + 1]
  BY <1>1
<1>3. \A i \in 1..Len(Tail(s)) : i + 1 \in 1..Len(s) /\ 1 < i + 1
  BY <1>2
<1>4. IsSeq(Tail(s))
  BY <1>2 DEF IsSeq
<1>5. TellsLast(Tail(s))
  BY <1>2, <1>3 DEF TellsLast
<1>6. ~Silent(Head(s)) => \A i \in 1..Len(Tail(s)) : ~MayRefuse(Tail(s)[i])
  BY <1>2, <1>3 DEF TellsLast
<1>7. ASSUME NEW f, Sets(s, f), Head(s) # Requests!Set(f)
      PROVE  Sets(Tail(s), f)
  <2>1. PICK i \in 1..Len(s) : s[i] = Requests!Set(f)
    BY <1>7 DEF Sets
  <2>2. i - 1 \in 1..Len(Tail(s)) /\ Tail(s)[i - 1] = s[i]
    BY <1>2, <1>7, <2>1
  <2> QED BY <2>1, <2>2 DEF Sets
<1> QED BY <1>2, <1>3, <1>4, <1>5, <1>6, <1>7

\* A request arrives: its handler is sound.
LEMMA ReceiveKeepsRequests ==
    ASSUME RequestInv, NEW type \in DOMAIN Requests!Dispatch, NEW track,
           Requests!Receive(type, track)
    PROVE  RequestInv'
<1>1. /\ request' = [type |-> type, track |-> track]
      /\ script' \in Requests!Dispatch[type].ways
      /\ assigned' = Requests!Dispatch[type].response.initial
      /\ told' = FALSE /\ result' = "SUCCESS" /\ reply' = Unset
  BY DEF Requests!Receive
<1>2. Sound(Requests!Dispatch[type].ways, Requests!Dispatch[type].response)
  BY DispatchSound
<1>3. request'.type = type
  BY <1>1
<1> QED BY <1>1, <1>2, <1>3 DEF RequestInv, Sound, WrittenWasSet, RefusedToldNobody,
           Requests!WrittenWasSet, Requests!RefusedToldNobody

\* The handler goes on.
LEMMA ProceedKeepsRequests ==
    ASSUME RequestInv, Requests!Proceed
    PROVE  RequestInv'
<1>1. /\ request # Unset /\ script # <<>> /\ script' = Tail(script)
      /\ assigned' = IF Head(script).do = "set" THEN assigned \cup {Head(script).what}
                                                ELSE assigned
      /\ told' = (told \/ Head(script).do = "tell")
      /\ UNCHANGED <<request, result, reply>>
  BY DEF Requests!Proceed, Requests!Doing
<1>2. IsSeq(script) /\ TellsLast(script)
  BY <1>1 DEF RequestInv
<1>3. result = "SUCCESS"
  BY <1>1 DEF RequestInv
<1>4. SetsAll(script', Requests!Dispatch[request.type].response, assigned')
  <2>1. SetsAll(script, Requests!Dispatch[request.type].response, assigned)
    BY <1>1, <1>3 DEF RequestInv
  <2>2. ASSUME NEW f, f \in assigned \/ Sets(script, f)
        PROVE  f \in assigned' \/ Sets(script', f)
    <3>1. CASE f \in assigned
      BY <1>1, <3>1
    <3>2. CASE Head(script) = Requests!Set(f)
      BY <1>1, <3>2 DEF Requests!Set
    <3>3. CASE Sets(script, f) /\ Head(script) # Requests!Set(f)
      BY <1>1, <1>2, <3>3, AfterOneStep
    <3> QED BY <2>2, <3>1, <3>2, <3>3
  <2> QED BY <2>1, <2>2 DEF SetsAll
<1>5. told' => \A i \in 1..Len(script') : ~MayRefuse(script'[i])
  <2>1. CASE told
    BY <1>1, <1>2, <2>1, AfterOneStep DEF RequestInv
  <2>2. CASE Head(script).do = "tell"
    BY <1>1, <1>2, <2>2, AfterOneStep DEF Silent
  <2> QED BY <1>1, <2>1, <2>2
<1>6. IsSeq(script') /\ TellsLast(script')
  BY <1>1, <1>2, AfterOneStep
<1>7. WrittenWasSet' /\ RefusedToldNobody'
  BY <1>1 DEF RequestInv, WrittenWasSet, RefusedToldNobody,
              Requests!WrittenWasSet, Requests!RefusedToldNobody
<1> QED BY <1>1, <1>3, <1>4, <1>5, <1>6, <1>7 DEF RequestInv

\* The handler refuses: it has told nobody yet.
LEMMA RefuseKeepsRequests ==
    ASSUME RequestInv, Requests!Refuse
    PROVE  RequestInv'
<1>1. /\ request # Unset /\ script # <<>> /\ script' = <<>> /\ result' = "error"
      /\ MayRefuse(Head(script))
      /\ UNCHANGED <<request, assigned, told, reply>>
  BY DEF Requests!Refuse, Requests!Doing, MayRefuse
<1>2. ~told
  <2>1. PICK S : script \in Seq(S)
    BY <1>1 DEF RequestInv, IsSeq
  <2>2. 1 \in 1..Len(script) /\ Head(script) = script[1]
    BY <1>1, <2>1
  <2> QED BY <1>1, <2>2 DEF RequestInv
<1>3. IsSeq(script') /\ TellsLast(script') /\ \A i \in 1..Len(script') : FALSE
  <2>1. Len(script') = 0 /\ script' \in Seq({})
    BY <1>1
  <2> QED BY <2>1 DEF IsSeq, TellsLast
<1>4. WrittenWasSet' /\ RefusedToldNobody'
  BY <1>1 DEF RequestInv, WrittenWasSet, RefusedToldNobody,
              Requests!WrittenWasSet, Requests!RefusedToldNobody
<1> QED BY <1>1, <1>2, <1>3, <1>4 DEF RequestInv

\* The response is sent: nothing is left to do.
LEMMA RespondKeepsRequests ==
    ASSUME RequestInv, Requests!Respond
    PROVE  RequestInv'
<1> DEFINE response == Requests!Dispatch[request.type].response
<1>1. /\ request # Unset /\ script = <<>> /\ reply' = Requests!TheReply /\ request' = Unset
  BY DEF Requests!Respond, Requests!Clear
<1>2. /\ reply'.result = result /\ reply'.told = told
      /\ reply'.unset = Requests!Written \ assigned
  BY <1>1 DEF Requests!TheReply
<1>3. response.always \cap Requests!Pointer = {}
  BY <1>1, DispatchSound DEF RequestInv, Sound
<1>4. result = "SUCCESS" => Requests!Written \ assigned = {}
  <2>1. \A f : ~Sets(script, f)
    BY <1>1 DEF Sets
  <2> QED BY <1>1, <2>1 DEF RequestInv, SetsAll, Requests!Written
<1>5. result # "SUCCESS" => (Requests!Written \ assigned) \cap Requests!Pointer = {} /\ ~told
  BY <1>1, <1>3 DEF RequestInv, Requests!Written
<1> QED BY <1>1, <1>2, <1>4, <1>5 DEF RequestInv, WrittenWasSet, RefusedToldNobody,
           Requests!WrittenWasSet, Requests!RefusedToldNobody

\* The inductive invariant of the requests (HandleIncomingMessage).
THEOREM RequestsInvariant == ProcessSpec => []RequestInv
<1> USE DEF WrittenWasSet, RefusedToldNobody, Requests!WrittenWasSet,
            Requests!RefusedToldNobody
<1>1. ProcessInit => RequestInv
  BY DEF ProcessInit, RequestInv, Requests!NothingAsked
<1>2. ASSUME RequestInv, [ProcessNext]_processVars PROVE RequestInv'
  <2>1. CASE HandlerStep
    BY <1>2, <2>1, ReceiveKeepsRequests, ProceedKeepsRequests, RefuseKeepsRequests,
       RespondKeepsRequests DEF HandlerStep
  <2>2. CASE HandlerCrash
    BY <2>2 DEF HandlerCrash, RequestInv, Requests!End, Requests!Clear
  <2>3. CASE StartStep \/ OperatorStep \/ UNCHANGED processVars
    <3>1. UNCHANGED requestVars
      BY <2>3 DEF StartStep, OperatorStep, processVars
    <3> QED BY <1>2, <3>1 DEF RequestInv, requestVars
  <2> QED BY <1>2, <2>1, <2>2, <2>3 DEF ProcessNext
<1> QED BY <1>1, <1>2, PTL DEF ProcessSpec

\* A response that says SUCCESS carries only fields its handler has set, and
\* no response follows a pointer that was not set (the write functions of
\* protocol/ against the constructors of Protocol.cpp).
THEOREM AlwaysWrittenWasSet == ProcessSpec => []WrittenWasSet
<1>1. RequestInv => WrittenWasSet
  BY DEF RequestInv
<1> QED BY <1>1, RequestsInvariant, PTL

\* No handler tells anybody what it then refuses to do (the order of the
\* statements and the Send...Update calls in every handler).
THEOREM RefusedAlwaysToldNobody == ProcessSpec => []RefusedToldNobody
<1>1. RequestInv => RefusedToldNobody
  BY DEF RequestInv
<1> QED BY <1>1, RequestsInvariant, PTL
=============================================================================
