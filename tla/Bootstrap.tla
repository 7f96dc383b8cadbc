------------------------------ MODULE Bootstrap ------------------------------
(***************************************************************************)
(* From the start of the process to its first tick: BuildConfiguration,    *)
(* CreateDatabaseConnection, the MariaDbDatabaseConnection constructor and *)
(* ValidateDatabaseSchemaOrThrow.  Whatever fails on the way throws out of *)
(* main; systemd starts the process again (Restart=always).                *)
(*                                                                         *)
(* Meanwhile an operator edits the configuration file and the environment, *)
(* applies migrations to the database, and the database goes down and      *)
(* comes back.  Of the options only those that decide what happens here    *)
(* are modelled.                                                           *)
(***************************************************************************)
EXTENDS Naturals, FiniteSets

CONSTANTS
    CommandLine,   \* the options given on the command line
    File,          \* the contents the configuration file may have
    Environment,   \* what STATIONCHAT_DB_PASSWORD may be, Unset if it is not
    Unset,         \* no such variable, no such file
    Password,      \* the password the database asks for
    SslModeMacro,  \* the mysql.h of the build defines MYSQL_OPT_SSL_MODE and
                   \*   the SSL_MODE names as macros
    MaxVersion     \* bound: the newest migration

Option == {"engine", "user", "schema", "password", "ssl_mode"}

\* The options given somewhere: a function from some of the options.
Given(o) == DOMAIN o \subseteq Option

ASSUME BootstrapAssumption ==
    /\ Given(CommandLine)
    /\ \A f \in File : f = Unset \/ Given(f)
    /\ SslModeMacro \in BOOLEAN
    /\ MaxVersion \in Nat
    /\ \A t \in SUBSET (1..MaxVersion) : t # Unset

Default == [engine |-> "mariadb", user |-> "", schema |-> "", password |-> "",
            ssl_mode |-> ""]

Mode == {"disabled", "preferred", "required", "verify_ca", "verify_identity"}

\* Of the spellings with capitals, those all in capitals.
Capitals == [DISABLED |-> "disabled", PREFERRED |-> "preferred", REQUIRED |-> "required",
             VERIFY_CA |-> "verify_ca", VERIFY_IDENTITY |-> "verify_identity"]

ToLowerCopy(m) == IF m \in DOMAIN Capitals THEN Capitals[m] ELSE m

kRequiredSchemaVersion == 1
latestKnownVersion == 1

VARIABLES
    file, env,  \* what the operator has set up now
    up,         \* the database answers
    table,      \* schema_version: Unset if there is no such table, else its rows
    pc,         \* what the process does next
    config,     \* StationChatConfig
    startEnv,   \* the environment the process was started with
    tls,        \* the connection is encrypted
    version,    \* currentVersion
    seen,       \* history: the rows when the version was read
    refusal     \* history: the step that ended the last start, "" if none did

operator == <<file, env, up, table>>
process == <<config, startEnv, tls, version, seen>>
vars == <<operator, pc, process, refusal>>

(***************************************************************************)
(* The process                                                             *)
(***************************************************************************)

\* Wrong on purpose: a start that failed is not repeated.
LaunchOnce ==
    /\ pc = "stopped" /\ refusal = ""
    /\ pc' = "configure"
    /\ startEnv' = env
    /\ refusal' = ""
    /\ UNCHANGED <<operator, config, tls, version, seen>>

\* systemd starts it, at boot and five seconds after it ended.
Launch ==
    /\ pc = "stopped"
    /\ pc' = "configure"
    /\ startEnv' = env
    /\ refusal' = ""
    /\ UNCHANGED <<operator, config, tls, version, seen>>

\* An exception leaves main.
Throw(step) ==
    /\ pc' = "stopped"
    /\ refusal' = step
    /\ UNCHANGED <<operator, process>>

\* po::store keeps what the command line gave and replaces what is defaulted.
Stored(f) ==
    [o \in Option |-> IF o \in DOMAIN CommandLine THEN CommandLine[o]
                      ELSE IF o \in DOMAIN f THEN f[o] ELSE Default[o]]

\* The variable replaces the option whenever there is one.
Overridden(c) ==
    IF startEnv = Unset THEN c ELSE [c EXCEPT !.password = startEnv]

BuildConfiguration ==
    /\ pc = "configure" /\ file # Unset
    /\ config' = Overridden(Stored(file))
    /\ pc' = "check"
    /\ UNCHANGED <<operator, startEnv, tls, version, seen, refusal>>

NoConfigurationFile == pc = "configure" /\ file = Unset /\ Throw("configure")

\* The checks of CreateDatabaseConnection.
Complete == config.engine = "mariadb" /\ config.user # "" /\ config.schema # ""

CreateDatabaseConnection ==
    /\ pc = "check" /\ Complete
    /\ pc' = "tls"
    /\ UNCHANGED <<operator, process, refusal>>

Incomplete == pc = "check" /\ ~Complete /\ Throw("check")

\* Wrong on purpose: a mode the library does not know is dropped.
ModeAcceptedDropped(m) == ToLowerCopy(m) \in Mode \cup {""}

ModeAccepted(m) ==
    ToLowerCopy(m) \in IF SslModeMacro THEN Mode \cup {""} ELSE {"preferred", ""}

ConfigureTls ==
    /\ pc = "tls" /\ ModeAccepted(config.ssl_mode)
    /\ pc' = "connect"
    /\ UNCHANGED <<operator, process, refusal>>

ModeRefused == pc = "tls" /\ ~ModeAccepted(config.ssl_mode) /\ Throw("tls")

\* How the client library connects (external): with the mode it was given,
\* else encrypted or not.
Encrypted ==
    LET mode == ToLowerCopy(config.ssl_mode) IN
    CASE SslModeMacro /\ mode = "disabled" -> {FALSE}
      [] SslModeMacro /\ mode \in Mode \ {"disabled", "preferred"} -> {TRUE}
      [] OTHER -> BOOLEAN

Connects == up /\ config.password = Password

\* mysql_real_connect and ConfigureSession.
Connect ==
    /\ pc = "connect" /\ Connects
    /\ tls' \in Encrypted
    /\ pc' = "find table"
    /\ UNCHANGED <<operator, config, startEnv, version, seen, refusal>>

ConnectFails == pc = "connect" /\ ~Connects /\ Throw("connect")

\* TableExists, the first statement of ValidateDatabaseSchemaOrThrow.
TableExists ==
    /\ pc = "find table" /\ up /\ table # Unset
    /\ pc' = "read version"
    /\ UNCHANGED <<operator, process, refusal>>

NoTable == pc = "find table" /\ (~up \/ table = Unset) /\ Throw("find table")

\* Wrong on purpose: a table without rows counts as the required version.
ReadSchemaVersionDefaulted ==
    /\ pc = "read version" /\ up
    /\ version' \in IF table = {} THEN {kRequiredSchemaVersion} ELSE table
    /\ seen' = table
    /\ pc' = "compare"
    /\ UNCHANGED <<operator, config, startEnv, tls, refusal>>

\* ReadSchemaVersion, the second: LIMIT 1 without an order, so any row.
ReadSchemaVersion ==
    /\ pc = "read version" /\ up
    /\ version' \in table
    /\ seen' = table
    /\ pc' = "compare"
    /\ UNCHANGED <<operator, config, startEnv, tls, refusal>>

NoVersion == pc = "read version" /\ (~up \/ table = {}) /\ Throw("read version")

Supported(v) == v <= latestKnownVersion /\ v >= kRequiredSchemaVersion

Serve ==
    /\ pc = "compare" /\ Supported(version)
    /\ pc' = "serving"
    /\ UNCHANGED <<operator, process, refusal>>

Unsupported == pc = "compare" /\ ~Supported(version) /\ Throw("compare")

\* A running process ends, in one of the ways other modules describe.
Crash == pc = "serving" /\ Throw("")

(***************************************************************************)
(* The operator and the database                                           *)
(***************************************************************************)

EditFile ==
    /\ file' \in File
    /\ UNCHANGED <<env, up, table, pc, process, refusal>>

EditEnvironment ==
    /\ env' \in Environment
    /\ UNCHANGED <<file, up, table, pc, process, refusal>>

DatabaseChanges ==
    /\ up' = ~up
    /\ UNCHANGED <<file, env, table, pc, process, refusal>>

\* A migration starts: the baseline creates the table.
CreateTables ==
    /\ up /\ table = Unset
    /\ table' = {}
    /\ UNCHANGED <<file, env, up, pc, process, refusal>>

\* Its last statement records it: INSERT IGNORE into a table whose key is the
\* version, so the rows of earlier migrations stay.  Migrations are applied in
\* version order.
RecordVersion ==
    /\ up /\ table # Unset
    /\ \E v \in 1..MaxVersion :
        /\ 1..(v - 1) \subseteq table
        /\ table' = table \cup {v}
    /\ UNCHANGED <<file, env, up, pc, process, refusal>>

Init ==
    /\ file \in File /\ env \in Environment /\ up \in BOOLEAN
    /\ table = Unset
    /\ pc = "stopped"
    /\ config = Default
    /\ startEnv = Unset
    /\ tls = FALSE
    /\ version = 0
    /\ seen = {}
    /\ refusal = ""

Start ==
    \/ Launch \/ BuildConfiguration \/ NoConfigurationFile
    \/ CreateDatabaseConnection \/ Incomplete
    \/ ConfigureTls \/ ModeRefused \/ Connect \/ ConnectFails
    \/ TableExists \/ NoTable \/ ReadSchemaVersion \/ NoVersion
    \/ Serve \/ Unsupported

Next ==
    \/ Start \/ Crash
    \/ EditFile \/ EditEnvironment \/ DatabaseChanges \/ CreateTables \/ RecordVersion

\* The process runs and systemd restarts it; an operator owes nothing.
Spec == Init /\ [][Next]_vars /\ WF_vars(Start)

(***************************************************************************)
(* Properties                                                              *)
(***************************************************************************)

\* Behind a process that serves every required migration has run to its last
\* statement, although the table and its row are found by two statements,
\* between and before which a migration may be half done
\* (ValidateDatabaseSchemaOrThrow, ReadSchemaVersion).
SchemaComplete == pc = "serving" => 1..kRequiredSchemaVersion \subseteq table

\* A process serves over no schema that was newer than it supports when it
\* looked ("If the schema is incompatible, stationchat exits immediately",
\* README.md).  It does: of the rows of two migrations it may read the first.
SchemaSupported ==
    pc = "serving" => seen \subseteq kRequiredSchemaVersion..latestKnownVersion

\* A process that was told to encrypt its connection never serves over one
\* that is not encrypted (ConfigureTls throws rather than go without).
NoSilentDowngrade ==
    pc = "serving" /\ ToLowerCopy(config.ssl_mode) \in {"required", "verify_ca", "verify_identity"}
        => tls

\* What the operator has set up now would let a process serve.
Ready ==
    /\ up /\ file # Unset /\ table = {1}
    /\ LET c == IF env = Unset THEN Stored(file)
                ELSE [Stored(file) EXCEPT !.password = env]
       IN /\ c.engine = "mariadb" /\ c.user # "" /\ c.schema # ""
          /\ c.password = Password /\ ModeAccepted(c.ssl_mode)

\* Once the operator has repaired everything and leaves it so, the restarts
\* bring the server up, whatever the process read while it was wrong
\* (Restart=always; every failed start ends the process).
StartsWhenReady == <>[]Ready /\ <>[][FALSE]_operator => []<>(pc = "serving")
=============================================================================
