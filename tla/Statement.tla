------------------------------ MODULE Statement ------------------------------
(***************************************************************************)
(* MariaDbStatement::Execute: one SQL statement after the other over one   *)
(* connection, each sent at most twice.                                    *)
(*                                                                         *)
(* Execute sends the statement; if the client library reports that the     *)
(* connection was lost, it pings the server once (MYSQL_OPT_RECONNECT      *)
(* makes the ping connect again), sets the session up and sends the        *)
(* statement a second time.  It cannot know whether the server had         *)
(* executed it the first time.                                             *)
(*                                                                         *)
(* Modelled for one key of a table with a unique key, and for the rows one *)
(* statement adds to a table without one (persistent_message).  The server *)
(* (external) executes a statement it receives, if ever, before the client *)
(* hears of the broken connection.                                         *)
(***************************************************************************)
EXTENDS Outcomes

CONSTANT Key  \* the keys of a table with a unique key

\* INSERT under a unique key, INSERT without one (AUTO_INCREMENT), DELETE
\* (an UPDATE by key behaves alike: doing it twice is doing it once), SELECT.
Kind == {"insert", "append", "delete", "select"}

VARIABLES
    pc,       \* where Execute stands
    kind,     \* the statement
    key,      \* the key it is about
    attempt,  \* the loop variable
    code,     \* what mysql_errno says of the last query
    table,    \* the keys that have a row
    copies,   \* the rows this statement has added to persistent_message, 3 for
              \*   more than two
    before,   \* history: table when Execute was entered
    failed    \* history: something failed since then

vars == <<pc, kind, key, attempt, code, table, copies, before, failed>>

statement == <<kind, key, table, copies, before>>

(***************************************************************************)
(* The server                                                              *)
(***************************************************************************)

\* The server executes the query, or refuses it: a duplicate key.
ServerExecutes ==
    /\ pc = "sent"
    /\ table' = CASE kind = "insert" -> table \cup {key}
                  [] kind = "delete" -> table \ {key}
                  [] OTHER -> table
    /\ copies' = IF kind = "append" /\ copies < 3 THEN copies + 1 ELSE copies
    /\ code' = IF kind = "insert" /\ key \in table THEN "refused" ELSE "none"
    /\ pc' = "executed"
    /\ UNCHANGED <<kind, key, attempt, before, failed>>

\* The server cannot execute it (lock wait timeout, disk full).
ServerFails ==
    /\ pc = "sent"
    /\ code' = "refused"
    /\ pc' = "executed"
    /\ failed' = TRUE
    /\ UNCHANGED <<statement, attempt>>

\* The connection breaks before the server has the query or before the
\* client has the answer.
ConnectionLost ==
    /\ pc \in {"sent", "executed"}
    /\ code' = "lost"
    /\ pc' = "answered"
    /\ failed' = TRUE
    /\ UNCHANGED <<statement, attempt>>

\* The answer arrives.
Answered ==
    /\ pc = "executed"
    /\ pc' = "answered"
    /\ UNCHANGED <<statement, attempt, code, failed>>

(***************************************************************************)
(* Execute                                                                 *)
(***************************************************************************)

\* A caller steps a statement that was not executed yet.
Start(k, b) ==
    /\ pc \in {"done", "threw"}
    /\ kind' = k
    /\ key' = b
    /\ attempt' = 0
    /\ code' = "none"
    /\ copies' = 0
    /\ before' = table
    /\ failed' = FALSE
    /\ pc' = "sent"
    /\ UNCHANGED table

\* Wrong on purpose: the loop is not left when the query succeeded.
BreakForgotten ==
    /\ pc = "answered" /\ code = "none"
    /\ pc' = IF attempt = 0 THEN "sent" ELSE "store"
    /\ attempt' = 1
    /\ UNCHANGED <<statement, code, failed>>

\* mysql_real_query returned 0: leave the loop.
Break ==
    /\ pc = "answered" /\ code = "none"
    /\ pc' = "store"
    /\ UNCHANGED <<statement, attempt, code, failed>>

\* Wrong on purpose: every attempt may be followed by another.
CanRetryAlways == code = "lost"

CanRetry == attempt = 0 /\ code = "lost"

\* mysql_ping connects again, ConfigureSession succeeds, the loop goes on.
Retry ==
    /\ pc = "answered" /\ CanRetry
    /\ attempt' = 1
    /\ pc' = "sent"
    /\ UNCHANGED <<statement, code, failed>>

\* The ping fails, or ConfigureSession throws.
ReconnectFails ==
    /\ pc = "answered" /\ CanRetry
    /\ pc' = "threw"
    /\ failed' = TRUE
    /\ UNCHANGED <<statement, attempt, code>>

\* Any other error, and the second loss of the connection.
GiveUp ==
    /\ pc = "answered" /\ code # "none" /\ ~CanRetry
    /\ pc' = "threw"
    /\ UNCHANGED <<statement, attempt, code, failed>>

StoreResult ==
    /\ pc = "store"
    /\ pc' = "done"
    /\ UNCHANGED <<statement, attempt, code, failed>>

\* mysql_store_result loses the connection while it reads the rows of a
\* SELECT; other statements have no result to read.
StoreResultFails ==
    /\ pc = "store" /\ kind = "select"
    /\ pc' = "threw"
    /\ failed' = TRUE
    /\ UNCHANGED <<statement, attempt, code>>

Init ==
    /\ pc = "done"
    /\ kind = "select"
    /\ key \in Key
    /\ attempt = 0
    /\ code = "none"
    /\ table \in SUBSET Key
    /\ copies = 0
    /\ before = table
    /\ failed = FALSE

\* A step of the statement that is being executed.
Run ==
    \/ ServerExecutes \/ ServerFails \/ ConnectionLost \/ Answered
    \/ Break \/ Retry \/ ReconnectFails \/ GiveUp
    \/ StoreResult \/ StoreResultFails

Next == Run \/ \E k \in Kind, b \in Key : Start(k, b)

\* Every call of the client library returns: the server answers, or the
\* connection breaks.
Spec == Init /\ [][Next]_vars /\ WF_vars(Run)

(***************************************************************************)
(* Properties                                                              *)
(***************************************************************************)

\* Every variable has its type; no statement is stored three times.
TypeOK ==
    /\ pc \in {"sent", "executed", "answered", "store", "done", "threw"}
    /\ kind \in Kind
    /\ attempt \in 0..1
    /\ code \in {"none", "refused", "lost"}
    /\ key \in Key
    /\ table \subseteq Key /\ before \subseteq Key
    /\ copies \in 0..2
    /\ failed \in BOOLEAN

\* What the statement may come to, by the operators other modules use for it.
Promised ==
    CASE kind = "insert" -> Insert(before, key, failed)
      [] kind = "delete" -> Delete(before, key, failed)
      [] kind = "select" -> Execute(before, before, failed)
      [] kind = "append" -> AppendRow(0, failed)

\* However the connection breaks, and whatever the server had done by then,
\* Execute ends in one of the outcomes the operators Insert, Delete, Execute
\* and AppendRow of module Outcomes promise its callers, and without a failure
\* in the one good outcome (the retry loop of Execute).
OutcomePromised ==
    pc \in {"done", "threw"} =>
        \E o \in Promised :
            /\ o.db = IF kind = "append" THEN copies ELSE table
            /\ o.ok = (pc = "done")

\* Execute ends, although the connection may break at each attempt and
\* whenever the session is set up again (the bound on attempts).
ExecuteEnds == pc = "sent" ~> pc \in {"done", "threw"}
=============================================================================
