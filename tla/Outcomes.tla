------------------------------ MODULE Outcomes ------------------------------
(***************************************************************************)
(* What a caller can observe of one SQL statement sent through             *)
(* MariaDbStatement::Execute: the value it leaves in the table, whether    *)
(* the call returned or threw DatabaseException, and whether that took a   *)
(* failure of the connection (counted against the bound MaxFaults of the   *)
(* module that uses it).  Every statement is autocommitted on its own: no  *)
(* caller opens a transaction (TransactionScope of Database.hpp is never   *)
(* used).                                                                  *)
(*                                                                         *)
(* A broken connection has two faces.  The statement may be lost before    *)
(* the server saw it, or its effect may be stored and only the answer      *)
(* lost; Execute throws in both cases (after its single retry), so the     *)
(* caller cannot tell them apart.                                          *)
(***************************************************************************)
EXTENDS Naturals

\* The statement was executed and Execute returned.
Ran(new) == [db |-> new, ok |-> TRUE, fault |-> 0]

\* The server refused the statement (duplicate key, foreign key).
Refused(old) == [db |-> old, ok |-> FALSE, fault |-> 0]

\* No statement was issued because an earlier one threw.
NotRun(old) == [db |-> old, ok |-> FALSE, fault |-> 0]

\* The code path needs no statement here.
NotNeeded(old) == [db |-> old, ok |-> TRUE, fault |-> 0]

\* Execute: one statement that turns the stored value old into new.
Execute(old, new, mayFail) ==
    {Ran(new)} \cup
    {[db |-> v, ok |-> FALSE, fault |-> 1] : v \in IF mayFail THEN {old, new} ELSE {}}

\* INSERT of the key b into the table (or partial key) old: a duplicate key
\* is refused by the server whatever the connection does.
Insert(old, b, mayFail) ==
    IF b \in old THEN {Refused(old)} ELSE Execute(old, old \cup {b}, mayFail)

\* DELETE of the key b: deleting what is not there succeeds.
Delete(old, b, mayFail) == Execute(old, old \ {b}, mayFail)

\* INSERT without a unique key into old rows.  Sent twice it stores two rows,
\* and returns if the second answer arrives.
AppendRow(old, mayFail) ==
    {Ran(old + 1)} \cup
    (IF mayFail
     THEN {[db |-> old + 2, ok |-> TRUE, fault |-> 1]} \cup
          {[db |-> n, ok |-> FALSE, fault |-> 1] : n \in old..(old + 2)}
     ELSE {})
=============================================================================
