------------------------------- MODULE Process -------------------------------
(***************************************************************************)
(* The process from one start to the next: module Bootstrap until it       *)
(* serves, module Replies while it serves.                                 *)
(*                                                                         *)
(* The main loop handles one request after the other; a handler that       *)
(* follows a null pointer ends the process with the request unanswered,    *)
(* and systemd starts it again, into whatever the operator and the         *)
(* database have come to by then.  A request finds a process that went     *)
(* through every check.                                                    *)
(***************************************************************************)
EXTENDS Bootstrap

CONSTANT Track  \* the numbers clients give requests

VARIABLES request, script, assigned, told, result, reply  \* as in Replies

Serving == pc = "serving"

Requests == INSTANCE Replies WITH running <- Serving, None <- Unset

requestVars == <<request, script, assigned, told, result, reply>>
processVars == <<vars, requestVars>>

\* Tick: requests of game servers, one at a time, to their ends.
HandlerStep ==
    /\ UNCHANGED vars
    /\ \/ \E type \in DOMAIN Requests!Dispatch, track \in Track :
              Requests!Receive(type, track)
       \/ Requests!Proceed
       \/ Requests!Refuse
       \/ Requests!Respond

\* The process ends in the middle of a request.
HandlerCrash == Crash /\ Requests!End

\* The steps before the first tick.
StartStep == Start /\ UNCHANGED requestVars

\* The operator and the database go on whatever the process does.
OperatorStep ==
    /\ EditFile \/ EditEnvironment \/ DatabaseChanges \/ CreateTables \/ RecordVersion
    /\ UNCHANGED requestVars

ProcessInit == Init /\ Requests!NothingAsked

ProcessNext == HandlerStep \/ HandlerCrash \/ StartStep \/ OperatorStep

\* One thread that goes on with what it has begun, restarted when it ends.
ProcessSpec ==
    /\ ProcessInit
    /\ [][ProcessNext]_processVars
    /\ WF_processVars(StartStep)
    /\ WF_processVars(request # Unset /\ (HandlerStep \/ HandlerCrash))

(***************************************************************************)
(* Properties                                                              *)
(***************************************************************************)

\* What a response carries was set (the write functions of protocol/ against
\* Protocol.cpp).
WrittenWasSet == Requests!WrittenWasSet

\* A refused request told nobody (the order of calls in each handler).
RefusedToldNobody == Requests!RefusedToldNobody

=============================================================================
