-------------------------------- MODULE Policy --------------------------------
(***************************************************************************)
(* policy::PolicyEngine: a risk score for what an avatar does, from the    *)
(* kind of action, its payload and how often the avatar did it within the  *)
(* last seconds.  EvaluatePolicyEvent of the handlers logs the decision    *)
(* and enforces nothing.                                                   *)
(*                                                                         *)
(* One avatar at one address: the rate key is then its action, and keys    *)
(* share nothing.  Every caller says that actor and target exist.  Time is *)
(* the steady clock, in ticks, finer than the seconds the window is        *)
(* counted in.                                                             *)
(***************************************************************************)
EXTENDS Naturals, Sequences

CONSTANTS
    TicksPerSecond,
    Elapse,          \* ticks that may pass between two requests
    Payload,         \* payload sizes in use
    SoftWarn, Throttle, Block,  \* thresholds of the configuration
    MaxTime,         \* bound: ticks
    MaxEvaluations   \* bound: requests with one rate key

ASSUME PolicyAssumption ==
    /\ TicksPerSecond \in Nat \ {0}
    /\ Elapse \subseteq Nat /\ Payload \subseteq Nat
    /\ SoftWarn \in Nat /\ Throttle \in Nat /\ Block \in Nat
    /\ MaxTime \in Nat /\ MaxEvaluations \in Nat

VARIABLES
    now,           \* Clock::now()
    recentActions, \* the queue of each rate key
    decision,      \* the type of the last decision
    last,          \* history: the action it was about
    log            \* history: when each action was evaluated

policyVars == <<now, recentActions, decision, last, log>>

ActionType == {"Login", "RoomJoin", "MessageSend", "Invite", "Ban"}

\* What the handlers pass: only messages (and the password of a room) have a
\* payload; the target is a location, a room or an address and may be empty.
Event == {e \in [action : ActionType, payloadSize : Payload \cup {0}, hasTarget : BOOLEAN] :
             e.action \notin {"MessageSend", "RoomJoin"} => e.payloadSize = 0}

RateWindowSeconds == 10

\* duration_cast<seconds>(now - t), which cuts off the fraction.
SecondsSince(t) == (now - t) \div TicksPerSecond

\* Wrong on purpose: a request is forgotten as soon as it is ten seconds old.
ExpiredEarly(t) == SecondsSince(t) >= RateWindowSeconds

Expired(t) == SecondsSince(t) > RateWindowSeconds

\* GetRecentActionCount: append now, then drop what is expired at the front.
RecentActions(a) ==
    LET queue == Append(recentActions[a], now)
        keep  == CHOOSE n \in 1..Len(queue) :
                    ~Expired(queue[n]) /\ \A i \in 1..(n - 1) : Expired(queue[i])
    IN SubSeq(queue, keep, Len(queue))

ActionScore(a) ==
    CASE a = "Login" -> 5
      [] a = "RoomJoin" -> 10
      [] a = "MessageSend" -> 15
      [] a = "Invite" -> 20
      [] a = "Ban" -> 25

PayloadScore(n) == IF n > 500 THEN 20 ELSE IF n > 200 THEN 10 ELSE 0

\* Wrong on purpose: the steps add up.
RateScoreSummed(n) ==
    (IF n > 20 THEN 35 ELSE 0) + (IF n > 10 THEN 20 ELSE 0) + (IF n > 5 THEN 10 ELSE 0)

RateScore(n) == IF n > 20 THEN 35 ELSE IF n > 10 THEN 20 ELSE IF n > 5 THEN 10 ELSE 0

CalculateRiskScore(e, count) ==
    ActionScore(e.action) + PayloadScore(e.payloadSize)
    + (IF e.hasTarget THEN 0 ELSE 10) + RateScore(count)

Decide(score) ==
    IF score >= Block THEN "Block"
    ELSE IF score >= Throttle THEN "Throttle"
    ELSE IF score >= SoftWarn THEN "SoftWarn"
    ELSE "Allow"

\* PolicyEngine::Evaluate, with policyEnabled.
Evaluate(e) ==
    /\ Len(log[e.action]) < MaxEvaluations
    /\ recentActions' = [recentActions EXCEPT ![e.action] = RecentActions(e.action)]
    /\ decision' = Decide(CalculateRiskScore(e, Len(RecentActions(e.action))))
    /\ last' = {e.action}
    /\ log' = [log EXCEPT ![e.action] = Append(@, now)]
    /\ UNCHANGED now

Pass(d) ==
    /\ now + d <= MaxTime
    /\ now' = now + d
    /\ last' = {}
    /\ UNCHANGED <<recentActions, decision, log>>

PolicyInit ==
    /\ now = 0
    /\ recentActions = [a \in ActionType |-> <<>>]
    /\ decision = "Allow"
    /\ last = {}
    /\ log = [a \in ActionType |-> <<>>]

PolicyNext == (\E e \in Event : Evaluate(e)) \/ (\E d \in Elapse : Pass(d))

PolicySpec == PolicyInit /\ [][PolicyNext]_policyVars

(***************************************************************************)
(* Properties                                                              *)
(***************************************************************************)

\* The queue of an action just evaluated holds the evaluations of that
\* action that are not older than the window, none missing and none twice,
\* whenever the earlier ones were pruned (GetRecentActionCount).
WindowExact ==
    \A a \in last : \E gone \in 0..Len(log[a]) :
        /\ recentActions[a] = SubSeq(log[a], gone + 1, Len(log[a]))
        /\ \A i \in 1..Len(log[a]) :
              i > gone <=> now - log[a][i] < (RateWindowSeconds + 1) * TicksPerSecond

\* With the thresholds of the default configuration nothing a handler can
\* pass is ever decided Block, however often it is repeated: the callers
\* never say that actor or target is missing, and the other scores do not
\* reach the threshold (CalculateRiskScore, EvaluatePolicyEvent).
NeverBlocked == decision # "Block"
=============================================================================
