---------------------------- MODULE MCMailPolicy ----------------------------
(***************************************************************************)
(* The two components that keep a record for each request and have no      *)
(* objects beside it: mailboxes, of which every request reads or changes   *)
(* rows, and the policy engine, which counts requests.                     *)
(*                                                                         *)
(* They share no state, so each is explored by itself: part says which.    *)
(*                                                                         *)
(* Two mailboxes, two categories and room for two rows; the default        *)
(* thresholds, half seconds, and any one action repeated often enough for  *)
(* the highest rate score, in bursts inside, on and outside the boundary   *)
(* of the window.                                                          *)
(***************************************************************************)
EXTENDS PersistentMessages, Policy, TLC

CONSTANTS a1, a2

VARIABLE part

MCAvatar == {a1, a2}
MCIgnores == {<<a1, a2>>}

CategorySymmetry == Permutations(Category)

recordVars == <<part, vars, policyVars>>

KeepsMail == part = "mail" /\ Next /\ UNCHANGED <<part, policyVars>>
Judges == part = "policy" /\ PolicyNext /\ UNCHANGED <<part, vars>>

RecordInit == part \in {"mail", "policy"} /\ Init /\ PolicyInit

RecordNext == KeepsMail \/ Judges

RecordSpec == RecordInit /\ [][RecordNext]_recordVars

\* No action reads the last result code, so states that differ only there are
\* explored once.
NoResult == <<part, mail, nextId, history, faults, policyVars>>

\* The states explored further: one action has been used.  Rate keys share
\* nothing.
OneFlood == Cardinality({a \in ActionType : log[a] # <<>>}) <= 1
=============================================================================
