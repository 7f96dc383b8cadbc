----------------------------- MODULE MCMembership -----------------------------
(***************************************************************************)
(* Two game servers, two players of the first and one of the second.       *)
(***************************************************************************)
EXTENDS Membership, TLC

CONSTANTS a1, a2, b1, x1, g1, g2

MCAvatar == {a1, a2, b1}
MCServer == {g1, g2}
MCBelow == [g \in MCServer |-> IF g = g1 THEN {x1} ELSE {}]
MCAddressOf == [a \in MCAvatar |-> IF a = b1 THEN g2 ELSE g1]
MCSets == {{"PERSISTENT"}}

Symmetry == Permutations({a1, a2}) \cup Permutations(Slot)

\* No action or property here reads the last result code of an earlier request
\* or the history of Rooms, so states that differ only there are explored once.
Essential == <<rooms, nextRoomId, tables, faults, gatewayVars, viewVars>>

\* The states explored further: at most two players in rooms.
FewMembers == Cardinality(UNION {r.members : r \in rooms}) <= 2
=============================================================================
