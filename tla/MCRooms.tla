------------------------------- MODULE MCRooms -------------------------------
(***************************************************************************)
(* Two small instances of Rooms in one: two galaxies with a room address   *)
(* each, where rooms come and go and nobody enters them, and one room      *)
(* address with every kind of role.                                        *)
(***************************************************************************)
EXTENDS Rooms, TLC

CONSTANTS x1, x2, g1, g2,
    MaxRoles  \* bound: members and roles, the creator's own aside

OneAddress == {x1}
TwoAddresses == {x1, x2}
TwoGalaxies == {g1, g2}
\* g1 is a base of both addresses: one galaxy's address may begin another's.
NestedBelow == [g \in TwoGalaxies |-> IF g = g1 THEN TwoAddresses ELSE {x2}]
OneBelow == [g \in {g1} |-> {x1}]
RoleSets == {{"PERSISTENT", "PRIVATE"}, {"PERSISTENT", "PASSWORD"}, {"PRIVATE"}}
StoredSets == {{"PERSISTENT"}, {}}
AllSets == StoredSets \cup RoleSets

AvatarSymmetry == Permutations(Avatar)

\* No action reads the last result code, so states that differ only there are
\* explored once.
NoResult == <<rooms, nextRoomId, tables, base, torn, faults>>

\* The states explored further: few enough people in and over the rooms.
Roles == UNION {
    ({r.id} \X {"member"} \X r.members)
    \cup ({r.id} \X {"moderator"} \X (r.moderators \ {r.creator}))
    \cup ({r.id} \X {"banned"} \X r.banned)
    \cup ({r.id} \X {"invited"} \X r.invited) : r \in rooms}

FewRoles == Cardinality(Roles) <= MaxRoles

Objects == rooms \cup roomTable

\* Nobody is in a room and everything has one creator; one object less after
\* a second failure.
Stored ==
    /\ Roles = {}
    /\ \A x \in Objects : x.attributes \in StoredSets
    /\ \A x, y \in Objects : x.creator = y.creator
    /\ nextRoomId + faults <= 5

\* One address and its galaxy, one row, at most one failure and one object
\* less after it.
Ruled ==
    /\ FewRoles
    /\ \A x \in Objects : x.attributes \in RoleSets /\ x.address = x1
    /\ base \subseteq {g1}
    /\ nextRoomId + faults <= 3 /\ nextRow <= 2 /\ faults <= 1

StoredOrRuled == Stored \/ Ruled
=============================================================================
