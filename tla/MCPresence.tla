----------------------------- MODULE MCPresence -----------------------------
(***************************************************************************)
(* A game server with its SYSTEM avatar and two players.                   *)
(***************************************************************************)
EXTENDS Presence, TLC

CONSTANTS s1, p1, p2, g1,
    MaxEntries  \* bound: friend entries stored at the same time

MCAvatar == {s1, p1, p2}
MCSystem == {s1}
MCAddress == {g1}
MCAddressOf == [a \in MCAvatar |-> g1]
PlayerSymmetry == Permutations({p1, p2})

\* No action reads the last result code, so states that differ only there are
\* explored once.
NoResult == <<store, memory, history, presenceVars>>

\* The states explored further: few stored list entries, all between players.
FewEntries ==
    /\ \A a \in System : Contacts(a) = {}
    /\ \A a \in Avatar : Contacts(a) \cap System = {}
    /\ Cardinality({p \in Avatar \X Avatar : p[2] \in Contacts(p[1])}) <= MaxEntries
=============================================================================
