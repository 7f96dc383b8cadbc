------------------------------ MODULE MCAvatars ------------------------------
(***************************************************************************)
(* Two small instances of Avatars in one: three avatars with one attribute *)
(* value and a few list entries, and two avatars whose attributes vary.    *)
(***************************************************************************)
EXTENDS Avatars, TLC

CONSTANT MaxEntries  \* bound: list entries stored at the same time

\* No action reads the last result code, so states that differ only there are
\* explored once.
NoResult == <<store, memory, history>>

FirstValue == CHOOSE t \in Attribute : TRUE

AvatarSymmetry == Permutations(Avatar)

Entries(list) == Cardinality({p \in Avatar \X Avatar : p[2] \in list[p[1]]})

AllEntries == Entries(dbFriend) + Entries(dbIgnore)

OneValue == \A a \in Avatar : dbAttr[a] = FirstValue /\ attr[a] = FirstValue

\* The states explored further: few enough stored list entries, and fewer if
\* attributes differ.
ContactsOrAttributes ==
    \/ AllEntries <= MaxEntries /\ OneValue
    \/ AllEntries < MaxEntries /\ Cardinality(row) <= 2
=============================================================================
