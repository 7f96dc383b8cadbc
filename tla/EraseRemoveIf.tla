---------------------------- MODULE EraseRemoveIf ----------------------------
(***************************************************************************)
(* DestroyRoom's last two statements: std::remove_if over the vector       *)
(* rooms_ of std::unique_ptr, then erase.                                  *)
(*                                                                         *)
(* remove_if keeps an entry by moving it down into the first slot to be    *)
(* given up, which destroys what that slot owned while the rest of the     *)
(* vector has still to be looked at.  The predicate compares each room     *)
(* with the room to be destroyed through a pointer to it, and that room is *)
(* one of the entries.  Module Rooms takes this for one step that removes  *)
(* the room.                                                               *)
(***************************************************************************)
EXTENDS Naturals, Sequences, FiniteSets

CONSTANTS
    Object,   \* rooms, each with an id of its own
    Null,     \* a slot that was moved from
    MaxLength \* bound: entries in the vector

VARIABLES
    before,   \* the vector as it was
    target,   \* the room to be destroyed
    items,    \* the vector
    at,       \* the slot remove_if looks at
    put,      \* the slot it moves the next entry to keep to
    freed,    \* the objects that were destroyed
    done      \* erase has returned

fixed == <<before, target>>
vars == <<fixed, items, at, put, freed, done>>

Entries(s) == {s[i] : i \in DOMAIN s} \ {Null}

Init ==
    /\ before \in UNION {[1 .. n -> Object] : n \in 1 .. MaxLength}
    /\ Cardinality(Entries(before)) = Len(before)
    /\ target \in Entries(before)
    /\ items = before
    /\ at = 1 /\ put = 1
    /\ freed = {}
    /\ done = FALSE

\* What the predicate can say of an entry.  The id of a destroyed room may
\* read as any number, the id of the entry included.
Predicate(object) == IF target \in freed THEN BOOLEAN ELSE {object = target}

Looking == ~done /\ at <= Len(items)

Remove ==
    /\ Looking /\ TRUE \in Predicate(items[at])
    /\ at' = at + 1
    /\ UNCHANGED <<fixed, items, put, freed, done>>

\* Before the first entry to go, entries stay where they are.
KeepInPlace ==
    /\ Looking /\ put = at /\ FALSE \in Predicate(items[at])
    /\ at' = at + 1 /\ put' = put + 1
    /\ UNCHANGED <<fixed, items, freed, done>>

KeepMoved ==
    /\ Looking /\ put < at /\ FALSE \in Predicate(items[at])
    /\ items' = [items EXCEPT ![put] = items[at], ![at] = Null]
    /\ freed' = freed \cup ({items[put]} \ {Null})
    /\ at' = at + 1 /\ put' = put + 1
    /\ UNCHANGED <<fixed, done>>

Erase ==
    /\ ~done /\ at > Len(items)
    /\ items' = SubSeq(items, 1, put - 1)
    /\ freed' = freed \cup (Entries(items) \ Entries(items'))
    /\ done' = TRUE
    /\ UNCHANGED <<fixed, at, put>>

Next == Remove \/ KeepInPlace \/ KeepMoved \/ Erase

Spec == Init /\ [][Next]_vars

\* The room is gone and destroyed, and every other room is there, in its
\* order and alive (ChatRoomService.cpp:106-114): what
\* EraseRemoveIfRegression_Tests.cpp:269 requires of DestroyRoom.
OthersRemain ==
    done => /\ items = SelectSeq(before, LAMBDA o : o # target)
            /\ freed = {target}
=============================================================================
