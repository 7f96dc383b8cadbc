---------------------------- MODULE MCAvatarLoad ----------------------------
(***************************************************************************)
(* Small instances of AvatarLoad.                                          *)
(***************************************************************************)
EXTENDS AvatarLoad, TLC

CONSTANT MaxEntries  \* bound: list entries stored at the same time

AvatarSymmetry == Permutations(Avatar)

Entries(list) == Cardinality({p \in Avatar \X Avatar : p[2] \in list[p[1]]})

\* The states explored further: few enough stored list entries.
FewEntries == Entries(dbFriend) + Entries(dbIgnore) <= MaxEntries

\* Who is online plays no part in a walk: at most one avatar, and none once a
\* statement has failed.
OneOnline == Cardinality(online) + faults <= 1

\* After a failure one stored entry is enough, and one entry at most is on an
\* ignore list.
FewAfterFailure ==
    /\ faults > 0 => Entries(dbFriend) + Entries(dbIgnore) <= 1
    /\ Entries(dbIgnore) <= 1

\* All that a later step depends on: no step reads the last result.
LoadView ==
    <<row, dbFriend, dbIgnore, dbAttr, cached, friends, ignores, attr, flag,
      online, dirty, transient, faults, walk>>
=============================================================================
