---------------------------- MODULE MCAvatarCache ----------------------------
(***************************************************************************)
(* Two spellings of one name, a third that is cut to the second, and       *)
(* another avatar.                                                         *)
(***************************************************************************)
EXTENDS AvatarCache, TLC

MCSpelling == {"Bob", "bob", "wide", "Eve"}
MCNarrow == [n \in MCSpelling |-> IF n = "wide" THEN "bob" ELSE n]
MCSame == [n \in MCSpelling |-> IF n = "Bob" THEN "bob" ELSE n]
=============================================================================
