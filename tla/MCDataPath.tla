------------------------------ MODULE MCDataPath ------------------------------
(***************************************************************************)
(* What becomes of data on its way: over the link (Wire), into the text of *)
(* a statement (StatementText), to the server and back although the        *)
(* connection breaks (Statement), into a row and back (StoredValues).      *)
(*                                                                         *)
(* The four share no state and run one after the other in the one thread,  *)
(* so each is explored by itself: part says which, and the variables of    *)
(* the others stay at their initial values.                                *)
(***************************************************************************)
EXTENDS Statement, StatementText, StoredValues, Wire, SequencesExt, TLC

VARIABLE part

(***************************************************************************)
(* Texts and out of band parts with units on both sides of 128, of 256 and *)
(* of 32768; words on both sides of the largest int, which is 7 here.      *)
(***************************************************************************)
MCUnits == {0, 65, 127, 128, 233, 255, 256, 321, 32768, 65377, 65535}
MCText == {<<>>} \cup {<<u>> : u \in MCUnits} \cup {<<65, u>> : u \in MCUnits}
MCOob == {<<>>} \cup {<<u>> : u \in MCUnits} \cup {<<u, 258>> : u \in MCUnits}

(***************************************************************************)
(* Messages of one to three fields of every kind, with values at the       *)
(* boundaries of their bytes: empty strings, units above one byte,         *)
(* integers that use every byte of their width.                            *)
(***************************************************************************)
Of(type, values) == {[kind |-> type, value |-> v] : v \in values}

Types == Of("uint16", {1, 258, 65535})

Bodies ==
    Of("bool", BOOLEAN) \cup Of("uint32", {0, 255, 16909060})
        \cup Of("string", {<<>>, <<65, 200>>})
        \cup Of("u16string", {<<>>, <<233>>, <<65, 513>>})

MCField == Types \cup Bodies

MCMessage ==
    {<<t>> : t \in Types} \cup {<<t, b>> : t \in Types, b \in Bodies}
        \cup {<<t, b, c>> : t \in Of("uint16", {258}), b, c \in Bodies}

(***************************************************************************)
(* SQL texts of up to three pieces: one plain, the others with names of    *)
(* which one begins like another.                                          *)
(***************************************************************************)
MCNameCharacter == {"a", "b"}
MCCharacter == MCNameCharacter \cup {"@", "=", ",", "'", "?", "\\", "-"}

Piece == {<<"=", ",">>, <<"@", "a", ",">>, <<"@", "a", "b", ",">>, <<"@", "b", ",">>}

MCTemplate == {FlattenSeq(p) : p \in UNION {[1..n -> Piece] : n \in 1..3}}

MCBoundValue ==
    {[type |-> "int", value |-> 107],
     [type |-> "int", value |-> -1],
     [type |-> "text", value |-> <<"'">>],
     [type |-> "text", value |-> <<"-", "?", "@", "a", "\\">>],
     [type |-> "blob", value |-> <<>>],
     [type |-> "blob", value |-> <<18, 250>>]}

(***************************************************************************)
(* The parts                                                               *)
(***************************************************************************)
pathVars == <<part, vars, valueVars, wireVars, textVars>>

Executes == part = "execute" /\ Next /\ UNCHANGED <<part, valueVars, wireVars, textVars>>
Stores == part = "store" /\ ValuesNext /\ UNCHANGED <<part, vars, wireVars, textVars>>
Sends == part = "wire" /\ WireNext /\ UNCHANGED <<part, vars, valueVars, textVars>>
Writes == part = "text" /\ TextNext /\ UNCHANGED <<part, vars, valueVars, wireVars>>

PathInit ==
    /\ part \in {"execute", "store", "wire", "text"}
    /\ Init /\ (part # "execute" => table = {} /\ key = CHOOSE k \in Key : TRUE)
    /\ ValuesInit /\ WireInit /\ TextInit

PathNext == Executes \/ Stores \/ Sends \/ Writes

PathSpec ==
    /\ PathInit
    /\ [][PathNext]_pathVars
    /\ WF_pathVars(part = "execute" /\ Run /\ UNCHANGED <<part, valueVars, wireVars, textVars>>)
=============================================================================
