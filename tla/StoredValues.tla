---------------------------- MODULE StoredValues -----------------------------
(***************************************************************************)
(* What the tables do to values: a text, a word and the out of band part   *)
(* of a message, from an object to a row and back to an object.            *)
(*                                                                         *)
(* Text is UTF-16 units in memory and bytes in the tables.  A word is a    *)
(* uint32 in memory, decimal digits in SQL, and an int on its way back.    *)
(* The out of band part is UTF-16 units in memory, their bytes in the      *)
(* BLOB, and hexadecimal digits in SQL.                                    *)
(***************************************************************************)
EXTENDS Naturals, Sequences

CONSTANTS
    Text,     \* texts clients send
    Oob,      \* out of band parts clients send
    Word,     \* attribute words, room sizes, ids
    IntMax,   \* the largest int: 2^31 - 1 in the builds
    None      \* no object, no row

Unit == {u \in Nat : u < 65536}
Byte == {b \in Nat : b < 256}

Value == [text : Seq(Unit), word : Nat, oob : Seq(Unit)]

ASSUME ValueAssumption ==
    /\ Text \subseteq Seq(Unit) /\ Oob \subseteq Seq(Unit)
    /\ Word \subseteq Nat /\ IntMax \in Nat
    /\ None \notin Value

VARIABLES
    client,    \* what the client sent
    object,    \* the object in memory
    row,       \* its row
    running    \* the process

valueVars == <<client, object, row, running>>

(***************************************************************************)
(* Conversions                                                             *)
(***************************************************************************)

\* Wrong on purpose: what does not fit in a byte becomes a question mark.
FromWideStringMarked(s) ==
    [i \in 1 .. Len(s) |-> IF s[i] < 256 THEN s[i] ELSE 63]

\* Each unit is converted to char, which keeps its low byte.
FromWideString(s) == [i \in 1 .. Len(s) |-> s[i] % 256]

\* Wrong on purpose: the text ends at its first null.
ToWideStringToNull(s) ==
    SubSeq(s, 1, CHOOSE n \in 0 .. Len(s) :
                    /\ n = Len(s) \/ s[n + 1] = 0
                    /\ \A i \in 1 .. n : s[i] # 0)

\* Each char is converted to char16_t; char is signed in the builds.
ToWideString(s) == [i \in 1 .. Len(s) |-> IF s[i] < 128 THEN s[i] ELSE 65280 + s[i]]

\* The bytes of the units in memory, the low one first.
UnitBytes(s) ==
    [k \in 1 .. 2 * Len(s) |->
        IF k % 2 = 1 THEN s[(k + 1) \div 2] % 256 ELSE s[k \div 2] \div 256]

\* Two digits for each byte, the high one first.
BlobToHex(s) ==
    [k \in 1 .. 2 * Len(s) |->
        IF k % 2 = 1 THEN s[(k + 1) \div 2] \div 16 ELSE s[k \div 2] % 16]

\* How the server reads X'...'.
HexBytes(s) == [i \in 1 .. Len(s) \div 2 |-> (16 * s[(2 * i) - 1]) + s[2 * i]]

\* Wrong on purpose: the bytes are put together high one first.
BlobUnitsSwapped(s) == [i \in 1 .. Len(s) \div 2 |-> (256 * s[(2 * i) - 1]) + s[2 * i]]

\* Two bytes for each unit.  GetPersistentMessage throws when they are odd in
\* number, which OobArrives says of no row.
BlobUnits(s) == [i \in 1 .. Len(s) \div 2 |-> s[(2 * i) - 1] + (256 * s[2 * i])]

\* std::stoi throws out_of_range, which no handler catches.
ColumnIntThrows(word) == word > IntMax

(***************************************************************************)
(* The journey                                                             *)
(***************************************************************************)

RowOf(o) ==
    [text |-> FromWideString(o.text), word |-> o.word, oob |-> HexBytes(BlobToHex(UnitBytes(o.oob)))]

ObjectOf(r) ==
    [text |-> ToWideString(r.text), word |-> r.word, oob |-> BlobUnits(r.oob)]

\* A client names a new avatar or room, or writes a message.
Receive(text, word, oob) ==
    /\ running /\ client = None
    /\ client' = [text |-> text, word |-> word, oob |-> oob]
    /\ object' = client'
    /\ UNCHANGED <<row, running>>

\* INSERT, and later UPDATE, of all its columns.
Store ==
    /\ running /\ object # None
    /\ row' = RowOf(object)
    /\ UNCHANGED <<client, object, running>>

\* The statement fails, for instance because the server does not take these
\* bytes for utf8mb4 text: DatabaseException, nothing stored.
StoreFails ==
    /\ running /\ object # None
    /\ UNCHANGED valueVars

\* The row is read into a new object.
Load ==
    /\ running /\ row # None
    /\ ~ColumnIntThrows(row.word)
    /\ object' = ObjectOf(row)
    /\ UNCHANGED <<client, row, running>>

\* The word of the row is more than an int holds.
LoadEnds ==
    /\ running /\ row # None
    /\ ColumnIntThrows(row.word)
    /\ running' = FALSE /\ object' = None
    /\ UNCHANGED <<client, row>>

\* The process is started again, after that or for another reason.
Restart ==
    /\ running' = TRUE /\ object' = None
    /\ UNCHANGED <<client, row>>

ValuesInit == client = None /\ object = None /\ row = None /\ running = TRUE

ValuesNext ==
    \/ \E text \in Text, word \in Word, oob \in Oob : Receive(text, word, oob)
    \/ Store \/ StoreFails \/ Load \/ LoadEnds \/ Restart

ValuesSpec == ValuesInit /\ [][ValuesNext]_valueVars

(***************************************************************************)
(* Properties                                                              *)
(***************************************************************************)

\* Units are 16 bits, and the tables hold bytes.
ValuesTypeOK ==
    /\ client \in Value \cup {None}
    /\ object \in Value \cup {None}
    /\ row \in [text : Seq(Byte), word : Nat, oob : Seq(Byte)] \cup {None}
    /\ running \in BOOLEAN

\* Loading an object and storing it again, however often, does not change its
\* row: what was stored under a name is found, and overwritten, under the
\* name that comes back (FromWideString of what ToWideString returned).
RowStaysTheSame == [][row # None => row' = row]_valueVars

\* The out of band part and the word of an object are those the client sent,
\* whether the object was loaded or not, and its row has two bytes for each
\* unit (BindBlob and BlobToHex against
\* GetPersistentMessage, BindInt against ColumnInt).
OobArrives ==
    /\ object # None => object.oob = client.oob /\ object.word = client.word
    /\ row # None => Len(row.oob) % 2 = 0

\* Text arrives when it is ASCII; of other text the length does
\* (tests/stationapi/StringUtils_Tests.cpp).
AsciiArrives ==
    object # None =>
        /\ Len(object.text) = Len(client.text)
        /\ \A i \in 1 .. Len(client.text) :
              client.text[i] < 128 => object.text[i] = client.text[i]

\* A row ends the process only when its word is more than an int holds.
EndsOnLargeWordOnly == ~running => client.word > IntMax
=============================================================================
