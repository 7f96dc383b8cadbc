-------------------------------- MODULE Wire --------------------------------
(***************************************************************************)
(* Messages as bytes: Serialization.hpp, and the two streams a NodeClient  *)
(* keeps and uses again for every message.                                 *)
(*                                                                         *)
(* A message is a sequence of fields, written one after the other by its   *)
(* write function and read by kind; the bytes do not say what they are.    *)
(* The same code runs at both ends of the link here, as in the tests.      *)
(***************************************************************************)
EXTENDS Naturals, Sequences

CONSTANTS
    Field,     \* fields in use, each [kind, value]
    Message,   \* sequences of fields
    MaxFlight, \* bound: packets on the link
    Junk       \* what a read that failed leaves in a variable

(***************************************************************************)
(* Fields                                                                  *)
(***************************************************************************)

Bytes(kind) ==
    CASE kind = "bool" -> 1 [] kind = "uint16" -> 2 [] kind = "uint32" -> 4
      [] kind = "string" -> 2 [] kind = "u16string" -> 4

\* What the bytes of an integer count, the lowest first.
Place == <<1, 256, 65536, 16777216>>

Fits(value, n) == value \in Nat /\ value \div Place[n] < 256

Octet == {o \in Nat : o < 256}
Char16 == {c \in Nat : c < 65536}

\* The C++ types: a string has chars, a u16string units, and its length is a
\* uint32.
IsField(f) ==
    \/ f.kind = "bool" /\ f.value \in BOOLEAN
    \/ f.kind \in {"uint16", "uint32"} /\ Fits(f.value, Bytes(f.kind))
    \/ f.kind = "string" /\ f.value \in Seq(Octet)
    \/ f.kind = "u16string" /\ f.value \in Seq(Char16) /\ Fits(Len(f.value), 4)

ASSUME WireAssumption ==
    /\ \A f \in Field : IsField(f)
    /\ Message \subseteq Seq(Field) \ {<<>>}
    /\ MaxFlight \in Nat
    /\ Junk \notin Nat /\ Junk \notin Seq(Octet)

VARIABLES
    ostream,   \* the bytes in the sender's ostream_
    link,      \* packets on the link, with the message each is for
    istream,   \* the receiver's istream_: bytes, position, failed
    message,   \* the message the packet in istream_ is for
    layout,    \* the kinds the handler has still to read
    got        \* the values it has read

wireVars == <<ostream, link, istream, message, layout, got>>

(***************************************************************************)
(* Reading and writing                                                     *)
(***************************************************************************)

\* An integer as it lies in memory on the platforms built for.
LittleEndian(value, n) == [i \in 1..n |-> (value \div Place[i]) % 256]

\* Integers have at most four bytes.
Integer(bytes) ==
    LET byte(i) == IF i <= Len(bytes) THEN bytes[i] ELSE 0
    IN byte(1) + 256 * byte(2) + 65536 * byte(3) + 16777216 * byte(4)

\* The length is cut to two bytes, and so is what follows it.
WriteString(value) ==
    LET length == Len(value) % 65536
    IN LittleEndian(length, 2) \o SubSeq(value, 1, length)

\* Two bytes of each unit.
WriteU16string(value) ==
    LittleEndian(Len(value), 4)
        \o [i \in 1..(2 * Len(value)) |-> LittleEndian(value[(i + 1) \div 2], 2)[2 - (i % 2)]]

Write(field) ==
    CASE field.kind = "bool" -> LittleEndian(IF field.value THEN 1 ELSE 0, 1)
      [] field.kind \in {"uint16", "uint32"} -> LittleEndian(field.value, Bytes(field.kind))
      [] field.kind = "string" -> WriteString(field.value)
      [] field.kind = "u16string" -> WriteU16string(field.value)

\* What has been written of a message after each of its fields.
Written(m) ==
    LET bytes[n \in 0..Len(m)] ==
            IF n = 0 THEN <<>> ELSE bytes[n - 1] \o Write(m[n])
    IN bytes

WriteMessage(m) == Written(m)[Len(m)]

\* istream.read: everything asked for, or a failure that stays until clear.
Ask(stream, n) ==
    IF stream.failed \/ stream.pos + n > Len(stream.bytes)
    THEN [stream |-> [stream EXCEPT !.failed = TRUE, !.pos = Len(stream.bytes)],
          bytes |-> Junk]
    ELSE [stream |-> [stream EXCEPT !.pos = @ + n],
          bytes |-> SubSeq(stream.bytes, stream.pos + 1, stream.pos + n)]

\* Units of size bytes each, after their number.
ReadUnits(stream, prefix, size) ==
    LET number == Ask(stream, prefix)
        length == Integer(number.bytes)
        units == Ask(number.stream, size * length)
    IN  [stream |-> units.stream,
         value |-> [i \in 1 .. length |->
                      Integer(SubSeq(units.bytes, size * (i - 1) + 1, size * i))]]

ReadInteger(stream, kind) ==
    LET asked == Ask(stream, Bytes(kind))
        value == IF asked.bytes = Junk THEN Junk ELSE Integer(asked.bytes)
    IN  [stream |-> asked.stream,
         value |-> IF kind = "bool" /\ value # Junk THEN value # 0 ELSE value]

Read(stream, kind) ==
    CASE kind \in {"bool", "uint16", "uint32"} -> ReadInteger(stream, kind)
      [] kind = "string" -> ReadUnits(stream, 2, 1)
      [] kind = "u16string" -> ReadUnits(stream, 4, 2)

(***************************************************************************)
(* NodeClient                                                              *)
(***************************************************************************)

\* Wrong on purpose: ostream_ is not emptied first.
SendAfterTheLast(m) ==
    /\ Len(link) < MaxFlight
    /\ ostream' = ostream \o WriteMessage(m)
    /\ link' = Append(link, [bytes |-> ostream', message |-> m])
    /\ UNCHANGED <<istream, message, layout, got>>

Send(m) ==
    /\ Len(link) < MaxFlight
    /\ ostream' = WriteMessage(m)
    /\ link' = Append(link, [bytes |-> ostream', message |-> m])
    /\ UNCHANGED <<istream, message, layout, got>>

\* What a handler reads of a message: its fields; the type and no more (the
\* default case of OnIncoming); or one integer too many, when the other end
\* is of another version.
Layouts(m) ==
    LET kinds == [i \in DOMAIN m |-> m[i].kind]
    IN  {kinds, <<Head(kinds)>>, Append(kinds, "uint32")}

\* The link is a reliable channel: what arrives is what was sent, in order.
OnRoutePacket ==
    /\ layout = <<>> /\ link # <<>>
    /\ istream' = [bytes |-> Head(link).bytes, pos |-> 0, failed |-> FALSE]
    /\ message' = Head(link).message
    /\ layout' \in Layouts(message')
    /\ got' = <<>>
    /\ link' = Tail(link)
    /\ UNCHANGED ostream

\* The next field of the handler.
ReadField ==
    /\ layout # <<>>
    /\ LET read == Read(istream, Head(layout))
       IN  /\ istream' = read.stream
           /\ got' = Append(got, read.value)
    /\ layout' = Tail(layout)
    /\ UNCHANGED <<ostream, link, message>>

WireInit ==
    /\ ostream = <<>>
    /\ link = <<>>
    /\ istream = [bytes |-> <<>>, pos |-> 0, failed |-> FALSE]
    /\ message = <<>>
    /\ layout = <<>>
    /\ got = <<>>

WireNext == (\E m \in Message : Send(m)) \/ OnRoutePacket \/ ReadField

WireSpec == WireInit /\ [][WireNext]_wireVars

\* Whatever was sent and read before, to the end, in part or beyond it, what
\* a handler reads of a message is what the other end wrote of it, field by
\* field, and nothing that was not written looks as if it were
\* (Serialization.hpp, NodeClient.hpp:14-21, NodeClient.cpp:24-30).
ReadWhatWasSent ==
    \A i \in DOMAIN got :
        IF i \in DOMAIN message THEN got[i] = message[i].value ELSE got[i] = Junk
=============================================================================
