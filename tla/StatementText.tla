---------------------------- MODULE StatementText ----------------------------
(***************************************************************************)
(* The text of a statement, from Prepare to what the server makes of it.   *)
(*                                                                         *)
(* The services write SQL with named parameters.  The constructor of       *)
(* MariaDbStatement replaces every name by a question mark and numbers the *)
(* names (NormalizeNamedParameters), the service binds a value to each     *)
(* number, and Execute puts the values, written out as literals, where the *)
(* question marks are.  What happens to the text then is module Statement. *)
(*                                                                         *)
(* Texts are sequences of characters.  Outside names a character may stand *)
(* for a whole word, sign or literal of the statement (LIMIT, ||, '%'):    *)
(* what matters of it is that no literal begins or ends with it.  The      *)
(* server's reading is external.                                           *)
(***************************************************************************)
EXTENDS Integers, Sequences, SequencesExt, FiniteSetsExt

CONSTANTS
    Character,      \* the characters in use
    NameCharacter,  \* those IsParameterNameCharacter accepts
    Template,       \* the SQL texts of the services
    BoundValue      \* what is bound: ints, texts and blobs

Hex == <<"0", "1", "2", "3", "4", "5", "6", "7", "8", "9",
         "A", "B", "C", "D", "E", "F">>

Digit == {Hex[n] : n \in 1..10}

\* What begins a literal, and the question mark that becomes one.
Special == {"'", "X", "NULL", "?", "-"} \cup Digit

\* Place k of the text belongs to a name that starts before it.
InName(t, k) ==
    \E m \in 1..(k - 1) :
        t[m] = "@" /\ \A n \in (m + 1)..k : t[n] \in NameCharacter

\* The services write a space or a bracket before a name, and neither a
\* question mark nor a minus sign.
ASSUME TextAssumption ==
    /\ "@" \notin NameCharacter
    /\ Template \subseteq Seq(Character)
    /\ \A t \in Template : \A k \in DOMAIN t :
          /\ t[k] = "@" /\ k > 1 => t[k - 1] \notin NameCharacter \cup {"@"}
          /\ t[k] \in Special => InName(t, k)
    /\ BoundValue \subseteq
          [type : {"int"}, value : Int]
            \cup [type : {"text"}, value : Seq(Character)]
            \cup [type : {"blob"}, value : Seq({b \in Nat : b < 256})]

VARIABLES
    textPc,      \* what is done next
    sql,         \* the argument of Prepare
    i,           \* the loop variable, counted from 1
    normalized,  \* normalizedSql_.sql
    names,       \* the names in the order of their numbers (logicalIndexByName)
    byPosition,  \* logicalIndexByPosition
    bound,       \* boundValues_, by number
    given,       \* history: the value the service gave each name last
    sent         \* the text Execute built

textVars == <<textPc, sql, i, normalized, names, byPosition, bound, given, sent>>

Null == [type |-> "none"]

(***************************************************************************)
(* NormalizeNamedParameters                                                *)
(***************************************************************************)

\* The last character of the name that starts at place k.
NameEnd(t, k) ==
    Max({j \in k..Len(t) : \A m \in (k + 1)..j : t[m] \in NameCharacter})

\* The number of a name, counted from 1: the old one or the next.
Number(name) ==
    IF Contains(names, name) THEN CHOOSE n \in DOMAIN names : names[n] = name
                             ELSE Len(names) + 1

Prepare(t) ==
    /\ textPc = "idle"
    /\ textPc' = "normalize"
    /\ sql' = t
    /\ i' = 1
    /\ normalized' = <<>> /\ names' = <<>> /\ byPosition' = <<>>
    /\ bound' = <<>> /\ given' = <<>> /\ sent' = <<>>

CopyCharacter ==
    /\ textPc = "normalize" /\ i <= Len(sql) /\ sql[i] # "@"
    /\ normalized' = Append(normalized, sql[i])
    /\ i' = i + 1
    /\ UNCHANGED <<textPc, sql, names, byPosition, bound, given, sent>>

TakeParameter ==
    /\ textPc = "normalize" /\ i <= Len(sql) /\ sql[i] = "@"
    /\ LET name == SubSeq(sql, i, NameEnd(sql, i)) IN
        /\ names' = IF Contains(names, name) THEN names ELSE Append(names, name)
        /\ byPosition' = Append(byPosition, Number(name))
    /\ normalized' = Append(normalized, "?")
    /\ i' = NameEnd(sql, i) + 1
    /\ UNCHANGED <<textPc, sql, bound, given, sent>>

\* The name that starts at place k of a text: all that follows up to the
\* next character no name has.
NameAt(t, k) ==
    LET rest == SubSeq(t, k + 1, Len(t))
    IN <<"@">> \o SubSeq(rest, 1, Cardinality(
           {j \in DOMAIN rest : \A m \in 1..j : rest[m] \in NameCharacter}))

\* The names that stand in the text: what a service may ask for.
NamesIn(t) == {NameAt(t, k) : k \in {m \in DOMAIN t : t[m] = "@"}}

\* The rest of the constructor: every parameter is unbound.
Normalized ==
    /\ textPc = "normalize" /\ i > Len(sql)
    /\ bound' = [n \in DOMAIN names |-> Null]
    /\ given' = [name \in NamesIn(sql) |-> Null]
    /\ textPc' = "bind"
    /\ UNCHANGED <<sql, i, normalized, names, byPosition, sent>>

(***************************************************************************)
(* Binding                                                                 *)
(***************************************************************************)

\* BindParameterIndex and BindInt, BindText or BindBlob; a later value
\* replaces an earlier one, also one of another type.
Bind(name, value) ==
    /\ textPc = "bind"
    /\ Contains(names, name)
    /\ bound' = [bound EXCEPT ![Number(name)] = value]
    /\ given' = [given EXCEPT ![name] = value]
    /\ UNCHANGED <<textPc, sql, i, normalized, names, byPosition, sent>>

(***************************************************************************)
(* Execute                                                                 *)
(***************************************************************************)

\* The digits of std::to_string (external).
Decimal(n) ==
    LET digits[k \in 0..n] ==
            IF k < 10 THEN <<Hex[k + 1]>> ELSE digits[k \div 10] \o <<Hex[(k % 10) + 1]>>
    IN digits[n]

\* std::to_string (external): an int64_t has a sign; DeleteRoom binds -1.
Decimals(n) == IF n < 0 THEN <<"-">> \o Decimal(-n) ELSE Decimal(n)

BlobLiteral(bytes) ==
    <<"X", "'">>
        \o FlattenSeq([n \in DOMAIN bytes |->
                          <<Hex[(bytes[n] \div 16) + 1], Hex[(bytes[n] % 16) + 1]>>])
        \o <<"'">>

\* mysql_real_escape_string (external): a backslash before a quote or a
\* backslash.
EscapeString(text) ==
    FlattenSeq([n \in DOMAIN text |->
        IF text[n] \in {"'", "\\"} THEN <<"\\", text[n]>> ELSE <<text[n]>>])

RenderValue(value) ==
    CASE value.type = "int" -> Decimals(value.value)
      [] value.type = "text" -> <<"'">> \o EscapeString(value.value) \o <<"'">>
      [] value.type = "blob" -> BlobLiteral(value.value)
      [] value.type = "none" -> <<"NULL">>

\* How many of the first k characters are question marks.
QuestionMarks(k) == Cardinality({m \in 1..k : normalized[m] = "?"})

\* Wrong on purpose: the values are taken in the order they are numbered.
RenderedByCount(k) ==
    RenderValue(IF QuestionMarks(k) <= Len(bound) THEN bound[QuestionMarks(k)] ELSE Null)

\* The value for the question mark at place k.
RenderedAt(k) == RenderValue(bound[byPosition[QuestionMarks(k)]])

ExecuteText ==
    /\ textPc = "bind"
    /\ sent' = FlattenSeq([k \in DOMAIN normalized |->
                  IF normalized[k] = "?" THEN RenderedAt(k) ELSE <<normalized[k]>>])
    /\ textPc' = "sent"
    /\ UNCHANGED <<sql, i, normalized, names, byPosition, bound, given>>

\* The next statement over the connection.
Destroy ==
    /\ textPc = "sent"
    /\ textPc' = "idle"
    /\ UNCHANGED <<sql, i, normalized, names, byPosition, bound, given, sent>>

TextInit ==
    /\ textPc = "idle"
    /\ sql = <<>> /\ i = 1 /\ normalized = <<>> /\ names = <<>>
    /\ byPosition = <<>> /\ bound = <<>> /\ given = <<>> /\ sent = <<>>

TextNext ==
    \/ \E t \in Template : Prepare(t)
    \/ CopyCharacter \/ TakeParameter \/ Normalized
    \/ \E name \in NamesIn(sql), value \in BoundValue : Bind(name, value)
    \/ ExecuteText \/ Destroy

TextSpec == TextInit /\ [][TextNext]_textVars

(***************************************************************************)
(* What the server reads (external)                                        *)
(***************************************************************************)

DigitOf(c) == (CHOOSE n \in 1..16 : Hex[n] = c) - 1

\* How far the server has come: what it is in, what it has of that, and what
\* it has read before.
Reading(mode, part, read) == [mode |-> mode, part |-> part, read |-> read]

\* The first character of a word, a sign or a literal.
Begin(read, c) ==
    CASE c = "'" -> Reading("text", <<>>, read)
      [] c = "X" -> Reading("prefix", <<>>, read)
      [] c \in Digit -> Reading("int", DigitOf(c), read)
      [] c = "-" -> Reading("minus", <<>>, read)
      [] c = "NULL" -> Reading("between", <<>>, Append(read, Null))
      [] c \notin Special ->
           Reading("between", <<>>, Append(read, [type |-> "character", value |-> c]))

\* What has been read when no digit follows.
Ended(s) ==
    CASE s.mode = "int" -> Append(s.read, [type |-> "int", value |-> s.part])
      [] s.mode = "negative" -> Append(s.read, [type |-> "int", value |-> -s.part])
      [] s.mode = "minus" -> Append(s.read, [type |-> "character", value |-> "-"])
      [] s.mode \notin {"int", "negative", "minus"} -> s.read

ReadCharacter(s, c) ==
    CASE s.mode = "text" /\ c = "'" ->
           Reading("between", <<>>, Append(s.read, [type |-> "text", value |-> s.part]))
      [] s.mode = "text" /\ c = "\\" -> Reading("escape", s.part, s.read)
      [] s.mode = "text" /\ c \notin {"'", "\\"} ->
           Reading("text", Append(s.part, c), s.read)
      [] s.mode = "escape" -> Reading("text", Append(s.part, c), s.read)
      [] s.mode = "prefix" -> Reading("blob", <<>>, s.read)
      [] s.mode = "blob" /\ c = "'" ->
           Reading("between", <<>>, Append(s.read, [type |-> "blob", value |-> s.part]))
      [] s.mode = "blob" /\ c # "'" -> Reading("half", Append(s.part, 16 * DigitOf(c)), s.read)
      [] s.mode = "half" ->
           Reading("blob", [s.part EXCEPT ![Len(s.part)] = @ + DigitOf(c)], s.read)
      [] s.mode = "minus" /\ c \in Digit -> Reading("negative", DigitOf(c), s.read)
      [] s.mode \in {"int", "negative"} /\ c \in Digit ->
           Reading(s.mode, 10 * s.part + DigitOf(c), s.read)
      [] s.mode \in {"int", "negative", "minus"} /\ c \notin Digit -> Begin(Ended(s), c)
      [] s.mode = "between" -> Begin(s.read, c)

ReadFrom(s, t) ==
    LET after[n \in 0..Len(t)] ==
            IF n = 0 THEN s ELSE ReadCharacter(after[n - 1], t[n])
    IN after[Len(t)]

ServerReads(t) == Ended(ReadFrom(Reading("between", <<>>, <<>>), t))

(***************************************************************************)
(* Properties                                                              *)
(***************************************************************************)

\* What the service meant: its text with the values it gave the names.
Meant ==
    FlattenSeq([k \in DOMAIN sql |->
        CASE InName(sql, k) -> <<>>
          [] sql[k] = "@" -> <<given[NameAt(sql, k)]>>
          [] sql[k] # "@" /\ ~InName(sql, k) ->
               <<[type |-> "character", value |-> sql[k]]>>])

\* Every name in the text can be bound, also one that begins like another, and
\* the server reads the statement the service meant, with each value wherever
\* its name stands, whatever the order of binding, however often a name is
\* used, and whatever quotes, backslashes, question marks and names the values
\* themselves contain (NormalizeNamedParameters, BindParameterIndex, Execute,
\* RenderValue, BlobToHex).
ValuesArrive ==
    /\ textPc = "bind" => ToSet(names) = NamesIn(sql)
    /\ textPc = "sent" => ServerReads(sent) = Meant
=============================================================================
