--------------------------- MODULE DataPathProofs ---------------------------
(***************************************************************************)
(* Theorems about the way of data to the tables and back: Statement, for   *)
(* every table, whatever the server does and whenever the connection       *)
(* breaks; StoredValues, for every text, every out of band part, every     *)
(* word and every size of an int; and Wire, for every message.             *)
(***************************************************************************)
EXTENDS Statement, StoredValues, Wire, SequenceTheorems, FiniteSetTheorems,
        WellFoundedInduction, TLAPS

(***************************************************************************)
(* Execute ends in an outcome that module Outcomes promises.  The other    *)
(* modules use those operators in place of Execute, so this is what they   *)
(* rest on.                                                                *)
(***************************************************************************)

\* The table when the statement has been executed.
After ==
    CASE kind = "insert" -> before \cup {key}
      [] kind = "delete" -> before \ {key}
      [] OTHER -> before

\* The table is as it was or as the statement makes it, and rows are added
\* once for each attempt at most.
Effect ==
    /\ table \in {before, After}
    /\ copies <= attempt + (IF pc = "sent" THEN 0 ELSE 1)
    /\ kind # "append" => copies = 0

\* A query without an error was executed; of an INSERT that means its key was
\* not there.
Good ==
    /\ pc \in {"executed", "answered", "store", "done"} /\ code = "none" =>
          /\ table = After
          /\ kind = "insert" => key \notin before
          /\ kind = "append" => copies >= 1
    /\ pc \in {"store", "done"} => code = "none"

\* Without a failure there is one attempt, and the only error is a duplicate
\* key.
Unfailed ==
    ~failed =>
        /\ attempt = 0 /\ code # "lost"
        /\ pc = "sent" => table = before /\ code = "none"
        /\ pc # "sent" /\ code = "refused" => kind = "insert" /\ key \in before
        /\ pc = "threw" => code = "refused"

ExecuteInv == TypeOK /\ Effect /\ Good /\ Unfailed

\* Before the first statement.
LEMMA InitExecute == Init => ExecuteInv
<1> SUFFICES ASSUME Init PROVE ExecuteInv
  OBVIOUS
<1>1. TypeOK
  <2>1. failed \in BOOLEAN
    BY DEF Init
  <2> QED BY <2>1, SMT DEF Init, TypeOK, Kind
<1>2. Effect
  <2>1. table \in {before, After} /\ copies = 0 /\ attempt = 0
    BY DEF Init
  <2> QED BY <2>1 DEF Effect
<1>3. Good /\ Unfailed
  BY DEF Init, Good, Unfailed, After
<1> QED BY <1>1, <1>2, <1>3 DEF ExecuteInv

\* Each step of the server, of the connection and of Execute keeps the
\* invariant.
LEMMA StepKeepsExecute == ExecuteInv /\ [Next]_vars => ExecuteInv'
<1> SUFFICES ASSUME ExecuteInv, [Next]_vars PROVE ExecuteInv'
  OBVIOUS
<1> USE DEF ExecuteInv, TypeOK, Effect, Good, Unfailed, After, Kind
<1>1. CASE ServerExecutes
  <2>1. table' = After'
    BY <1>1 DEF ServerExecutes
  <2>2. code' = "none" /\ kind = "insert" => key \notin before
    BY <1>1 DEF ServerExecutes
  <2>3. code' = "refused" => kind = "insert" /\ key \in table
    BY <1>1 DEF ServerExecutes
  <2>4. copies <= attempt /\ copies \in 0 .. 1
    BY <1>1 DEF ServerExecutes
  <2>5. copies' = IF kind = "append" THEN copies + 1 ELSE copies
    BY <1>1, <2>4 DEF ServerExecutes
  <2>6. copies' <= attempt + 1 /\ copies' \in 0 .. 2 /\ (kind = "append" => copies' >= 1)
    BY <2>4, <2>5
  <2> QED BY <1>1, <2>1, <2>2, <2>3, <2>5, <2>6 DEF ServerExecutes
<1>2. CASE ServerFails
  BY <1>2 DEF ServerFails, statement
<1>3. CASE ConnectionLost
  BY <1>3 DEF ConnectionLost, statement
<1>4. CASE Answered
  BY <1>4 DEF Answered, statement
<1>5. CASE Break
  BY <1>5 DEF Break, statement
<1>6. CASE Retry
  BY <1>6 DEF Retry, CanRetry, statement
<1>7. CASE ReconnectFails
  BY <1>7 DEF ReconnectFails, CanRetry, statement
<1>8. CASE GiveUp
  BY <1>8 DEF GiveUp, CanRetry, statement
<1>9. CASE StoreResult
  BY <1>9 DEF StoreResult, statement
<1>10. CASE StoreResultFails
  BY <1>10 DEF StoreResultFails, statement
<1>11. ASSUME NEW k \in Kind, NEW b \in Key, Start(k, b) PROVE ExecuteInv'
  <2>1. TypeOK'
    <3>1. failed' \in BOOLEAN
      BY <1>11 DEF Start
    <3> QED BY <1>11, <3>1, SMT DEF Start
  <2>2. Effect'
    <3>1. table' \in {before', After'} /\ copies' = 0 /\ attempt' = 0
      BY <1>11 DEF Start
    <3> QED BY <3>1
  <2>3. Good' /\ Unfailed'
    BY <1>11 DEF Start
  <2> QED BY <2>1, <2>2, <2>3
<1>12. CASE UNCHANGED vars
  BY <1>12 DEF vars
<1> QED
  BY <1>1, <1>2, <1>3, <1>4, <1>5, <1>6, <1>7, <1>8, <1>9, <1>10, <1>11, <1>12
  DEF Next, Run

\* What was stored and how Execute ended, as one outcome.
Ended(o) == /\ o.db = IF kind = "append" THEN copies ELSE table
            /\ o.ok = (pc = "done")

\* The good outcome, or a bad one after a failure, of a statement that turns
\* the table before into the table new.
LEMMA TableOutcome ==
    ASSUME ExecuteInv, kind # "append", NEW new,
           Promised = Execute(before, new, failed),
           pc = "done" => table = new,
           pc = "threw" => failed /\ table \in {before, new},
           pc \in {"done", "threw"}
    PROVE  \E o \in Promised : Ended(o)
<1>1. CASE pc = "done"
  <2>1. Ran(new) \in Promised
    BY DEF Execute
  <2>2. Ended(Ran(new))
    BY <1>1 DEF Ended, Ran
  <2> QED BY <2>1, <2>2
<1>2. CASE pc = "threw"
  <2> DEFINE o == [db |-> table, ok |-> FALSE, fault |-> 1]
  <2>1. failed /\ table \in {before, new}
    BY <1>2
  <2>2. o \in Promised
    BY <2>1, Zenon DEF Execute
  <2>3. o.db = table /\ o.ok = FALSE /\ (pc = "done") = FALSE
    BY <1>2
  <2>4. Ended(o)
    BY <2>3, Zenon DEF Ended
  <2> QED BY <2>2, <2>4
<1> QED BY <1>1, <1>2

\* The invariant gives the outcome, kind of statement by kind of statement.
LEMMA PromiseKept == ExecuteInv => OutcomePromised
<1> SUFFICES ASSUME ExecuteInv, pc \in {"done", "threw"}
             PROVE  \E o \in Promised : Ended(o)
  BY DEF OutcomePromised, Ended
<1>1. CASE kind = "insert" /\ key \in before
  <2>1. table = before /\ pc = "threw"
    BY <1>1 DEF ExecuteInv, TypeOK, Effect, Good, After
  <2>2. Promised = {Refused(before)}
    BY <1>1 DEF Promised, Insert
  <2>3. Ended(Refused(before))
    BY <1>1, <2>1 DEF Ended, Refused
  <2> QED BY <2>2, <2>3
<1>2. CASE kind = "insert" /\ key \notin before
  <2>1. Promised = Execute(before, before \cup {key}, failed)
    BY <1>2 DEF Promised, Insert
  <2>2. /\ pc = "done" => table = before \cup {key}
        /\ pc = "threw" => failed /\ table \in {before, before \cup {key}}
    BY <1>2 DEF ExecuteInv, TypeOK, Effect, Good, Unfailed, After
  <2> QED BY <1>2, <2>1, <2>2, TableOutcome
<1>3. CASE kind = "delete"
  <2>1. Promised = Execute(before, before \ {key}, failed)
    BY <1>3 DEF Promised, Delete
  <2>2. /\ pc = "done" => table = before \ {key}
        /\ pc = "threw" => failed /\ table \in {before, before \ {key}}
    BY <1>3 DEF ExecuteInv, TypeOK, Effect, Good, Unfailed, After
  <2> QED BY <1>3, <2>1, <2>2, TableOutcome
<1>4. CASE kind = "select"
  <2>1. Promised = Execute(before, before, failed)
    BY <1>4 DEF Promised
  <2>2. table = before /\ (pc = "threw" => failed)
    BY <1>4 DEF ExecuteInv, TypeOK, Effect, Good, Unfailed, After
  <2> QED BY <1>4, <2>1, <2>2, TableOutcome
<1>5. CASE kind = "append"
  <2>1. Promised = AppendRow(0, failed)
    BY <1>5 DEF Promised
  <2>2. copies \in 0 .. 2 /\ (pc = "threw" => failed)
    BY <1>5 DEF ExecuteInv, TypeOK, Good, Unfailed
  <2>3. pc = "done" => copies >= 1 /\ (~failed => copies = 1)
    BY <1>5, <2>2 DEF ExecuteInv, TypeOK, Effect, Good, Unfailed
  <2>4. CASE pc = "done" /\ copies = 1
    <3>1. Ran(copies) \in Promised
      BY <2>1, <2>4 DEF AppendRow
    <3>2. Ended(Ran(copies))
      BY <1>5, <2>4 DEF Ended, Ran
    <3> QED BY <3>1, <3>2
  <2>5. CASE pc = "done" /\ copies # 1
    <3>1. copies = 2 /\ failed
      BY <2>2, <2>3, <2>5
    <3> DEFINE o == [db |-> 0 + 2, ok |-> TRUE, fault |-> 1]
    <3>2. o \in Promised
      BY <2>1, <3>1 DEF AppendRow
    <3>3. o.db = copies /\ o.ok = TRUE
      BY <3>1
    <3>4. Ended(o)
      BY <1>5, <2>5, <3>3 DEF Ended
    <3> QED BY <3>2, <3>4
  <2>6. CASE pc = "threw"
    <3> DEFINE o == [db |-> copies, ok |-> FALSE, fault |-> 1]
    <3>1. o \in Promised
      <4>1. failed /\ copies \in 0 .. (0 + 2)
        BY <2>2, <2>6
      <4> QED BY <2>1, <4>1, Zenon DEF AppendRow
    <3>2. o.db = copies /\ o.ok = FALSE /\ (pc = "done") = FALSE
      BY <2>6
    <3>3. Ended(o)
      BY <1>5, <3>2, Zenon DEF Ended
    <3> QED BY <3>1, <3>3
  <2> QED BY <2>4, <2>5, <2>6
<1> QED BY <1>1, <1>2, <1>3, <1>4, <1>5 DEF ExecuteInv, TypeOK, Kind

\* The invariant holds of every behaviour.
THEOREM ExecuteCorrect == Spec => []ExecuteInv
  BY InitExecute, StepKeepsExecute, PTL DEF Spec

\* No statement is executed three times, whatever breaks (the bound on
\* attempts in Execute).
THEOREM StatementTypes == Spec => []TypeOK
<1>1. ExecuteInv => TypeOK
  BY DEF ExecuteInv
<1> QED BY <1>1, ExecuteCorrect, PTL

\* Execute ends in an outcome that was promised to its callers.
THEOREM OutcomesHold == Spec => []OutcomePromised
  BY ExecuteCorrect, PromiseKept, PTL

(***************************************************************************)
(* Conversions                                                             *)
(***************************************************************************)

\* The low byte of a small number is the number, and 65280 has none.
LEMMA SmallModulo ==
    ASSUME NEW n \in Nat, n < 256
    PROVE  n % 256 = n /\ (65280 + n) % 256 = n
<1>1. n % 256 = n
  BY SMT
<1>2. (65280 + n) % 256 = n
  <2> DEFINE m == 65280 + n
  <2>1. m = (256 * (m \div 256)) + (m % 256) /\ m % 256 \in 0 .. 255
    BY SMT
  <2> QED BY <2>1, SMT
<1> QED BY <1>1, <1>2

\* The low byte of a char widened with its sign is the char.
LEMMA WidenByte ==
    ASSUME NEW b \in Byte
    PROVE  LET w == IF b < 128 THEN b ELSE 65280 + b
           IN  w \in Unit /\ w % 256 = b
<1>1. b \in Nat /\ b < 256
  BY DEF Byte
<1>2. b % 256 = b /\ (65280 + b) % 256 = b
  BY <1>1, SmallModulo
<1>3. b \in Unit
  BY <1>1, SMT DEF Unit
<1>4. 65280 + b \in Unit
  <2>1. 65280 + b \in Nat /\ 65280 + b < 65536
    BY <1>1, SMT
  <2> QED BY <2>1, SMT DEF Unit
<1> QED BY <1>2, <1>3, <1>4

\* A unit cut to a char is a byte, and a unit below 128 is kept both ways.
LEMMA NarrowUnit ==
    ASSUME NEW u \in Unit
    PROVE  u % 256 \in Byte /\ (u < 128 => u % 256 = u)
<1>1. u % 256 \in Byte
  BY SMT DEF Byte, Unit
<1>2. ASSUME u < 128 PROVE u % 256 = u
  <2>1. u \in Nat /\ u < 256
    BY <1>2 DEF Unit
  <2> QED BY <2>1, SmallModulo
<1> QED BY <1>1, <1>2

\* FromWideString returns as many bytes as there are units.
LEMMA FromWideStringType ==
    ASSUME NEW s \in Seq(Unit)
    PROVE  /\ FromWideString(s) \in Seq(Byte)
           /\ Len(FromWideString(s)) = Len(s)
           /\ \A i \in 1 .. Len(s) : FromWideString(s)[i] = s[i] % 256
<1>1. \A i \in 1 .. Len(s) : s[i] \in Unit
  OBVIOUS
<1>2. \A i \in 1 .. Len(s) : s[i] % 256 \in Byte
  BY <1>1, NarrowUnit
<1>3. FromWideString(s) \in [1 .. Len(s) -> Byte]
  BY <1>2 DEF FromWideString
<1>4. Len(s) \in Nat
  OBVIOUS
<1> QED
  BY <1>3, <1>4 DEF FromWideString

\* ToWideString returns as many units as there are bytes.
LEMMA ToWideStringType ==
    ASSUME NEW s \in Seq(Byte)
    PROVE  /\ ToWideString(s) \in Seq(Unit)
           /\ Len(ToWideString(s)) = Len(s)
           /\ \A i \in 1 .. Len(s) :
                 ToWideString(s)[i] = IF s[i] < 128 THEN s[i] ELSE 65280 + s[i]
<1>1. \A i \in 1 .. Len(s) : s[i] \in Byte
  OBVIOUS
<1>2. \A i \in 1 .. Len(s) : (IF s[i] < 128 THEN s[i] ELSE 65280 + s[i]) \in Unit
  BY <1>1, WidenByte
<1>3. ToWideString(s) \in [1 .. Len(s) -> Unit]
  BY <1>2 DEF ToWideString
<1>4. Len(s) \in Nat
  OBVIOUS
<1> QED
  BY <1>3, <1>4 DEF ToWideString

\* Widened bytes are narrowed to the same bytes.
LEMMA NarrowWidened ==
    ASSUME NEW s \in Seq(Byte)
    PROVE  FromWideString(ToWideString(s)) = s
<1> DEFINE w == ToWideString(s)
           n == FromWideString(w)
<1>1. w \in Seq(Unit) /\ Len(w) = Len(s)
  BY ToWideStringType
<1>2. n \in Seq(Byte) /\ Len(n) = Len(s)
  BY <1>1, FromWideStringType
<1>3. ASSUME NEW i \in 1 .. Len(s)
      PROVE  n[i] = s[i]
  <2>1. n[i] = w[i] % 256
    BY <1>1, FromWideStringType
  <2>2. w[i] = IF s[i] < 128 THEN s[i] ELSE 65280 + s[i]
    BY ToWideStringType
  <2>3. s[i] \in Byte
    OBVIOUS
  <2> QED
    BY <2>1, <2>2, <2>3, WidenByte
<1> QED
  BY <1>2, <1>3, SeqEqual

\* The two bytes of a unit.
LEMMA UnitSplit ==
    ASSUME NEW u \in Unit
    PROVE  u % 256 \in Byte /\ u \div 256 \in Byte /\ (u % 256) + (256 * (u \div 256)) = u
BY SMT DEF Byte, Unit

\* The two digits of a byte.
LEMMA ByteSplit ==
    ASSUME NEW b \in Byte
    PROVE  /\ b % 16 \in 0 .. 15 /\ b \div 16 \in 0 .. 15
           /\ (16 * (b \div 16)) + (b % 16) = b
BY SMT DEF Byte

\* The places of the two halves of element i.
LEMMA Halves ==
    ASSUME NEW i \in Nat, NEW n \in Nat, i \in 1 .. n
    PROVE  /\ (2 * i) - 1 \in 1 .. 2 * n /\ 2 * i \in 1 .. 2 * n
           /\ ((2 * i) - 1) % 2 = 1 /\ (2 * i) % 2 = 0
           /\ (((2 * i) - 1) + 1) \div 2 = i /\ (2 * i) \div 2 = i
BY SMT

\* Every place is that of a half of some element.
LEMMA HalfOf ==
    ASSUME NEW n \in Nat, NEW k \in 1 .. 2 * n
    PROVE  /\ k % 2 = 1 => (k + 1) \div 2 \in 1 .. n
           /\ k % 2 # 1 => k \div 2 \in 1 .. n
BY SMT

\* Half of an even length.
LEMMA HalfLength ==
    ASSUME NEW n \in Nat
    PROVE  (2 * n) \div 2 = n /\ 2 * n \in Nat /\ (2 * n) % 2 = 0
BY SMT

\* Units are laid out as bytes, two each.
LEMMA UnitBytesType ==
    ASSUME NEW s \in Seq(Unit)
    PROVE  /\ UnitBytes(s) \in Seq(Byte)
           /\ Len(UnitBytes(s)) = 2 * Len(s)
           /\ \A i \in 1 .. Len(s) : /\ UnitBytes(s)[(2 * i) - 1] = s[i] % 256
                                     /\ UnitBytes(s)[2 * i] = s[i] \div 256
<1> DEFINE n == Len(s)
           half(k) == IF k % 2 = 1 THEN s[(k + 1) \div 2] % 256 ELSE s[k \div 2] \div 256
<1>1. n \in Nat /\ 2 * n \in Nat
  BY HalfLength
<1>2. ASSUME NEW k \in 1 .. 2 * n
      PROVE  half(k) \in Byte
  <2>1. CASE k % 2 = 1
    <3>1. s[(k + 1) \div 2] \in Unit
      BY <1>1, <2>1, HalfOf, ElementOfSeq
    <3> QED BY <2>1, <3>1, UnitSplit
  <2>2. CASE k % 2 # 1
    <3>1. s[k \div 2] \in Unit
      BY <1>1, <2>2, HalfOf, ElementOfSeq
    <3> QED BY <2>2, <3>1, UnitSplit
  <2> QED BY <2>1, <2>2
<1>3. UnitBytes(s) = [k \in 1 .. 2 * n |-> half(k)]
  BY DEF UnitBytes
<1>4. UnitBytes(s) \in [1 .. 2 * n -> Byte]
  BY <1>2, <1>3
<1>5. UnitBytes(s) \in Seq(Byte) /\ Len(UnitBytes(s)) = 2 * n
  BY <1>1, <1>4
<1>6. ASSUME NEW i \in 1 .. n
      PROVE  /\ UnitBytes(s)[(2 * i) - 1] = s[i] % 256
             /\ UnitBytes(s)[2 * i] = s[i] \div 256
  <2>1. /\ (2 * i) - 1 \in 1 .. 2 * n /\ 2 * i \in 1 .. 2 * n
        /\ ((2 * i) - 1) % 2 = 1 /\ (2 * i) % 2 = 0
        /\ (((2 * i) - 1) + 1) \div 2 = i /\ (2 * i) \div 2 = i
    BY <1>1, Halves
  <2>2. UnitBytes(s)[(2 * i) - 1] = half((2 * i) - 1) /\ UnitBytes(s)[2 * i] = half(2 * i)
    BY <1>3, <2>1
  <2>3. half((2 * i) - 1) = s[i] % 256
    BY <2>1
  <2>4. half(2 * i) = s[i] \div 256
    BY <2>1
  <2> QED BY <2>2, <2>3, <2>4
<1> QED BY <1>5, <1>6

Digit == 0 .. 15

\* Bytes are written as digits, two each.
LEMMA BlobToHexType ==
    ASSUME NEW s \in Seq(Byte)
    PROVE  /\ BlobToHex(s) \in Seq(Digit)
           /\ Len(BlobToHex(s)) = 2 * Len(s)
           /\ \A i \in 1 .. Len(s) : /\ BlobToHex(s)[(2 * i) - 1] = s[i] \div 16
                                     /\ BlobToHex(s)[2 * i] = s[i] % 16
<1> DEFINE n == Len(s)
           half(k) == IF k % 2 = 1 THEN s[(k + 1) \div 2] \div 16 ELSE s[k \div 2] % 16
<1>1. n \in Nat /\ 2 * n \in Nat
  BY HalfLength
<1>2. ASSUME NEW k \in 1 .. 2 * n
      PROVE  half(k) \in Digit
  <2>1. CASE k % 2 = 1
    <3>1. s[(k + 1) \div 2] \in Byte
      BY <1>1, <2>1, HalfOf, ElementOfSeq
    <3> QED BY <2>1, <3>1, ByteSplit DEF Digit
  <2>2. CASE k % 2 # 1
    <3>1. s[k \div 2] \in Byte
      BY <1>1, <2>2, HalfOf, ElementOfSeq
    <3> QED BY <2>2, <3>1, ByteSplit DEF Digit
  <2> QED BY <2>1, <2>2
<1>3. BlobToHex(s) = [k \in 1 .. 2 * n |-> half(k)]
  BY DEF BlobToHex
<1>4. BlobToHex(s) \in [1 .. 2 * n -> Digit]
  BY <1>2, <1>3
<1>5. BlobToHex(s) \in Seq(Digit) /\ Len(BlobToHex(s)) = 2 * n
  BY <1>1, <1>4
<1>6. ASSUME NEW i \in 1 .. n
      PROVE  /\ BlobToHex(s)[(2 * i) - 1] = s[i] \div 16
             /\ BlobToHex(s)[2 * i] = s[i] % 16
  <2>1. /\ (2 * i) - 1 \in 1 .. 2 * n /\ 2 * i \in 1 .. 2 * n
        /\ ((2 * i) - 1) % 2 = 1 /\ (2 * i) % 2 = 0
        /\ (((2 * i) - 1) + 1) \div 2 = i /\ (2 * i) \div 2 = i
    BY <1>1, Halves
  <2>2. BlobToHex(s)[(2 * i) - 1] = half((2 * i) - 1) /\ BlobToHex(s)[2 * i] = half(2 * i)
    BY <1>3, <2>1
  <2>3. half((2 * i) - 1) = s[i] \div 16
    BY <2>1
  <2>4. half(2 * i) = s[i] % 16
    BY <2>1
  <2> QED BY <2>2, <2>3, <2>4
<1> QED BY <1>5, <1>6

\* The server reads the digits as the bytes they were written for.
LEMMA HexRoundTrip ==
    ASSUME NEW s \in Seq(Byte)
    PROVE  HexBytes(BlobToHex(s)) = s
<1> DEFINE h == BlobToHex(s)
           n == Len(s)
<1>1. n \in Nat /\ Len(h) = 2 * n /\ Len(h) \div 2 = n
  BY BlobToHexType, HalfLength
<1>2. HexBytes(h) = [i \in 1 .. n |-> (16 * h[(2 * i) - 1]) + h[2 * i]]
  BY <1>1 DEF HexBytes
<1>3. ASSUME NEW i \in 1 .. n
      PROVE  (16 * h[(2 * i) - 1]) + h[2 * i] = s[i]
  <2>1. h[(2 * i) - 1] = s[i] \div 16 /\ h[2 * i] = s[i] % 16
    BY BlobToHexType
  <2>2. s[i] \in Byte
    BY ElementOfSeq
  <2> QED BY <2>1, <2>2, ByteSplit
<1>4. s = [i \in 1 .. n |-> s[i]]
  BY LenProperties
<1> HIDE DEF h, n
<1> QED BY <1>2, <1>3, <1>4 DEF h

\* The bytes are put together as the units they were.
LEMMA UnitRoundTrip ==
    ASSUME NEW s \in Seq(Unit)
    PROVE  BlobUnits(UnitBytes(s)) = s
<1> DEFINE b == UnitBytes(s)
           n == Len(s)
<1>1. n \in Nat /\ Len(b) = 2 * n /\ Len(b) \div 2 = n
  BY UnitBytesType, HalfLength
<1>2. BlobUnits(b) = [i \in 1 .. n |-> b[(2 * i) - 1] + (256 * b[2 * i])]
  BY <1>1 DEF BlobUnits
<1>3. ASSUME NEW i \in 1 .. n
      PROVE  b[(2 * i) - 1] + (256 * b[2 * i]) = s[i]
  <2>1. b[(2 * i) - 1] = s[i] % 256 /\ b[2 * i] = s[i] \div 256
    BY UnitBytesType
  <2>2. s[i] \in Unit
    BY ElementOfSeq
  <2> QED BY <2>1, <2>2, UnitSplit
<1>4. s = [i \in 1 .. n |-> s[i]]
  BY LenProperties
<1> HIDE DEF b, n
<1> QED BY <1>2, <1>3, <1>4 DEF b

(***************************************************************************)
(* The journey                                                             *)
(***************************************************************************)

\* An object is what the client sent but for its text, and its text is the
\* client's or has been through the table; the row is the one that follows
\* from what the client sent, whether it was written first or overwritten.
JourneyInv ==
    /\ ValuesTypeOK
    /\ client = None => object = None /\ row = None
    /\ object # None =>
          /\ object.oob = client.oob /\ object.word = client.word
          /\ object.text \in {client.text, ToWideString(FromWideString(client.text))}
    /\ row # None => row = RowOf(client)
    /\ ~running => client # None /\ client.word > IntMax

\* The row of a value has the types of the columns and two bytes per unit.
LEMMA RowOfType ==
    ASSUME NEW v \in Value
    PROVE  /\ RowOf(v) \in [text : Seq(Byte), word : Nat, oob : Seq(Byte)]
           /\ RowOf(v) = [text |-> FromWideString(v.text), word |-> v.word,
                          oob |-> UnitBytes(v.oob)]
           /\ Len(RowOf(v).oob) % 2 = 0
<1>1. v.text \in Seq(Unit) /\ v.word \in Nat /\ v.oob \in Seq(Unit)
  BY DEF Value
<1>2. FromWideString(v.text) \in Seq(Byte)
  BY <1>1, FromWideStringType
<1>3. UnitBytes(v.oob) \in Seq(Byte) /\ Len(UnitBytes(v.oob)) = 2 * Len(v.oob)
  BY <1>1, UnitBytesType
<1>4. HexBytes(BlobToHex(UnitBytes(v.oob))) = UnitBytes(v.oob)
  BY <1>3, HexRoundTrip
<1>5. Len(v.oob) \in Nat
  BY <1>1, LenProperties
<1>6. Len(UnitBytes(v.oob)) % 2 = 0
  BY <1>3, <1>5, HalfLength
<1> QED
  BY <1>1, <1>2, <1>3, <1>4, <1>6 DEF RowOf

\* What is loaded from the row of a value.
LEMMA ObjectOfRow ==
    ASSUME NEW v \in Value
    PROVE  /\ ObjectOf(RowOf(v)) = [text |-> ToWideString(FromWideString(v.text)),
                                    word |-> v.word, oob |-> v.oob]
           /\ ObjectOf(RowOf(v)) \in Value
<1>1. v.text \in Seq(Unit) /\ v.word \in Nat /\ v.oob \in Seq(Unit)
  BY DEF Value
<1>2. BlobUnits(UnitBytes(v.oob)) = v.oob
  BY <1>1, UnitRoundTrip
<1>3. ToWideString(FromWideString(v.text)) \in Seq(Unit)
  BY <1>1, FromWideStringType, ToWideStringType
<1>4. ObjectOf(RowOf(v)) = [text |-> ToWideString(FromWideString(v.text)),
                            word |-> v.word, oob |-> v.oob]
  <2> DEFINE r == RowOf(v)
  <2>1. r = [text |-> FromWideString(v.text), word |-> v.word, oob |-> UnitBytes(v.oob)]
    BY RowOfType
  <2>2. r.text = FromWideString(v.text) /\ r.word = v.word /\ r.oob = UnitBytes(v.oob)
    BY <2>1
  <2> QED BY <1>2, <2>2 DEF ObjectOf
<1> QED
  BY <1>1, <1>3, <1>4 DEF Value

\* An object and the value it is of have one row.
LEMMA SameRow ==
    ASSUME NEW v \in Value, NEW o \in Value,
           o.oob = v.oob, o.word = v.word,
           o.text \in {v.text, ToWideString(FromWideString(v.text))}
    PROVE  RowOf(o) = RowOf(v)
<1>1. v.text \in Seq(Unit)
  BY DEF Value
<1>2. FromWideString(v.text) \in Seq(Byte)
  BY <1>1, FromWideStringType
<1>3. FromWideString(o.text) = FromWideString(v.text)
  BY <1>2, NarrowWidened
<1> QED
  BY <1>3 DEF RowOf

\* Nothing has been sent.
LEMMA InitJourney == ValuesInit => JourneyInv
  BY DEF ValuesInit, JourneyInv, ValuesTypeOK

\* Each step of the journey keeps the invariant.
LEMMA StepKeepsJourney == JourneyInv /\ [ValuesNext]_valueVars => JourneyInv'
<1> SUFFICES ASSUME JourneyInv, [ValuesNext]_valueVars
             PROVE  JourneyInv'
  OBVIOUS
<1> USE DEF JourneyInv, ValuesTypeOK
<1>1. ASSUME NEW text \in Text, NEW word \in Word, NEW oob \in Oob, Receive(text, word, oob)
      PROVE  JourneyInv'
  <2>1. client' \in Value /\ object' = client' /\ row = None /\ running
    BY <1>1, ValueAssumption DEF Receive, Value
  <2>2. client' # None
    BY <2>1, ValueAssumption
  <2> QED BY <1>1, <2>1, <2>2 DEF Receive
<1>2. CASE Store
  <2>1. object \in Value /\ client \in Value
    BY <1>2 DEF Store
  <2>2. row' = RowOf(client)
    BY <1>2, <2>1, SameRow DEF Store
  <2>3. row' \in [text : Seq(Byte), word : Nat, oob : Seq(Byte)]
    BY <2>1, <2>2, RowOfType
  <2>4. client # None
    BY <1>2 DEF Store
  <2> QED BY <1>2, <2>2, <2>3, <2>4 DEF Store, RowOf
<1>3. CASE Load
  <2>1. client \in Value /\ row = RowOf(client)
    BY <1>3 DEF Load
  <2>2. /\ object' = [text |-> ToWideString(FromWideString(client.text)),
                      word |-> client.word, oob |-> client.oob]
        /\ object' \in Value
    BY <1>3, <2>1, ObjectOfRow DEF Load
  <2>3. client # None
    BY <1>3 DEF Load
  <2> QED BY <1>3, <2>2, <2>3 DEF Load, RowOf
<1>4. CASE LoadEnds
  <2>1. client \in Value /\ row = RowOf(client) /\ client # None
    BY <1>4 DEF LoadEnds
  <2>2. client.word > IntMax
    <3>1. row.word = client.word
      BY <2>1 DEF RowOf
    <3> QED BY <1>4, <3>1 DEF LoadEnds, ColumnIntThrows
  <2> QED BY <1>4, <2>1, <2>2 DEF LoadEnds, RowOf
<1>5. CASE Restart
  BY <1>5 DEF Restart, RowOf
<1>6. CASE StoreFails \/ UNCHANGED valueVars
  BY <1>6 DEF StoreFails, valueVars, RowOf
<1> QED
  BY <1>1, <1>2, <1>3, <1>4, <1>5, <1>6 DEF ValuesNext

\* The invariant holds of every behaviour.
THEOREM Journey == ValuesSpec => []JourneyInv
  BY InitJourney, StepKeepsJourney, PTL DEF ValuesSpec

\* Units are 16 bits and the tables hold bytes, whatever is sent.
THEOREM TypeCorrect == ValuesSpec => []ValuesTypeOK
<1>1. JourneyInv => ValuesTypeOK
  BY DEF JourneyInv
<1> QED BY <1>1, Journey, PTL

\* Out of band parts and words arrive as they were sent, and every row can be
\* taken apart into units (BindBlob, BlobToHex, GetPersistentMessage).
THEOREM OobAlwaysArrives == ValuesSpec => []OobArrives
<1>1. JourneyInv => OobArrives
  <2> SUFFICES ASSUME JourneyInv PROVE OobArrives
    OBVIOUS
  <2>1. ASSUME row # None PROVE Len(row.oob) % 2 = 0
    BY <2>1, RowOfType DEF JourneyInv, ValuesTypeOK
  <2> QED BY <2>1 DEF JourneyInv, OobArrives
<1> QED BY <1>1, Journey, PTL

\* ASCII text arrives as it was sent (FromWideString, ToWideString).
THEOREM AsciiAlwaysArrives == ValuesSpec => []AsciiArrives
<1>1. JourneyInv => AsciiArrives
  <2> SUFFICES ASSUME JourneyInv, object # None
               PROVE  /\ Len(object.text) = Len(client.text)
                      /\ \A i \in 1 .. Len(client.text) :
                            client.text[i] < 128 => object.text[i] = client.text[i]
    BY DEF AsciiArrives
  <2> DEFINE t == client.text
             n == FromWideString(t)
             w == ToWideString(n)
  <2>1. t \in Seq(Unit)
    BY DEF JourneyInv, ValuesTypeOK, Value
  <2>2. n \in Seq(Byte) /\ Len(n) = Len(t) /\ \A i \in 1 .. Len(t) : n[i] = t[i] % 256
    BY <2>1, FromWideStringType
  <2>3. /\ Len(w) = Len(t)
        /\ \A i \in 1 .. Len(t) : w[i] = IF n[i] < 128 THEN n[i] ELSE 65280 + n[i]
    BY <2>2, ToWideStringType
  <2>4. ASSUME NEW i \in 1 .. Len(t), t[i] < 128 PROVE w[i] = t[i]
    <3>1. t[i] \in Unit
      BY <2>1, ElementOfSeq
    <3>2. n[i] = t[i]
      BY <2>2, <2>4, <3>1, NarrowUnit
    <3> QED BY <2>3, <2>4, <3>2
  <2>5. object.text = t \/ object.text = w
    BY DEF JourneyInv
  <2> QED BY <2>3, <2>4, <2>5
<1> QED BY <1>1, Journey, PTL

\* Only a word that is more than an int holds ends the process (ColumnInt).
THEOREM EndsOnlyOnLargeWords == ValuesSpec => []EndsOnLargeWordOnly
<1>1. JourneyInv => EndsOnLargeWordOnly
  BY DEF JourneyInv, EndsOnLargeWordOnly
<1> QED BY <1>1, Journey, PTL

\* A row, once written, stays as it is however often its object is loaded and
\* stored (FromWideString after ToWideString).
THEOREM RowAlwaysStaysTheSame == ValuesSpec => RowStaysTheSame
<1>1. JourneyInv /\ JourneyInv' /\ [ValuesNext]_valueVars => [row # None => row' = row]_valueVars
  <2> SUFFICES ASSUME JourneyInv, JourneyInv', [ValuesNext]_valueVars, row # None
               PROVE  row' = row
    OBVIOUS
  <2>1. client # None /\ row = RowOf(client)
    BY DEF JourneyInv
  <2>2. CASE Store
    <3>1. client \in Value /\ object \in Value /\ row' = RowOf(object)
      BY <2>1, <2>2 DEF Store, JourneyInv, ValuesTypeOK
    <3>2. RowOf(object) = RowOf(client)
      BY <2>2, <3>1, SameRow DEF Store, JourneyInv
    <3> QED BY <2>1, <3>1, <3>2
  <2>3. CASE ~Store
    BY <2>1, <2>3 DEF ValuesNext, valueVars, Receive, StoreFails, Load, LoadEnds, Restart
  <2> QED BY <2>2, <2>3
<1> QED BY <1>1, Journey, PTL DEF ValuesSpec, RowStaysTheSame

(***************************************************************************)
(* Wire: a message is read as it was written, field by field.              *)
(***************************************************************************)

\* The streams that have not failed: bytes b, read as far as p.
At(b, p) == [bytes |-> b, pos |-> p, failed |-> FALSE]

\* The bytes w begin behind position p of b.
Holds(b, p, w) == \A i \in 1..Len(w) : b[p + i] = w[i]

(***************************************************************************)
(* Integers                                                                *)
(***************************************************************************)

\* An integer is written as so many bytes.
LEMMA LittleEndianBytes ==
    ASSUME NEW v \in Nat, NEW n \in {1, 2, 4}
    PROVE  LittleEndian(v, n) \in Seq(Octet) /\ Len(LittleEndian(v, n)) = n
<1> DEFINE e == LittleEndian(v, n)
<1>1. \A i \in 1..n : Place[i] \in Nat \ {0}
  BY DEF Place
<1>2. \A i \in 1..n : (v \div Place[i]) % 256 \in Octet
  <2> TAKE i \in 1..n
  <2> DEFINE k == Place[i]
  <2>1. k \in Nat \ {0}
    BY <1>1
  <2> HIDE DEF k
  <2>2. v \div k \in Nat
    BY <2>1
  <2>3. (v \div k) % 256 \in Octet
    BY <2>2 DEF Octet
  <2> QED BY <2>3 DEF k
<1>3. e \in [1..n -> Octet]
  BY <1>2 DEF LittleEndian
<1>4. n \in Nat
  OBVIOUS
<1> QED BY <1>3, <1>4

\* e are the lowest n bytes of v.
LowBytes(e, v, n) ==
    /\ e[1] = v % 256
    /\ n >= 2 => e[2] = (v \div 256) % 256
    /\ n = 4 => e[3] = (v \div 65536) % 256 /\ e[4] = (v \div 16777216) % 256

\* Which bytes they are.
LEMMA LittleEndianAt ==
    ASSUME NEW v \in Nat, NEW n \in {1, 2, 4}
    PROVE  LowBytes(LittleEndian(v, n), v, n)
<1>1. Place[1] = 1 /\ Place[2] = 256 /\ Place[3] = 65536 /\ Place[4] = 16777216
  BY DEF Place
<1>2. v \div 1 = v
  OBVIOUS
<1>3. 1 \in 1..n /\ (n >= 2 => 2 \in 1..n) /\ (n = 4 => 3 \in 1..n /\ 4 \in 1..n)
  OBVIOUS
<1>4. \A i \in 1..n : LittleEndian(v, n)[i] = (v \div Place[i]) % 256
  BY DEF LittleEndian
<1> DEFINE e == LittleEndian(v, n)
<1> HIDE DEF e
<1>5. e[1] = v % 256
  BY <1>1, <1>2, <1>3, <1>4 DEF e
<1>6. n >= 2 => e[2] = (v \div 256) % 256
  BY <1>1, <1>3, <1>4 DEF e
<1>7. n = 4 => e[3] = (v \div 65536) % 256 /\ e[4] = (v \div 16777216) % 256
  BY <1>1, <1>3, <1>4 DEF e
<1> QED BY <1>5, <1>6, <1>7 DEF LowBytes, e

\* An integer of one, two or four bytes.
LEMMA IntegerOf ==
    ASSUME NEW e, NEW a \in Nat
    PROVE  /\ Len(e) = 1 /\ e[1] = a => Integer(e) = a
           /\ \A b \in Nat : Len(e) = 2 /\ e[1] = a /\ e[2] = b => Integer(e) = a + 256 * b
           /\ \A b, c, d \in Nat :
                Len(e) = 4 /\ e[1] = a /\ e[2] = b /\ e[3] = c /\ e[4] = d
                  => Integer(e) = a + 256 * b + 65536 * c + 16777216 * d
<1>1. ASSUME Len(e) = 1, e[1] = a PROVE Integer(e) = a
  BY <1>1 DEF Integer
<1>2. ASSUME NEW b \in Nat, Len(e) = 2, e[1] = a, e[2] = b PROVE Integer(e) = a + 256 * b
  BY <1>2 DEF Integer
<1>3. ASSUME NEW b \in Nat, NEW c \in Nat, NEW d \in Nat,
             Len(e) = 4, e[1] = a, e[2] = b, e[3] = c, e[4] = d
      PROVE  Integer(e) = a + 256 * b + 65536 * c + 16777216 * d
  BY <1>3 DEF Integer
<1> QED BY <1>1, <1>2, <1>3

\* The bytes of an integer that fits give it back.
LEMMA IntegerBack ==
    ASSUME NEW v, NEW n \in {1, 2, 4}, Fits(v, n)
    PROVE  Integer(LittleEndian(v, n)) = v
<1>1. v \in Nat /\ v \div Place[n] < 256
  BY DEF Fits
<1>2. Len(LittleEndian(v, n)) = n
  BY <1>1, LittleEndianBytes
<1>3. LowBytes(LittleEndian(v, n), v, n)
  BY <1>1, LittleEndianAt
<1> DEFINE e == LittleEndian(v, n)
           a == v % 256
           b == (v \div 256) % 256
           c == (v \div 65536) % 256
           d == (v \div 16777216) % 256
<1>4. a \in Nat /\ b \in Nat /\ c \in Nat /\ d \in Nat
  BY <1>1
<1> HIDE DEF a, b, c, d, e, LowBytes
<1>5. CASE n = 1
  <2>1. v < 256
    BY <1>1, <1>5 DEF Place
  <2>2. Len(e) = 1 /\ e[1] = a
    BY <1>2, <1>3, <1>5 DEF a, e, LowBytes
  <2>3. Integer(e) = a
    BY <1>4, <2>2, IntegerOf
  <2> QED BY <1>1, <2>1, <2>3 DEF a, e
<1>6. CASE n = 2
  <2>1. v \div 256 < 256
    BY <1>1, <1>6 DEF Place
  <2>2. Len(e) = 2 /\ e[1] = a /\ e[2] = b
    BY <1>2, <1>3, <1>6 DEF a, b, e, LowBytes
  <2>3. Integer(e) = a + 256 * b
    BY <1>4, <2>2, IntegerOf
  <2>4. a + 256 * b = v
    BY <1>1, <2>1 DEF a, b
  <2> QED BY <2>3, <2>4 DEF e
<1>7. CASE n = 4
  <2>1. v \div 16777216 < 256
    BY <1>1, <1>7 DEF Place
  <2>2. Len(e) = 4 /\ e[1] = a /\ e[2] = b /\ e[3] = c /\ e[4] = d
    BY <1>2, <1>3, <1>7 DEF a, b, c, d, e, LowBytes
  <2>3. Integer(e) = a + 256 * b + 65536 * c + 16777216 * d
    BY <1>4, <2>2, IntegerOf
  <2>4. a + 256 * b + 65536 * c + 16777216 * d = v
    BY <1>1, <2>1 DEF a, b, c, d
  <2> QED BY <2>3, <2>4 DEF e
<1> QED BY <1>5, <1>6, <1>7

(***************************************************************************)
(* Reading a stream                                                        *)
(***************************************************************************)

\* A stream read further.
LEMMA Moved ==
    ASSUME NEW b, NEW p, NEW q
    PROVE  [At(b, p) EXCEPT !.pos = q] = At(b, q)
<1> DEFINE R == [bytes : {b}, pos : {p, q}, failed : {FALSE}]
           s == At(b, p)
<1>1. s \in R /\ At(b, q) \in R /\ s.bytes = b /\ s.failed = FALSE
  BY DEF At
<1> HIDE DEF s
<1>2. [s EXCEPT !.pos = q] \in R
  BY <1>1
<1>3. /\ [s EXCEPT !.pos = q].bytes = b /\ [s EXCEPT !.pos = q].pos = q
      /\ [s EXCEPT !.pos = q].failed = FALSE
  BY <1>1
<1> QED BY <1>1, <1>2, <1>3 DEF At, s

\* What is asked for, if it is there.
LEMMA Asked ==
    ASSUME NEW b, NEW p \in Nat, NEW n \in Nat, Len(b) \in Nat, p + n <= Len(b)
    PROVE  Ask(At(b, p), n) = [stream |-> At(b, p + n), bytes |-> SubSeq(b, p + 1, p + n)]
<1> DEFINE s == At(b, p)
<1>1. s.bytes = b /\ s.pos = p /\ s.failed = FALSE
  BY DEF At
<1>2. [s EXCEPT !.pos = p + n] = At(b, p + n)
  BY Moved
<1> HIDE DEF s
<1>3. ~(s.failed \/ s.pos + n > Len(s.bytes))
  BY <1>1
<1> QED BY <1>1, <1>2, <1>3 DEF Ask, s

\* What is there.
LEMMA Held ==
    ASSUME NEW b \in Seq(Octet), NEW p \in Nat, NEW w \in Seq(Octet),
           p + Len(w) <= Len(b), Holds(b, p, w)
    PROVE  SubSeq(b, p + 1, p + Len(w)) = w
<1> DEFINE u == SubSeq(b, p + 1, p + Len(w))
<1>1. /\ p + 1 \in Int /\ p + Len(w) \in Int /\ Len(w) \in Nat
      /\ \A i \in (p + 1)..(p + Len(w)) : b[i] \in Octet
  <2>1. Len(w) \in Nat /\ Len(b) \in Nat
    OBVIOUS
  <2>2. \A i \in (p + 1)..(p + Len(w)) : i \in 1..Len(b)
    BY <2>1
  <2> QED BY <2>1, <2>2
<1>2. /\ u \in Seq(Octet)
      /\ Len(u) = IF p + 1 <= p + Len(w) THEN p + Len(w) - (p + 1) + 1 ELSE 0
      /\ \A i \in 1..(p + Len(w) - (p + 1) + 1) : u[i] = b[p + 1 + i - 1]
  BY <1>1, SubSeqProperties
<1> HIDE DEF u
<1>3. Len(u) = Len(w)
  BY <1>1, <1>2
<1>4. \A i \in 1..Len(u) : u[i] = w[i]
  <2> TAKE i \in 1..Len(u)
  <2>1. i \in 1..(p + Len(w) - (p + 1) + 1) /\ p + 1 + i - 1 = p + i /\ i \in 1..Len(w)
    BY <1>1, <1>3
  <2> QED BY <1>2, <2>1 DEF Holds
<1>5. u = w
  BY <1>2, <1>3, <1>4, SeqEqual
<1> QED BY <1>5 DEF u

\* A prefix w of what is there is there, and so is the rest.
LEMMA HeldParts ==
    ASSUME NEW b, NEW p \in Nat, NEW v \in Seq(Octet), NEW w \in Seq(Octet), Holds(b, p, v \o w)
    PROVE  Holds(b, p, v) /\ Holds(b, p + Len(v), w)
<1>1. /\ Len(v) \in Nat /\ Len(w) \in Nat /\ Len(v \o w) = Len(v) + Len(w)
      /\ \A i \in 1..Len(v) : (v \o w)[i] = v[i]
      /\ \A i \in 1..Len(w) : (v \o w)[Len(v) + i] = w[i]
  OBVIOUS
<1>2. \A i \in 1..Len(v) : b[p + i] = v[i]
  <2> TAKE i \in 1..Len(v)
  <2>1. i \in 1..Len(v \o w)
    BY <1>1
  <2> QED BY <1>1, <2>1 DEF Holds
<1>3. \A i \in 1..Len(w) : b[p + Len(v) + i] = w[i]
  <2> TAKE i \in 1..Len(w)
  <2>1. Len(v) + i \in 1..Len(v \o w) /\ p + (Len(v) + i) = p + Len(v) + i
    BY <1>1
  <2> QED BY <1>1, <2>1 DEF Holds
<1> QED BY <1>2, <1>3 DEF Holds

\* An integer is read back.
LEMMA IntegerRead ==
    ASSUME NEW b \in Seq(Octet), NEW p \in Nat, NEW n \in {1, 2, 4}, NEW v, Fits(v, n),
           p + n <= Len(b), Holds(b, p, LittleEndian(v, n))
    PROVE  /\ Ask(At(b, p), n).stream = At(b, p + n)
           /\ Ask(At(b, p), n).bytes = LittleEndian(v, n)
           /\ Integer(Ask(At(b, p), n).bytes) = v
<1> DEFINE w == LittleEndian(v, n)
<1>1. v \in Nat /\ n \in Nat /\ Len(b) \in Nat
  BY DEF Fits
<1>2. w \in Seq(Octet) /\ Len(w) = n
  BY <1>1, LittleEndianBytes
<1> HIDE DEF w
<1>3. SubSeq(b, p + 1, p + Len(w)) = w
  BY <1>2, Held DEF w
<1>4. Ask(At(b, p), n) = [stream |-> At(b, p + n), bytes |-> SubSeq(b, p + 1, p + n)]
  BY <1>1, Asked
<1>5. Integer(w) = v
  BY IntegerBack DEF w
<1>6. /\ Ask(At(b, p), n).stream = At(b, p + n)
      /\ Ask(At(b, p), n).bytes = w
  BY <1>2, <1>3, <1>4
<1> QED BY <1>5, <1>6 DEF w

\* The unit i of some bytes u of which each has size many.
LEMMA UnitRead ==
    ASSUME NEW u \in Seq(Octet), NEW i \in Nat \ {0}, NEW size \in {1, 2}, size * i <= Len(u),
           NEW v, Fits(v, size),
           \A j \in 1..size : u[size * (i - 1) + j] = LittleEndian(v, size)[j]
    PROVE  Integer(SubSeq(u, size * (i - 1) + 1, size * i)) = v
<1> DEFINE w == LittleEndian(v, size)
           p == size * (i - 1)
<1>1. v \in Nat /\ size \in Nat /\ p \in Nat /\ p + size = size * i
  BY DEF Fits
<1>2. w \in Seq(Octet) /\ Len(w) = size
  BY <1>1, LittleEndianBytes
<1>3. Integer(w) = v
  BY IntegerBack
<1>4. Holds(u, p, w)
  BY <1>2 DEF Holds
<1> HIDE DEF w, p
<1>5. SubSeq(u, p + 1, p + Len(w)) = w
  BY <1>1, <1>2, <1>4, Held
<1> QED BY <1>1, <1>2, <1>3, <1>5 DEF p

(***************************************************************************)
(* Fields                                                                  *)
(***************************************************************************)

\* The fields that are written whole: a string is not longer than its length
\* can say.
Whole(f) == IsField(f) /\ (f.kind = "string" => Len(f.value) < 65536)

\* The v units of size many bytes each that are in u.
UnitsIn(u, size, v) == [i \in 1..v |-> Integer(SubSeq(u, size * (i - 1) + 1, size * i))]

\* A stream with the length v and the units in u at position p.
UnitsAt(b, p, prefix, size, v, u) ==
    /\ Fits(v, prefix) /\ Len(u) = size * v
    /\ p + Len(LittleEndian(v, prefix) \o u) <= Len(b)
    /\ Holds(b, p, LittleEndian(v, prefix) \o u)

\* The length of units, and the units behind it, are read back.
LEMMA UnitsRead ==
    ASSUME NEW b \in Seq(Octet), NEW p \in Nat, NEW prefix \in {1, 2, 4}, NEW size \in {1, 2},
           NEW v, NEW u \in Seq(Octet), UnitsAt(b, p, prefix, size, v, u)
    PROVE  /\ ReadUnits(At(b, p), prefix, size).stream
                = At(b, p + Len(LittleEndian(v, prefix) \o u))
           /\ ReadUnits(At(b, p), prefix, size).value = UnitsIn(u, size, v)
<1>13. /\ Fits(v, prefix) /\ Len(u) = size * v
       /\ p + Len(LittleEndian(v, prefix) \o u) <= Len(b)
       /\ Holds(b, p, LittleEndian(v, prefix) \o u)
  BY DEF UnitsAt
<1> DEFINE e == LittleEndian(v, prefix)
           n == Len(u)
           q == p + prefix
           number == Ask(At(b, p), prefix)
           units == Ask(At(b, q), n)
<1>1. v \in Nat /\ prefix \in Nat /\ n \in Nat /\ Len(b) \in Nat /\ q \in Nat
  BY <1>13 DEF Fits
<1>2. e \in Seq(Octet) /\ Len(e) = prefix
  BY <1>1, LittleEndianBytes
<1>3. Len(e \o u) = prefix + n
  BY <1>2
<1>4. Holds(b, p, e) /\ Holds(b, q, u)
  BY <1>2, <1>13, HeldParts
<1>12. p + Len(e \o u) <= Len(b) /\ n = size * v
  BY <1>13
<1> HIDE DEF n
<1>5. p + prefix <= Len(b) /\ q + n <= Len(b) /\ q + n = p + Len(e \o u)
  <2> DEFINE l == Len(e \o u)
             m == Len(b)
  <2>1. p + l <= m /\ l = prefix + n /\ m \in Nat
    BY <1>1, <1>3, <1>12
  <2> HIDE DEF l, m
  <2>2. p + prefix <= m /\ p + prefix + n <= m /\ p + prefix + n = p + l
    BY <1>1, <2>1
  <2> QED BY <2>2 DEF l, m
<1>6. number.stream = At(b, q) /\ Integer(number.bytes) = v
  BY <1>4, <1>5, <1>13, IntegerRead
<1> HIDE DEF e, q
<1>7. units = [stream |-> At(b, q + n), bytes |-> SubSeq(b, q + 1, q + n)]
  BY <1>1, <1>5, Asked
<1>8. SubSeq(b, q + 1, q + n) = u
  BY <1>1, <1>4, <1>5, Held DEF n
<1>9. units.stream = At(b, q + n) /\ units.bytes = u
  BY <1>7, <1>8
<1>10. units = Ask(number.stream, size * Integer(number.bytes))
  <2>1. n = size * Integer(number.bytes)
    BY <1>6, <1>12
  <2> QED BY <1>6, <2>1 DEF units
<1> HIDE DEF number, units
<1>11. /\ ReadUnits(At(b, p), prefix, size).stream = units.stream
       /\ ReadUnits(At(b, p), prefix, size).value
            = [i \in 1..v |-> Integer(SubSeq(units.bytes, size * (i - 1) + 1, size * i))]
  BY <1>6, <1>10 DEF ReadUnits, number
<1> QED BY <1>5, <1>9, <1>11 DEF e, UnitsIn

\* A string is written as its length and its characters.
LEMMA StringWritten ==
    ASSUME NEW s \in Seq(Octet), Len(s) < 65536
    PROVE  WriteString(s) = LittleEndian(Len(s), 2) \o s /\ Fits(Len(s), 2)
<1>1. Len(s) \in Nat /\ Len(s) % 65536 = Len(s) /\ Len(s) \div 256 < 256
  <2> DEFINE l == Len(s)
  <2>1. l \in Nat /\ l < 65536
    OBVIOUS
  <2> HIDE DEF l
  <2>2. l % 65536 = l /\ l \div 256 < 256
    BY <2>1
  <2> QED BY <2>1, <2>2 DEF l
<1>2. SubSeq(s, 1, Len(s)) = s
  BY SubSeqFull
<1>3. Fits(Len(s), 2)
  BY <1>1 DEF Fits, Place
<1> DEFINE n == Len(s) % 65536
<1>4. WriteString(s) = LittleEndian(n, 2) \o SubSeq(s, 1, n)
  BY DEF WriteString
<1>5. n = Len(s)
  BY <1>1
<1> HIDE DEF n
<1> QED BY <1>2, <1>3, <1>4, <1>5

\* What a u16string has behind its length.
Pairs(s) == [i \in 1..(2 * Len(s)) |-> LittleEndian(s[(i + 1) \div 2], 2)[2 - (i % 2)]]

\* Two bytes of each unit, in its place.
LEMMA PairsRight ==
    ASSUME NEW s \in Seq(Char16)
    PROVE  /\ Pairs(s) \in Seq(Octet) /\ Len(Pairs(s)) = 2 * Len(s)
           /\ \A i \in 1..Len(s) : \A j \in 1..2 :
                Pairs(s)[2 * (i - 1) + j] = LittleEndian(s[i], 2)[j]
<1> DEFINE n == Len(s)
<1>1. n \in Nat /\ \A i \in 1..n : s[i] \in Char16
  OBVIOUS
<1> HIDE DEF n
<1>2. \A v \in Char16 : v \in Nat
  BY DEF Char16
<1>3. \A i \in 1..n : LittleEndian(s[i], 2) \in Seq(Octet) /\ Len(LittleEndian(s[i], 2)) = 2
  <2>1. \A v \in Nat : LittleEndian(v, 2) \in Seq(Octet) /\ Len(LittleEndian(v, 2)) = 2
    BY LittleEndianBytes
  <2> QED BY <1>1, <1>2, <2>1
<1>4. \A k \in 1..(2 * n) : (k + 1) \div 2 \in 1..n /\ 2 - (k % 2) \in 1..2
  BY <1>1
<1> DEFINE Part(k) == LittleEndian(s[(k + 1) \div 2], 2)[2 - (k % 2)]
           u == [k \in 1..(2 * n) |-> Part(k)]
<1>5. \A i \in 1..n : \A j \in 1..2 : LittleEndian(s[i], 2)[j] \in Octet
  BY <1>3
<1>6. \A k \in 1..(2 * n) : Part(k) \in Octet
  BY <1>4, <1>5
<1>7. Pairs(s) = u
  BY DEF Pairs, n
<1> HIDE DEF Part
<1>8. u \in [1..(2 * n) -> Octet] /\ 2 * n \in Nat
  BY <1>1, <1>6
<1>9. u \in Seq(Octet) /\ Len(u) = 2 * n
  BY <1>8
<1>10. ASSUME NEW i \in 1..n, NEW j \in 1..2
       PROVE  u[2 * (i - 1) + j] = LittleEndian(s[i], 2)[j]
  <2> DEFINE k == 2 * (i - 1) + j
  <2>1. k \in 1..(2 * n) /\ (k + 1) \div 2 = i /\ 2 - (k % 2) = j
    <3>1. j = 1 \/ j = 2
      OBVIOUS
    <3> QED BY <1>1, <3>1
  <2> HIDE DEF k
  <2>2. u[k] = Part(k)
    BY <2>1
  <2>3. Part(k) = LittleEndian(s[i], 2)[j]
    BY <2>1 DEF Part
  <2> QED BY <2>2, <2>3 DEF k
<1> HIDE DEF u
<1> QED BY <1>7, <1>9, <1>10 DEF n

\* What the read of a field f at position p must come to.
ReadBack(b, p, f) ==
    /\ Read(At(b, p), f.kind).stream = At(b, p + Len(Write(f)))
    /\ Read(At(b, p), f.kind).value = f.value

\* Fields are written as bytes.
LEMMA WriteBytes ==
    ASSUME NEW f, Whole(f)
    PROVE  Write(f) \in Seq(Octet)
<1>1. CASE f.kind = "bool" /\ f.value \in BOOLEAN
  <2>1. Write(f) = LittleEndian(IF f.value THEN 1 ELSE 0, 1)
    BY <1>1 DEF Write
  <2>2. (IF f.value THEN 1 ELSE 0) \in Nat
    OBVIOUS
  <2> DEFINE v == IF f.value THEN 1 ELSE 0
  <2> HIDE DEF v
  <2>3. LittleEndian(v, 1) \in Seq(Octet)
    BY <2>2, LittleEndianBytes DEF v
  <2> QED BY <2>1, <2>3 DEF v
<1>2. CASE f.kind = "uint16" /\ Fits(f.value, Bytes(f.kind))
  <2>1. Write(f) = LittleEndian(f.value, 2)
    BY <1>2 DEF Write, Bytes
  <2> QED BY <1>2, <2>1, LittleEndianBytes DEF Fits
<1>3. CASE f.kind = "uint32" /\ Fits(f.value, Bytes(f.kind))
  <2>1. Write(f) = LittleEndian(f.value, 4)
    BY <1>3 DEF Write, Bytes
  <2> QED BY <1>3, <2>1, LittleEndianBytes DEF Fits
<1>4. CASE f.kind = "string" /\ f.value \in Seq(Octet)
  <2>1. Write(f) = WriteString(f.value)
    BY <1>4 DEF Write
  <2>2. WriteString(f.value) = LittleEndian(Len(f.value), 2) \o f.value
    <3> DEFINE s == f.value
    <3>1. s \in Seq(Octet) /\ Len(s) < 65536
      BY <1>4 DEF Whole
    <3> HIDE DEF s
    <3>2. WriteString(s) = LittleEndian(Len(s), 2) \o s
      BY <3>1, StringWritten
    <3> QED BY <3>2 DEF s
  <2>3. LittleEndian(Len(f.value), 2) \in Seq(Octet)
    BY <1>4, LittleEndianBytes
  <2> QED BY <1>4, <2>1, <2>2, <2>3
<1>5. CASE f.kind = "u16string" /\ f.value \in Seq(Char16)
  <2>1. Write(f) = LittleEndian(Len(f.value), 4) \o Pairs(f.value)
    BY <1>5 DEF Write, WriteU16string, Pairs
  <2>2. LittleEndian(Len(f.value), 4) \in Seq(Octet)
    BY <1>5, LittleEndianBytes
  <2>3. Pairs(f.value) \in Seq(Octet)
    BY <1>5, PairsRight
  <2> QED BY <2>1, <2>2, <2>3
<1> QED BY <1>1, <1>2, <1>3, <1>4, <1>5 DEF Whole, IsField

\* A truth value is read back.
LEMMA BoolRead ==
    ASSUME NEW b \in Seq(Octet), NEW p \in Nat, NEW f, f.kind = "bool", f.value \in BOOLEAN,
           p + Len(Write(f)) <= Len(b), Holds(b, p, Write(f))
    PROVE  ReadBack(b, p, f)
<1> DEFINE v == IF f.value THEN 1 ELSE 0
           asked == Ask(At(b, p), 1)
<1>1. v \in Nat /\ v \div 1 < 256 /\ (v # 0 <=> f.value)
  OBVIOUS
<1>2. Write(f) = LittleEndian(v, 1)
  BY DEF Write
<1> HIDE DEF v
<1>3. Fits(v, 1)
  BY <1>1 DEF Fits, Place
<1>4. Len(LittleEndian(v, 1)) = 1 /\ LittleEndian(v, 1) \in Seq(Octet)
  BY <1>1, LittleEndianBytes
<1>5. asked.stream = At(b, p + 1) /\ asked.bytes = LittleEndian(v, 1) /\ Integer(asked.bytes) = v
  BY <1>2, <1>3, <1>4, IntegerRead
<1>6. asked.bytes # Junk /\ v # Junk
  BY <1>1, <1>4, <1>5, WireAssumption
<1> HIDE DEF asked
<1>7. /\ Read(At(b, p), "bool").stream = asked.stream
      /\ Read(At(b, p), "bool").value = (v # 0)
  BY <1>5, <1>6 DEF Read, ReadInteger, Bytes, asked
<1> QED BY <1>1, <1>2, <1>4, <1>5, <1>7 DEF ReadBack

\* An integer field is read back.
LEMMA WordRead ==
    ASSUME NEW b \in Seq(Octet), NEW p \in Nat, NEW f, f.kind \in {"uint16", "uint32"},
           Fits(f.value, Bytes(f.kind)), p + Len(Write(f)) <= Len(b), Holds(b, p, Write(f))
    PROVE  ReadBack(b, p, f)
<1> DEFINE n == Bytes(f.kind)
           asked == Ask(At(b, p), n)
<1>1. n \in {1, 2, 4} /\ f.kind # "bool"
  BY DEF Bytes
<1>2. Write(f) = LittleEndian(f.value, n) /\ f.value \in Nat
  BY DEF Write, Fits
<1> HIDE DEF n
<1>3. Len(Write(f)) = n /\ LittleEndian(f.value, n) \in Seq(Octet)
  BY <1>1, <1>2, LittleEndianBytes
<1>4. /\ asked.stream = At(b, p + n) /\ asked.bytes = LittleEndian(f.value, n)
      /\ Integer(asked.bytes) = f.value
  BY <1>1, <1>2, <1>3, IntegerRead DEF n
<1>5. asked.bytes # Junk /\ f.value # Junk
  BY <1>2, <1>3, <1>4, WireAssumption
<1> HIDE DEF asked
<1>6. /\ Read(At(b, p), f.kind).stream = asked.stream
      /\ Read(At(b, p), f.kind).value = f.value
  BY <1>1, <1>4, <1>5 DEF Read, ReadInteger, asked, n
<1> QED BY <1>3, <1>4, <1>6 DEF ReadBack

\* A string is read back.
LEMMA StringRead ==
    ASSUME NEW b \in Seq(Octet), NEW p \in Nat, NEW f, f.kind = "string",
           f.value \in Seq(Octet), Len(f.value) < 65536,
           p + Len(Write(f)) <= Len(b), Holds(b, p, Write(f))
    PROVE  ReadBack(b, p, f)
<1> DEFINE s == f.value
           n == Len(s)
           read == ReadUnits(At(b, p), 2, 1)
<1>1. Write(f) = LittleEndian(n, 2) \o s /\ Fits(n, 2)
  <2>1. Write(f) = WriteString(s)
    BY DEF Write
  <2>2. s \in Seq(Octet) /\ n < 65536
    OBVIOUS
  <2> HIDE DEF s
  <2>3. WriteString(s) = LittleEndian(Len(s), 2) \o s /\ Fits(Len(s), 2)
    BY <2>2, StringWritten
  <2> QED BY <2>1, <2>3
<1>2. s \in Seq(Octet) /\ n \in Nat /\ Len(s) = 1 * n /\ \A i \in 1..n : s[i] \in Octet
  OBVIOUS
<1> HIDE DEF s, n
<1> DEFINE w == LittleEndian(n, 2) \o s
<1>9. p + Len(w) <= Len(b) /\ Holds(b, p, w) /\ Write(f) = w
  BY <1>1
<1>10. UnitsAt(b, p, 2, 1, n, s)
  BY <1>1, <1>2, <1>9 DEF UnitsAt
<1>3. /\ read.stream = At(b, p + Len(w))
      /\ read.value = [i \in 1..n |-> Integer(SubSeq(s, 1 * (i - 1) + 1, 1 * i))]
  <2>1. /\ read.stream = At(b, p + Len(LittleEndian(n, 2) \o s))
        /\ read.value = UnitsIn(s, 1, n)
    <3> HIDE DEF read
    <3>1. /\ ReadUnits(At(b, p), 2, 1).stream = At(b, p + Len(LittleEndian(n, 2) \o s))
          /\ ReadUnits(At(b, p), 2, 1).value = UnitsIn(s, 1, n)
      BY <1>1, <1>2, <1>10, UnitsRead
    <3> QED BY <3>1 DEF read
  <2> QED BY <2>1 DEF UnitsIn
<1> HIDE DEF w
<1>4. \A i \in 1..n : Integer(SubSeq(s, 1 * (i - 1) + 1, 1 * i)) = s[i]
  <2> TAKE i \in 1..n
  <2> DEFINE v == s[i]
  <2>1. v \in Nat /\ v < 256 /\ i \in Nat \ {0} /\ 1 * i <= Len(s) /\ 1 * (i - 1) + 1 = i
    BY <1>2 DEF Octet
  <2> HIDE DEF v
  <2>2. Fits(v, 1)
    BY <2>1 DEF Fits, Place
  <2>6. LowBytes(LittleEndian(v, 1), v, 1) /\ v % 256 = v
    BY <2>1, LittleEndianAt
  <2>3. LittleEndian(v, 1)[1] = v
    BY <2>6 DEF LowBytes
  <2>4. \A j \in 1..1 : s[1 * (i - 1) + j] = LittleEndian(v, 1)[j]
    BY <2>1, <2>3 DEF v
  <2>5. Integer(SubSeq(s, 1 * (i - 1) + 1, 1 * i)) = v
    BY <1>2, <2>1, <2>2, <2>4, UnitRead
  <2> QED BY <2>5 DEF v
<1> HIDE DEF read
<1>5. read.value = [i \in 1..n |-> s[i]]
  BY <1>3, <1>4
<1>6. [i \in 1..n |-> s[i]] = s
  BY <1>2 DEF n
<1>7. Read(At(b, p), f.kind) = read
  BY DEF Read, read
<1> QED BY <1>3, <1>5, <1>6, <1>7, <1>9 DEF ReadBack, s

\* A u16string is read back.
LEMMA U16stringRead ==
    ASSUME NEW b \in Seq(Octet), NEW p \in Nat, NEW f, f.kind = "u16string",
           f.value \in Seq(Char16), Fits(Len(f.value), 4),
           p + Len(Write(f)) <= Len(b), Holds(b, p, Write(f))
    PROVE  ReadBack(b, p, f)
<1> DEFINE s == f.value
           n == Len(s)
           u == Pairs(s)
           read == ReadUnits(At(b, p), 4, 2)
<1>1. Write(f) = LittleEndian(n, 4) \o u
  BY DEF Write, WriteU16string, Pairs
<1>2. s \in Seq(Char16) /\ n \in Nat /\ Fits(n, 4) /\ \A i \in 1..n : s[i] \in Char16
  OBVIOUS
<1> HIDE DEF s
<1>3. /\ u \in Seq(Octet) /\ Len(u) = 2 * n
      /\ \A i \in 1..n : \A j \in 1..2 : u[2 * (i - 1) + j] = LittleEndian(s[i], 2)[j]
  BY <1>2, PairsRight
<1> HIDE DEF n, u
<1> DEFINE w == LittleEndian(n, 4) \o u
<1>9. p + Len(w) <= Len(b) /\ Holds(b, p, w) /\ Write(f) = w
  BY <1>1
<1>10. UnitsAt(b, p, 4, 2, n, u)
  BY <1>1, <1>2, <1>3, <1>9 DEF UnitsAt
<1>4. /\ read.stream = At(b, p + Len(w))
      /\ read.value = [i \in 1..n |-> Integer(SubSeq(u, 2 * (i - 1) + 1, 2 * i))]
  <2>1. /\ read.stream = At(b, p + Len(LittleEndian(n, 4) \o u))
        /\ read.value = UnitsIn(u, 2, n)
    <3> HIDE DEF read
    <3>1. /\ ReadUnits(At(b, p), 4, 2).stream = At(b, p + Len(LittleEndian(n, 4) \o u))
          /\ ReadUnits(At(b, p), 4, 2).value = UnitsIn(u, 2, n)
      BY <1>1, <1>2, <1>3, <1>10, UnitsRead
    <3> QED BY <3>1 DEF read
  <2> QED BY <2>1 DEF UnitsIn
<1> HIDE DEF w
<1>5. \A i \in 1..n : Integer(SubSeq(u, 2 * (i - 1) + 1, 2 * i)) = s[i]
  <2> TAKE i \in 1..n
  <2> DEFINE v == s[i]
  <2>1. v \in Nat /\ v < 65536 /\ i \in Nat \ {0} /\ 2 * i <= Len(u)
    BY <1>2, <1>3 DEF Char16
  <2>2. \A j \in 1..2 : u[2 * (i - 1) + j] = LittleEndian(v, 2)[j]
    BY <1>3
  <2> HIDE DEF v
  <2>3. Fits(v, 2)
    BY <2>1 DEF Fits, Place
  <2>4. Integer(SubSeq(u, 2 * (i - 1) + 1, 2 * i)) = v
    BY SMTT(20), <1>3, <2>1, <2>2, <2>3, UnitRead
  <2> QED BY <2>4 DEF v
<1> HIDE DEF read
<1>6. read.value = [i \in 1..n |-> s[i]]
  BY <1>4, <1>5
<1>7. [i \in 1..n |-> s[i]] = s
  BY <1>2 DEF n
<1>8. Read(At(b, p), f.kind) = read
  BY DEF Read, read
<1> QED BY <1>4, <1>6, <1>7, <1>8, <1>9 DEF ReadBack, s

\* Every field is.
LEMMA FieldRead ==
    ASSUME NEW b \in Seq(Octet), NEW p \in Nat, NEW f, Whole(f),
           p + Len(Write(f)) <= Len(b), Holds(b, p, Write(f))
    PROVE  ReadBack(b, p, f)
BY BoolRead, WordRead, StringRead, U16stringRead DEF Whole, IsField

(***************************************************************************)
(* Messages                                                                *)
(***************************************************************************)

\* No string is longer than its length can say.
StringsFit == \A f \in Field : f.kind = "string" => Len(f.value) < 65536

\* Some first number has what some number has.
LEMMA LeastMember ==
    ASSUME NEW S \in SUBSET Nat, S # {}
    PROVE  \E n \in S : \A j \in S : n <= j
<1> DEFINE T == {1..i : i \in S}
           R == StrictSubsetOrdering(Nat)
<1>1. T \subseteq FiniteSubsetsOf(Nat) /\ T # {}
  <2>1. \A i \in Nat : IsFiniteSet(1..i) /\ 1..i \subseteq Nat
    BY FS_Interval
  <2> QED BY <2>1 DEF FiniteSubsetsOf
<1>2. PICK x \in T : \A y \in T : <<y, x>> \notin R
  BY <1>1, FS_StrictSubsetOrderingWellFounded, WFMin
<1>3. PICK i \in S : x = 1..i
  BY <1>2
<1>4. ASSUME NEW j \in S, j < i PROVE FALSE
  <2>1. 1..j \subseteq 1..i /\ 1..j # 1..i
    BY <1>4
  <2>2. <<1..j, 1..i>> \in R
    BY <2>1 DEF StrictSubsetOrdering
  <2> QED BY <1>2, <1>3, <2>2
<1> QED BY <1>4

\* Induction, for a set of numbers.
LEMMA SetInduction ==
    ASSUME NEW S \in SUBSET Nat, 0 \in S, \A n \in S : n + 1 \in S
    PROVE  S = Nat
<1> SUFFICES ASSUME Nat \ S # {} PROVE FALSE
  OBVIOUS
<1>1. PICK n \in Nat \ S : \A j \in Nat \ S : n <= j
  BY LeastMember
<1>2. n # 0 /\ n - 1 \in Nat
  BY <1>1
<1>3. n - 1 \in S
  BY <1>1, <1>2
<1> QED BY <1>1, <1>2, <1>3

\* What has been written of a message after one more field.
WrittenNext(m, g, n) == IF n = 0 THEN <<>> ELSE g[n - 1] \o Write(m[n])

\* The recursion of Written defines a function.
LEMMA WrittenExists ==
    ASSUME NEW m
    PROVE  \A n \in Nat : \E g : g = [k \in 0..n |-> WrittenNext(m, g, k)]
<1> DEFINE P(n) == \E g : g = [k \in 0..n |-> WrittenNext(m, g, k)]
           S == {n \in Nat : P(n)}
<1>1. 0 \in S
  <2> DEFINE g == [k \in 0..0 |-> <<>>]
  <2>1. g = [k \in 0..0 |-> WrittenNext(m, g, k)]
    BY DEF WrittenNext
  <2> QED BY <2>1
<1>2. ASSUME NEW n \in S PROVE n + 1 \in S
  <2>1. PICK g : g = [k \in 0..n |-> WrittenNext(m, g, k)]
    BY <1>2
  <2> DEFINE h == [k \in 0..(n + 1) |-> IF k \in 0..n THEN g[k] ELSE WrittenNext(m, g, n + 1)]
  <2>2. ASSUME NEW k \in 0..(n + 1) PROVE h[k] = WrittenNext(m, h, k)
    <3>1. CASE k \in 0..n
      <4>1. h[k] = WrittenNext(m, g, k)
        BY <2>1, <3>1
      <4>2. k = 0 \/ h[k - 1] = g[k - 1]
        BY <3>1
      <4> QED BY <4>1, <4>2 DEF WrittenNext
    <3>2. CASE k \notin 0..n
      <4>1. k = n + 1 /\ h[k] = WrittenNext(m, g, k)
        BY <2>2, <3>2
      <4>2. h[k - 1] = g[k - 1]
        BY <4>1
      <4> QED BY <4>1, <4>2 DEF WrittenNext
    <3> QED BY <3>1, <3>2
  <2>3. h = [k \in 0..(n + 1) |-> WrittenNext(m, h, k)]
    BY <2>2
  <2>4. P(n + 1)
    <3> HIDE DEF h
    <3> QED BY <2>3
  <2> QED BY <2>4
<1> HIDE DEF P
<1>3. S = Nat
  BY <1>1, <1>2, SetInduction
<1> QED BY <1>3 DEF P

\* Field after field.
LEMMA WrittenSteps ==
    ASSUME NEW m, Len(m) \in Nat
    PROVE  /\ Written(m)[0] = <<>>
           /\ \A n \in Nat : n + 1 <= Len(m) =>
                Written(m)[n + 1] = Written(m)[n] \o Write(m[n + 1])
<1> DEFINE g == CHOOSE g : g = [k \in 0..Len(m) |-> WrittenNext(m, g, k)]
<1>1. g = [k \in 0..Len(m) |-> WrittenNext(m, g, k)]
  BY WrittenExists
<1>2. Written(m) = g
  BY DEF Written, WrittenNext
<1> HIDE DEF g
<1>3. \A n \in 0..Len(m) : g[n] = WrittenNext(m, g, n)
  BY <1>1
<1>4. g[0] = <<>>
  BY <1>3 DEF WrittenNext
<1>5. ASSUME NEW n \in Nat, n + 1 <= Len(m) PROVE g[n + 1] = g[n] \o Write(m[n + 1])
  <2> DEFINE k == n + 1
  <2>1. k \in 0..Len(m) /\ k # 0 /\ k - 1 = n
    BY <1>5
  <2> HIDE DEF k
  <2>2. g[k] = g[k - 1] \o Write(m[k])
    BY <1>3, <2>1, Zenon DEF WrittenNext
  <2>3. g[k] = g[n] \o Write(m[k])
    BY <2>1, <2>2, Zenon
  <2> QED BY <2>3 DEF k
<1> QED BY <1>2, <1>4, <1>5

\* All of it bytes.
LEMMA WrittenBytes ==
    ASSUME StringsFit, NEW m \in Seq(Field)
    PROVE  \A n \in 0..Len(m) : Written(m)[n] \in Seq(Octet)
<1> DEFINE w == Written(m)
           P(n) == n <= Len(m) => w[n] \in Seq(Octet)
           S == {n \in Nat : P(n)}
<1>1. Len(m) \in Nat /\ \A n \in 1..Len(m) : m[n] \in Field
  OBVIOUS
<1>2. /\ w[0] = <<>>
      /\ \A n \in Nat : n + 1 <= Len(m) => w[n + 1] = w[n] \o Write(m[n + 1])
  BY <1>1, WrittenSteps
<1> HIDE DEF w
<1>3. 0 \in S
  <2>1. <<>> \in Seq(Octet)
    OBVIOUS
  <2> QED BY <1>2, <2>1, Zenon
<1>4. ASSUME NEW n \in S PROVE n + 1 \in S
  <2> SUFFICES ASSUME n + 1 <= Len(m) PROVE w[n + 1] \in Seq(Octet)
    OBVIOUS
  <2>1. n \in Nat /\ n + 1 \in 1..Len(m) /\ w[n] \in Seq(Octet)
    BY <1>1, <1>4
  <2>2. Whole(m[n + 1])
    BY <1>1, <2>1, WireAssumption DEF Whole, StringsFit
  <2>3. Write(m[n + 1]) \in Seq(Octet)
    BY <2>2, WriteBytes
  <2>4. w[n + 1] = w[n] \o Write(m[n + 1])
    BY <1>2, <2>1, Zenon
  <2> DEFINE a == w[n]
             c == Write(m[n + 1])
  <2>5. a \in Seq(Octet) /\ c \in Seq(Octet) /\ w[n + 1] = a \o c
    BY <2>1, <2>3, <2>4
  <2> HIDE DEF a, c
  <2>6. a \o c \in Seq(Octet)
    BY <2>5
  <2> QED BY <2>5, <2>6, Zenon
<1> HIDE DEF P
<1>5. S = Nat
  BY <1>3, <1>4, SetInduction
<1> QED BY <1>1, <1>5 DEF P, w

\* w begins with v.
Begins(v, w) == Len(v) <= Len(w) /\ \A i \in 1..Len(v) : v[i] = w[i]

\* What has been written stays in front of what follows.
LEMMA WrittenBegins ==
    ASSUME StringsFit, NEW m \in Seq(Field), NEW k \in 0..Len(m)
    PROVE  \A n \in k..Len(m) : Begins(Written(m)[k], Written(m)[n])
<1> DEFINE w == Written(m)
           P(n) == k <= n /\ n <= Len(m) => Begins(w[k], w[n])
           S == {n \in Nat : P(n)}
<1>1. Len(m) \in Nat /\ k \in Nat
  OBVIOUS
<1>2. \A n \in Nat : n + 1 <= Len(m) => w[n + 1] = w[n] \o Write(m[n + 1])
  BY <1>1, WrittenSteps
<1>3. \A n \in 0..Len(m) : w[n] \in Seq(Octet)
  BY WrittenBytes
<1>4. \A n \in 1..Len(m) : Write(m[n]) \in Seq(Octet)
  <2> TAKE n \in 1..Len(m)
  <2>1. m[n] \in Field
    OBVIOUS
  <2>2. Whole(m[n])
    BY <2>1, WireAssumption DEF Whole, StringsFit
  <2> QED BY <2>2, WriteBytes
<1> HIDE DEF w
<1>5. 0 \in S
  BY <1>1 DEF Begins
<1>6. ASSUME NEW n \in S PROVE n + 1 \in S
  <2> SUFFICES ASSUME k <= n + 1, n + 1 <= Len(m) PROVE Begins(w[k], w[n + 1])
    OBVIOUS
  <2>1. CASE k = n + 1
    <3>1. w[k] \in Seq(Octet) /\ Len(w[k]) \in Nat
      BY <1>3
    <3> QED BY <2>1, <3>1 DEF Begins
  <2>2. CASE k # n + 1
    <3>1. /\ n \in Nat /\ n + 1 \in 1..Len(m) /\ n \in 0..Len(m) /\ k \in 0..Len(m)
          /\ Begins(w[k], w[n])
      BY <1>1, <1>6, <2>2
    <3> DEFINE a == w[k]
               b == w[n]
               c == Write(m[n + 1])
    <3>2. a \in Seq(Octet) /\ b \in Seq(Octet) /\ c \in Seq(Octet)
      BY <1>3, <1>4, <3>1
    <3>3. w[n + 1] = b \o c /\ Begins(a, b)
      BY <1>2, <3>1, Zenon
    <3> HIDE DEF a, b, c
    <3>4. Begins(a, b \o c)
      BY <3>2, <3>3 DEF Begins
    <3> QED BY <3>3, <3>4 DEF a
  <2> QED BY <2>1, <2>2
<1> HIDE DEF P
<1>7. S = Nat
  BY <1>5, <1>6, SetInduction
<1> QED BY <1>1, <1>7 DEF P, w

\* Behind the first n fields of a message is the next, and it is read back.
LEMMA NextField ==
    ASSUME StringsFit, NEW m \in Seq(Field), NEW n \in 0..(Len(m) - 1)
    PROVE  /\ WriteMessage(m) \in Seq(Octet) /\ Len(Written(m)[n]) \in Nat
           /\ Read(At(WriteMessage(m), Len(Written(m)[n])), m[n + 1].kind).stream
                = At(WriteMessage(m), Len(Written(m)[n + 1]))
           /\ Read(At(WriteMessage(m), Len(Written(m)[n])), m[n + 1].kind).value
                = m[n + 1].value
<1> DEFINE f == m[n + 1]
           u == Written(m)[n]
           v == Written(m)[n + 1]
           b == WriteMessage(m)
           p == Len(u)
<1>1. /\ Len(m) \in Nat /\ n \in 0..Len(m) /\ n + 1 \in 1..Len(m) /\ n + 1 \in 0..Len(m)
      /\ n \in Nat /\ n + 1 <= Len(m) /\ f \in Field /\ Len(m) \in (n + 1)..Len(m) /\ Len(m) \in 0..Len(m)
  OBVIOUS
<1>2. Whole(f)
  BY <1>1, WireAssumption DEF Whole, StringsFit
<1>3. v = u \o Write(f)
  BY <1>1, WrittenSteps, Zenon
<1>4. u \in Seq(Octet) /\ v \in Seq(Octet) /\ b \in Seq(Octet)
  BY <1>1, WrittenBytes DEF WriteMessage
<1>5. Begins(v, b)
  BY <1>1, WrittenBegins DEF WriteMessage
<1>6. Write(f) \in Seq(Octet)
  BY <1>2, WriteBytes
<1> HIDE DEF u, v, b, f
<1>7. p \in Nat /\ Len(v) = p + Len(Write(f)) /\ Len(v) <= Len(b)
  BY <1>3, <1>4, <1>5, <1>6 DEF Begins
<1>8. Holds(b, p, Write(f))
  <2> SUFFICES ASSUME NEW i \in 1..Len(Write(f)) PROVE b[p + i] = Write(f)[i]
    BY DEF Holds
  <2>1. (u \o Write(f))[p + i] = Write(f)[i]
    BY <1>4, <1>6
  <2>2. p + i \in 1..Len(v)
    BY <1>6, <1>7
  <2> QED BY <1>3, <1>5, <2>1, <2>2 DEF Begins
<1> HIDE DEF p
<1>9. ReadBack(b, p, f)
  BY <1>2, <1>4, <1>7, <1>8, FieldRead
<1> QED BY <1>4, <1>7, <1>9 DEF ReadBack, u, v, b, f, p

\* A field too many cannot be read.
LEMMA PastTheEnd ==
    ASSUME NEW b \in Seq(Octet)
    PROVE  Read(At(b, Len(b)), "uint32").value = Junk
<1> DEFINE s == At(b, Len(b))
           asked == Ask(s, 4)
<1>1. Len(b) \in Nat /\ Len(b) + 4 > Len(b)
  OBVIOUS
<1>2. s.pos + 4 > Len(s.bytes)
  BY <1>1 DEF At
<1>3. asked.bytes = Junk
  <2> HIDE DEF s
  <2> QED BY <1>2 DEF Ask
<1> HIDE DEF asked
<1>4. ReadInteger(s, "uint32").value = Junk
  BY <1>3 DEF ReadInteger, Bytes, asked
<1> QED BY <1>4 DEF Read

(***************************************************************************)
(* The link and the handler                                                *)
(***************************************************************************)

Packet == {[bytes |-> WriteMessage(m), message |-> m] : m \in Message}
KindRead == {f.kind : f \in Field} \cup {"uint32"}
ValueRead == {f.value : f \in Field} \cup {Junk}

\* The kind of field i, for a handler that reads one too many.
KindAt(m, i) == IF i \in 1..Len(m) THEN m[i].kind ELSE "uint32"

\* On the link is what was sent.
OnLink ==
    /\ link \in Seq(Packet)
    /\ message \in Message \cup {<<>>}
    /\ layout \in Seq(KindRead)
    /\ got \in Seq(ValueRead)

\* The handler reads the fields in their order, and the stream stands where
\* the next one begins.
InStep ==
    /\ Len(got) + Len(layout) <= Len(message) + 1
    /\ \A i \in 1..Len(layout) : layout[i] = KindAt(message, Len(got) + i)
    /\ layout # <<>> =>
          /\ message \in Message
          /\ istream = At(WriteMessage(message), Len(Written(message)[Len(got)]))

WireInv == OnLink /\ InStep /\ ReadWhatWasSent

\* Nothing sent.
LEMMA InitWire == WireInit => WireInv
<1> SUFFICES ASSUME WireInit PROVE WireInv
  OBVIOUS
<1>1. OnLink
  BY DEF WireInit, OnLink
<1>2. InStep
  BY DEF WireInit, InStep
<1>3. ReadWhatWasSent
  BY DEF WireInit, ReadWhatWasSent
<1> QED BY <1>1, <1>2, <1>3 DEF WireInv

\* Sending puts a packet at the end of the link.
LEMMA SendKeepsWire == ASSUME WireInv, NEW m \in Message, Send(m) PROVE WireInv'
<1> DEFINE p == [bytes |-> WriteMessage(m), message |-> m]
<1>1. p \in Packet /\ link' = Append(link, p)
  BY DEF Packet, Send
<1> HIDE DEF p
<1>2. OnLink'
  BY <1>1 DEF WireInv, OnLink, Send
<1>3. InStep'
  BY DEF WireInv, InStep, Send
<1>4. ReadWhatWasSent'
  BY DEF WireInv, ReadWhatWasSent, Send
<1> QED BY <1>2, <1>3, <1>4 DEF WireInv

\* A message has fields of the known kinds.
LEMMA MessageFields ==
    ASSUME NEW m \in Message
    PROVE  /\ m \in Seq(Field) /\ m # <<>> /\ Len(m) \in Nat /\ Len(m) >= 1
           /\ \A i \in 1..Len(m) : m[i] \in Field /\ m[i].kind \in KindRead
<1>1. m \in Seq(Field) /\ m # <<>>
  BY WireAssumption
<1> QED BY <1>1 DEF KindRead

\* What a handler reads of a message begins like its fields.
LEMMA LayoutOfMessage ==
    ASSUME NEW m \in Message, NEW kinds \in Layouts(m)
    PROVE  /\ kinds \in Seq(KindRead)
           /\ Len(kinds) <= Len(m) + 1
           /\ \A i \in 1..Len(kinds) : kinds[i] = KindAt(m, i)
<1> DEFINE n == Len(m)
           all == [i \in 1..n |-> m[i].kind]
<1>1. /\ m \in Seq(Field) /\ n \in Nat /\ n >= 1
      /\ \A i \in 1..n : m[i].kind \in KindRead
  BY MessageFields
<1>2. [i \in DOMAIN m |-> m[i].kind] = all
  BY <1>1
<1>3. kinds \in {all, <<Head(all)>>, Append(all, "uint32")}
  BY <1>2 DEF Layouts
<1>4. \A i \in 1..n : all[i] = KindAt(m, i)
  BY DEF KindAt
<1>5. all \in Seq(KindRead) /\ Len(all) = n
  BY <1>1
<1>6. KindAt(m, n + 1) = "uint32" /\ "uint32" \in KindRead
  BY <1>1 DEF KindAt, KindRead
<1> HIDE DEF all, n
<1>7. CASE kinds = all
  BY <1>1, <1>4, <1>5, <1>7 DEF n
<1>8. CASE kinds = <<Head(all)>>
  <2>1. Head(all) = all[1] /\ all[1] \in KindRead
    BY <1>1, <1>5
  <2> QED BY <1>1, <1>4, <1>8, <2>1 DEF n
<1>9. CASE kinds = Append(all, "uint32")
  BY <1>1, <1>4, <1>5, <1>6, <1>9 DEF n
<1> QED BY <1>3, <1>7, <1>8, <1>9

\* A packet is read from its beginning.
LEMMA RouteKeepsWire == ASSUME WireInv, OnRoutePacket PROVE WireInv'
<1>1. PICK m \in Message : Head(link) = [bytes |-> WriteMessage(m), message |-> m]
  <2>1. link \in Seq(Packet) /\ link # <<>>
    BY DEF WireInv, OnLink, OnRoutePacket
  <2>2. Head(link) \in Packet
    BY <2>1
  <2> QED BY <2>2 DEF Packet
<1>2. /\ istream' = At(WriteMessage(m), 0)
      /\ message' = m
      /\ layout' \in Layouts(m)
      /\ got' = <<>>
  <2> DEFINE p == Head(link)
             w == WriteMessage(m)
  <2>1. /\ istream' = At(p.bytes, 0) /\ message' = p.message
        /\ layout' \in Layouts(message') /\ got' = <<>>
    BY DEF OnRoutePacket, At
  <2> HIDE DEF w, p
  <2>2. p = [bytes |-> w, message |-> m]
    BY <1>1 DEF w, p
  <2>3. p.bytes = w /\ p.message = m
    BY <2>2
  <2> QED BY <2>1, <2>3 DEF w
<1>3. /\ layout' \in Seq(KindRead)
      /\ Len(layout') <= Len(m) + 1
      /\ \A i \in 1..Len(layout') : layout'[i] = KindAt(m, i)
  BY <1>2, LayoutOfMessage
<1>4. OnLink'
  <2>1. link' \in Seq(Packet)
    BY DEF WireInv, OnLink, OnRoutePacket
  <2>2. got' \in Seq(ValueRead)
    BY <1>2
  <2> QED BY <1>2, <1>3, <2>1, <2>2 DEF OnLink
<1>5. InStep'
  <2>1. Len(m) \in Nat /\ Written(m)[0] = <<>>
    BY MessageFields, WrittenSteps
  <2>2. Len(got') = 0 /\ Len(Written(m)[0]) = 0
    BY <1>2, <2>1
  <2>3. istream' = At(WriteMessage(message'), Len(Written(message')[Len(got')]))
    BY <1>2, <2>2
  <2>4. Len(got') + Len(layout') <= Len(message') + 1
    BY <1>2, <1>3, <2>1, <2>2
  <2>5. \A i \in 1..Len(layout') : layout'[i] = KindAt(message', Len(got') + i)
    <3> TAKE i \in 1..Len(layout')
    <3>1. Len(got') + i = i
      BY <2>2
    <3> QED BY <1>2, <1>3, <3>1
  <2> QED BY <1>2, <2>3, <2>4, <2>5 DEF InStep
<1>6. ReadWhatWasSent'
  BY <1>2 DEF ReadWhatWasSent
<1> QED BY <1>4, <1>5, <1>6 DEF WireInv

\* The next field is read as it was written, one too many as nothing.
LEMMA ReadKeepsWire == ASSUME StringsFit, WireInv, ReadField PROVE WireInv'
<1> DEFINE m == message
           n == Len(got)
           b == WriteMessage(m)
           read == Read(istream, Head(layout))
<1>1. /\ layout \in Seq(KindRead) /\ layout # <<>> /\ got \in Seq(ValueRead)
      /\ link \in Seq(Packet) /\ m \in Message
  BY DEF WireInv, OnLink, InStep, ReadField
<1>2. /\ istream' = read.stream /\ got' = Append(got, read.value)
      /\ layout' = Tail(layout) /\ message' = m /\ link' = link
  BY DEF ReadField
<1>3. m \in Seq(Field) /\ Len(m) \in Nat
  BY <1>1, MessageFields
<1>4. /\ n \in Nat /\ Len(layout) \in Nat /\ Len(layout) >= 1 /\ n + Len(layout) <= Len(m) + 1
      /\ n <= Len(m)
  BY <1>1, <1>3 DEF WireInv, InStep
<1>5. Head(layout) = KindAt(m, n + 1)
  <2>1. Head(layout) = layout[1] /\ 1 \in 1..Len(layout)
    BY <1>1, <1>4
  <2> QED BY <2>1 DEF WireInv, InStep
<1>6. istream = At(b, Len(Written(m)[n]))
  BY <1>1 DEF WireInv, InStep
<1>7. /\ n + 1 \in 1..Len(m) =>
            read.value = m[n + 1].value /\ read.stream = At(b, Len(Written(m)[n + 1]))
      /\ n + 1 \notin 1..Len(m) => read.value = Junk
  <2>1. CASE n + 1 \in 1..Len(m)
    <3>1. n \in 0..(Len(m) - 1) /\ Head(layout) = m[n + 1].kind
      BY <1>3, <1>4, <1>5, <2>1 DEF KindAt
    <3> QED BY <1>3, <1>6, <2>1, <3>1, NextField
  <2>2. CASE n + 1 \notin 1..Len(m)
    <3>1. n = Len(m) /\ Head(layout) = "uint32"
      BY <1>3, <1>4, <1>5, <2>2 DEF KindAt
    <3>2. istream = At(b, Len(b))
      BY <1>6, <3>1 DEF WriteMessage
    <3>3. b \in Seq(Octet)
      BY <1>3, WrittenBytes DEF WriteMessage
    <3> QED BY <2>2, <3>1, <3>2, <3>3, PastTheEnd
  <2> QED BY <2>1, <2>2
<1>8. read.value \in ValueRead
  <2>1. CASE n + 1 \in 1..Len(m)
    <3>1. m[n + 1] \in Field
      BY <1>3, <2>1
    <3> QED BY <1>7, <2>1, <3>1 DEF ValueRead
  <2>2. CASE n + 1 \notin 1..Len(m)
    BY <1>7, <2>2 DEF ValueRead
  <2> QED BY <2>1, <2>2
<1>9. /\ got' \in Seq(ValueRead) /\ Len(got') = n + 1 /\ got'[n + 1] = read.value
      /\ \A i \in 1..n : got'[i] = got[i]
  <2> DEFINE v == read.value
  <2>1. v \in ValueRead /\ got' = Append(got, v)
    BY <1>2, <1>8
  <2> HIDE DEF v
  <2>2. /\ got' \in Seq(ValueRead) /\ Len(got') = Len(got) + 1 /\ got'[Len(got) + 1] = v
        /\ \A i \in 1..Len(got) : got'[i] = got[i]
    BY <1>1, <2>1
  <2> QED BY <2>2 DEF v
<1>10. /\ layout' \in Seq(KindRead) /\ Len(layout') = Len(layout) - 1
       /\ \A i \in 1..Len(layout') : layout'[i] = layout[i + 1]
  BY <1>1, <1>2
<1>11. OnLink'
  BY <1>1, <1>2, <1>9, <1>10 DEF OnLink
<1>12. ReadWhatWasSent'
  <2> SUFFICES ASSUME NEW i \in DOMAIN got'
               PROVE  IF i \in DOMAIN m THEN got'[i] = m[i].value ELSE got'[i] = Junk
    BY <1>2 DEF ReadWhatWasSent
  <2>1. DOMAIN m = 1..Len(m) /\ DOMAIN got = 1..n /\ i \in 1..(n + 1)
    BY <1>1, <1>3, <1>9
  <2>2. CASE i = n + 1
    BY <1>7, <1>9, <2>1, <2>2
  <2>3. CASE i # n + 1
    <3>1. i \in 1..n
      BY <1>4, <2>1, <2>3
    <3>2. IF i \in DOMAIN m THEN got[i] = m[i].value ELSE got[i] = Junk
      BY <2>1, <3>1 DEF WireInv, ReadWhatWasSent
    <3> QED BY <1>9, <3>1, <3>2
  <2> QED BY <2>2, <2>3
<1>13. InStep'
  <2>1. Len(got') + Len(layout') <= Len(message') + 1
    BY <1>2, <1>3, <1>4, <1>9, <1>10
  <2>2. ASSUME NEW i \in 1..Len(layout') PROVE layout'[i] = KindAt(message', Len(got') + i)
    <3>1. i + 1 \in 1..Len(layout) /\ n + (i + 1) = (n + 1) + i
      BY <1>4, <1>10
    <3>2. layout[i + 1] = KindAt(m, n + (i + 1))
      BY <3>1 DEF WireInv, InStep
    <3> QED BY <1>2, <1>9, <1>10, <3>1, <3>2
  <2>3. ASSUME layout' # <<>>
        PROVE  istream' = At(WriteMessage(message'), Len(Written(message')[Len(got')]))
    <3>1. Len(layout') >= 1
      BY <1>10, <2>3
    <3>2. n + 1 \in 1..Len(m)
      BY <1>3, <1>4, <1>10, <3>1
    <3> QED BY <1>2, <1>7, <1>9, <3>2
  <2> QED BY <1>1, <1>2, <2>1, <2>2, <2>3 DEF InStep
<1> QED BY <1>11, <1>12, <1>13 DEF WireInv

\* Messages, whatever their fields, are read as they were sent: the invariant.
THEOREM WireInvariant == ASSUME StringsFit PROVE WireSpec => []WireInv
<1>1. WireInit => WireInv
  BY InitWire
<1>2. WireInv /\ [WireNext]_wireVars => WireInv'
  <2> SUFFICES ASSUME WireInv, [WireNext]_wireVars PROVE WireInv'
    OBVIOUS
  <2>1. CASE UNCHANGED wireVars
    BY <2>1 DEF wireVars, WireInv, OnLink, InStep, ReadWhatWasSent
  <2>2. ASSUME NEW m \in Message, Send(m) PROVE WireInv'
    BY <2>2, SendKeepsWire
  <2>3. CASE OnRoutePacket
    BY <2>3, RouteKeepsWire
  <2>4. CASE ReadField
    BY <2>4, ReadKeepsWire
  <2> QED BY <2>1, <2>2, <2>3, <2>4 DEF WireNext
<1> QED BY <1>1, <1>2, PTL DEF WireSpec

\* ReadWhatWasSent, for every set of messages.
THEOREM MessagesAlwaysRead == ASSUME StringsFit PROVE WireSpec => []ReadWhatWasSent
<1>1. WireInv => ReadWhatWasSent
  BY DEF WireInv
<1> QED BY <1>1, WireInvariant, PTL
=============================================================================
