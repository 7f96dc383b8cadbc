---------------------------- MODULE AvatarsProofs ----------------------------
(***************************************************************************)
(* Invariants of Avatars, of Presence, which implements it, and of the     *)
(* walk of AvatarLoad, which implements what Avatars fetches, proved for   *)
(* every set of avatars and attributes, any game servers, whatever the     *)
(* stored lists contain and wherever a statement fails.                    *)
(*                                                                         *)
(* The inductive invariant of the first two adds two facts to the ones of  *)
(* interest: the tables friend and ignore only name avatars with a row     *)
(* (the foreign keys), and an avatar that is not cached has no lists (a    *)
(* new object starts empty).                                               *)
(***************************************************************************)
EXTENDS Presence, AvatarLoad, TLAPS

StoreClosed == \A a \in Avatar : Contacts(a) \subseteq row

OutsideEmpty ==
    \A a \in Avatar :
        /\ a \notin cached => friends[a] = {} /\ ignores[a] = {}
        /\ a \notin row => dbFriend[a] = {} /\ dbIgnore[a] = {}

PointerInv == TypeOK /\ StoreClosed /\ OutsideEmpty /\ ContactsCached /\ OnlineAgree

(***************************************************************************)
(* Outcomes of the statements                                              *)
(***************************************************************************)

\* A DELETE on a contact list leaves the row or takes it away, and has taken
\* it away when it returns.
LEMMA DropRowOutcome ==
    ASSUME NEW list, NEW old, NEW b, NEW o \in DropRow(list, old, b)
    PROVE  /\ o.ok \in BOOLEAN
           /\ o.db = old \/ o.db = old \ {b}
           /\ b \in list /\ o.ok => o.db = old \ {b}
           /\ b \notin list => o.ok /\ o.db = old
           /\ \/ o.fault = 0
              \/ o.fault = 1 /\ faults < MaxFaults /\ ~o.ok
<1>1. CASE b \in list
  <2>1. o \in Execute(old, old \ {b}, faults < MaxFaults)
    BY <1>1 DEF DropRow, Delete, MayFail
  <2>2. CASE o = Ran(old \ {b})
    BY <2>2, <1>1 DEF Ran
  <2>3. CASE \E v \in {old, old \ {b}} :
                faults < MaxFaults /\ o = [db |-> v, ok |-> FALSE, fault |-> 1]
    BY <2>3, <1>1
  <2> QED
    BY <2>1, <2>2, <2>3 DEF Execute
<1>2. CASE b \notin list
  <2>1. o = [db |-> old, ok |-> TRUE, fault |-> 0]
    BY <1>2 DEF DropRow, NotNeeded
  <2> QED
    BY <2>1, <1>2
<1> QED
  BY <1>1, <1>2

\* An INSERT on a contact list leaves the table or adds the row, and has
\* added it when it returns; it is not sent after an earlier failure.
LEMMA StoreRowOutcome ==
    ASSUME NEW goOn \in BOOLEAN, NEW old, NEW b, NEW o \in StoreRow(goOn, old, b)
    PROVE  /\ o.ok \in BOOLEAN
           /\ o.db = old \/ o.db = old \cup {b}
           /\ o.ok => goOn /\ o.db = old \cup {b}
           /\ ~goOn => o.db = old
           /\ \/ o.fault = 0
              \/ o.fault = 1 /\ goOn /\ faults < MaxFaults
<1>1. CASE goOn /\ b \notin old
  <2>1. o \in Execute(old, old \cup {b}, faults < MaxFaults)
    BY <1>1 DEF StoreRow, Insert, MayFail
  <2>2. CASE o = Ran(old \cup {b})
    BY <2>2, <1>1 DEF Ran
  <2>3. CASE \E v \in {old, old \cup {b}} :
                faults < MaxFaults /\ o = [db |-> v, ok |-> FALSE, fault |-> 1]
    BY <2>3, <1>1
  <2> QED
    BY <2>1, <2>2, <2>3 DEF Execute
<1>2. CASE goOn /\ b \in old
  <2>1. o = [db |-> old, ok |-> FALSE, fault |-> 0]
    BY <1>2 DEF StoreRow, Insert, Refused
  <2> QED
    BY <2>1
<1>3. CASE ~goOn
  <2>1. o = [db |-> old, ok |-> FALSE, fault |-> 0]
    BY <1>3 DEF StoreRow, NotRun
  <2> QED
    BY <2>1
<1> QED
  BY <1>1, <1>2, <1>3

\* The INSERT of an avatar leaves the table or adds the row.
LEMMA InsertAvatarOutcome ==
    ASSUME NEW a, a \notin row, NEW o \in Insert(row, a, MayFail)
    PROVE  /\ o.ok \in BOOLEAN
           /\ o.db = row \/ o.db = row \cup {a}
           /\ o.ok => o.db = row \cup {a}
           /\ \/ o.fault = 0
              \/ o.fault = 1 /\ faults < MaxFaults
<1>1. o \in Execute(row, row \cup {a}, faults < MaxFaults)
  BY DEF Insert, MayFail
<1>2. CASE o = Ran(row \cup {a})
  BY <1>2 DEF Ran
<1>3. CASE \E v \in {row, row \cup {a}} :
              faults < MaxFaults /\ o = [db |-> v, ok |-> FALSE, fault |-> 1]
  BY <1>3
<1> QED
  BY <1>1, <1>2, <1>3 DEF Execute

(***************************************************************************)
(* Loading                                                                 *)
(***************************************************************************)

\* What GetAvatar adds to the cache: rows that were not cached, the ones
\* asked for among them, and every contact of what it adds.
LEMMA FetchClosed ==
    ASSUME StoreClosed, NEW X, TypeOK
    PROVE  /\ Fetch(X) \subseteq row
           /\ Fetch(X) \cap cached = {}
           /\ X \cap row \subseteq cached \cup Fetch(X)
           /\ \A a \in Fetch(X) : Contacts(a) \subseteq cached \cup Fetch(X)
<1>1. Fetch(X) \subseteq row /\ Fetch(X) \cap cached = {}
  BY DEF Fetch
<1>2. X \cap row \subseteq cached \cup Fetch(X)
  BY DEF Fetch, LoadClosed
<1>3. ASSUME NEW a \in Fetch(X), NEW b \in Contacts(a), b \notin cached
      PROVE  b \in Fetch(X)
  <2>1. b \in row \ cached
    BY <1>1, <1>3 DEF StoreClosed, TypeOK
  <2>2. ASSUME NEW S \in SUBSET (row \ cached), LoadClosed(S, X)
        PROVE  b \in S
    BY <1>3, <2>2 DEF Fetch, LoadClosed
  <2> QED
    BY <2>1, <2>2 DEF Fetch
<1> QED
  BY <1>1, <1>2, <1>3

\* The lists after a load are lists of avatars, of loaded avatars the stored
\* ones, and of cached avatars the ones they had.
LEMMA ListsAfterLoad ==
    ASSUME TypeOK, NEW X
    PROVE  /\ FriendsAfter(X) \in [Avatar -> SUBSET Avatar]
           /\ IgnoresAfter(X) \in [Avatar -> SUBSET Avatar]
           /\ AttrAfter(X) \in [Avatar -> Attribute]
           /\ \A a \in Avatar :
                 /\ a \in Fetch(X) => /\ FriendsAfter(X)[a] = dbFriend[a]
                                      /\ IgnoresAfter(X)[a] = dbIgnore[a]
                                      /\ AttrAfter(X)[a] = dbAttr[a]
                 /\ a \notin Fetch(X) => /\ FriendsAfter(X)[a] = friends[a]
                                         /\ IgnoresAfter(X)[a] = ignores[a]
                                         /\ AttrAfter(X)[a] = attr[a]
BY DEF TypeOK, FriendsAfter, IgnoresAfter, AttrAfter

\* A load keeps the pointer invariant: what the new lists point to is cached.
LEMMA LoadKeepsPointers ==
    ASSUME PointerInv, NEW X
    PROVE  LET C == cached \cup Fetch(X) IN
           /\ C \subseteq row
           /\ \A a \in C : FriendsAfter(X)[a] \cup IgnoresAfter(X)[a] \subseteq C
           /\ \A a \in Avatar \ C : FriendsAfter(X)[a] = {} /\ IgnoresAfter(X)[a] = {}
<1>1. /\ Fetch(X) \subseteq row
      /\ \A a \in Fetch(X) : Contacts(a) \subseteq cached \cup Fetch(X)
  BY FetchClosed DEF PointerInv
<1>2. row \subseteq Avatar /\ cached \subseteq row
  BY DEF PointerInv, TypeOK
<1>3. ASSUME NEW a \in cached \cup Fetch(X)
      PROVE  FriendsAfter(X)[a] \cup IgnoresAfter(X)[a] \subseteq cached \cup Fetch(X)
  BY <1>1, <1>2, <1>3, ListsAfterLoad DEF PointerInv, ContactsCached, Contacts
<1>4. ASSUME NEW a \in Avatar \ (cached \cup Fetch(X))
      PROVE  FriendsAfter(X)[a] = {} /\ IgnoresAfter(X)[a] = {}
  BY <1>4, ListsAfterLoad DEF PointerInv, OutsideEmpty
<1> QED
  BY <1>1, <1>2, <1>3, <1>4

(***************************************************************************)
(* The pointer invariant                                                   *)
(***************************************************************************)

\* A handler that loads a and b and puts b on, or takes somebody off, the
\* lists of a.
ContactChange(a, b) ==
    /\ row' = row
    /\ cached' = cached \cup Fetch({a, b})
    /\ friends' \in [Avatar -> SUBSET Avatar] /\ ignores' \in [Avatar -> SUBSET Avatar]
    /\ dbFriend' \in [Avatar -> SUBSET Avatar] /\ dbIgnore' \in [Avatar -> SUBSET Avatar]
    /\ \A c \in Avatar :
          /\ friends'[c] \subseteq FriendsAfter({a, b})[c] \cup (IF c = a THEN {b} ELSE {})
          /\ ignores'[c] \subseteq IgnoresAfter({a, b})[c] \cup (IF c = a THEN {b} ELSE {})
          /\ dbFriend'[c] \subseteq dbFriend[c] \cup (IF c = a THEN {b} ELSE {})
          /\ dbIgnore'[c] \subseteq dbIgnore[c] \cup (IF c = a THEN {b} ELSE {})

\* Such a handler points to cached objects and stored avatars only.
LEMMA ContactChangeKeeps ==
    ASSUME PointerInv, NEW a \in row, NEW b \in row, ContactChange(a, b)
    PROVE  StoreClosed' /\ OutsideEmpty' /\ ContactsCached' /\ cached' \subseteq row'
<1> DEFINE C == cached \cup Fetch({a, b})
<1>1. /\ C \subseteq row
      /\ \A c \in C : FriendsAfter({a, b})[c] \cup IgnoresAfter({a, b})[c] \subseteq C
      /\ \A c \in Avatar \ C : FriendsAfter({a, b})[c] = {} /\ IgnoresAfter({a, b})[c] = {}
  BY LoadKeepsPointers
<1>2. a \in C /\ b \in C
  BY FetchClosed DEF PointerInv
<1>3. cached' = C /\ row' = row /\ row \subseteq Avatar
  BY DEF ContactChange, PointerInv, TypeOK
<1>4. StoreClosed'
  BY <1>3 DEF ContactChange, StoreClosed, Contacts, PointerInv
<1>5. OutsideEmpty'
  BY <1>1, <1>2, <1>3 DEF ContactChange, OutsideEmpty, PointerInv
<1>6. ContactsCached'
  BY <1>1, <1>2, <1>3 DEF ContactChange, ContactsCached
<1> QED
  BY <1>1, <1>3, <1>4, <1>5, <1>6

\* A handler that only loads points to cached objects only.
LEMMA LoadKeeps ==
    ASSUME PointerInv, NEW a \in row, GetAvatar({a}), UNCHANGED <<row, dbFriend, dbIgnore>>
    PROVE  /\ StoreClosed' /\ OutsideEmpty' /\ ContactsCached' /\ cached' \subseteq row'
           /\ friends' \in [Avatar -> SUBSET Avatar] /\ ignores' \in [Avatar -> SUBSET Avatar]
           /\ attr' \in [Avatar -> Attribute]
           /\ a \in cached' /\ cached \subseteq cached'
<1>1. {a, a} = {a}
  OBVIOUS
<1>2. ContactChange(a, a)
  BY <1>1, ListsAfterLoad DEF ContactChange, GetAvatar, PointerInv, TypeOK
<1>3. a \in cached \cup Fetch({a})
  BY FetchClosed DEF PointerInv
<1> QED
  BY <1>2, <1>3, ContactChangeKeeps, ListsAfterLoad DEF GetAvatar, PointerInv

\* Such a handler disturbs no pair but (a, b), and that one only if the
\* failed statement about it is on record.
PairChange(a, b) ==
    LET F == FriendsAfter({a, b})
        I == IgnoresAfter({a, b})
    IN  /\ dirty \subseteq dirty'
        /\ \A c \in Avatar \ {a} : dbFriend'[c] = dbFriend[c] /\ dbIgnore'[c] = dbIgnore[c]
        /\ \A c, d \in Avatar :
              /\ <<c, d>> \notin dirty'
              /\ d \in F[c] <=> d \in dbFriend[c]
              /\ d \in I[c] <=> d \in dbIgnore[c]
              /\ ~(d \in dbFriend[c] /\ d \in dbIgnore[c])
              => /\ d \in friends'[c] <=> d \in dbFriend'[c]
                 /\ d \in ignores'[c] <=> d \in dbIgnore'[c]
                 /\ ~(d \in dbFriend'[c] /\ d \in dbIgnore'[c])

\* What the invariants need to know of the four handlers of contacts.
Changed(a, b) ==
    /\ a \in row /\ b \in row
    /\ ContactChange(a, b)
    /\ PairChange(a, b)
    /\ result' \in ResultCode
    /\ dirty' \subseteq Avatar \X Avatar
    /\ faults' \in 0..MaxFaults

\* AddFriend is such a change, however its two statements end.
LEMMA AddFriendChange ==
    ASSUME PointerInv, NEW a \in Avatar, NEW b \in Avatar, AddFriend(a, b)
    PROVE  Changed(a, b)
<1> DEFINE F == FriendsAfter({a, b})
           I == IgnoresAfter({a, b})
<1> USE DEF ResultCode, Answer
<1>1. F \in [Avatar -> SUBSET Avatar] /\ I \in [Avatar -> SUBSET Avatar]
  BY ListsAfterLoad DEF PointerInv
<1>2. CASE b \in F[a]
  BY <1>1, <1>2 DEF AddFriend, Changed, ContactChange, PairChange, PointerInv, TypeOK
<1>3. CASE b \notin F[a]
  <2>1. PICK del \in DropRow(I[a], dbIgnore[a], b) :
        \E ins \in StoreRow(del.ok, dbFriend[a], b) :
            /\ ignores' = [I EXCEPT ![a] = @ \ {b}]
            /\ friends' = IF del.ok THEN [F EXCEPT ![a] = @ \cup {b}] ELSE F
            /\ dbIgnore' = [dbIgnore EXCEPT ![a] = del.db]
            /\ dbFriend' = [dbFriend EXCEPT ![a] = ins.db]
            /\ result' = Answer(ins.ok)
            /\ dirty' = IF ins.ok THEN dirty ELSE dirty \cup {<<a, b>>}
            /\ faults' = faults + del.fault + ins.fault
    BY <1>3 DEF AddFriend
  <2>2. PICK ins \in StoreRow(del.ok, dbFriend[a], b) :
            /\ ignores' = [I EXCEPT ![a] = @ \ {b}]
            /\ friends' = IF del.ok THEN [F EXCEPT ![a] = @ \cup {b}] ELSE F
            /\ dbIgnore' = [dbIgnore EXCEPT ![a] = del.db]
            /\ dbFriend' = [dbFriend EXCEPT ![a] = ins.db]
            /\ result' = Answer(ins.ok)
            /\ dirty' = IF ins.ok THEN dirty ELSE dirty \cup {<<a, b>>}
            /\ faults' = faults + del.fault + ins.fault
    BY <2>1
  <2> HIDE DEF F, I
  <2>3. /\ del.ok \in BOOLEAN
        /\ del.db = dbIgnore[a] \/ del.db = dbIgnore[a] \ {b}
        /\ b \in I[a] /\ del.ok => del.db = dbIgnore[a] \ {b}
        /\ b \notin I[a] => del.db = dbIgnore[a]
        /\ del.fault = 0 \/ (del.fault = 1 /\ faults < MaxFaults /\ ~del.ok)
    BY DropRowOutcome
  <2>4. /\ ins.ok \in BOOLEAN
        /\ ins.db = dbFriend[a] \/ ins.db = dbFriend[a] \cup {b}
        /\ ins.ok => del.ok /\ ins.db = dbFriend[a] \cup {b}
        /\ ins.fault = 0 \/ (ins.fault = 1 /\ del.ok /\ faults < MaxFaults)
    BY <2>3, StoreRowOutcome
  <2>5. faults' \in 0..MaxFaults
    BY <2>2, <2>3, <2>4, AvatarsAssumption DEF PointerInv, TypeOK
  <2>6. /\ friends' \in [Avatar -> SUBSET Avatar] /\ ignores' \in [Avatar -> SUBSET Avatar]
        /\ dbFriend' \in [Avatar -> SUBSET Avatar] /\ dbIgnore' \in [Avatar -> SUBSET Avatar]
    BY <1>1, <2>2, <2>3, <2>4 DEF PointerInv, TypeOK
  <2>7. \A c \in Avatar :
          /\ friends'[c] \subseteq F[c] \cup (IF c = a THEN {b} ELSE {})
          /\ ignores'[c] \subseteq I[c] \cup (IF c = a THEN {b} ELSE {})
          /\ dbFriend'[c] \subseteq dbFriend[c] \cup (IF c = a THEN {b} ELSE {})
          /\ dbIgnore'[c] \subseteq dbIgnore[c] \cup (IF c = a THEN {b} ELSE {})
    BY <1>1, <2>2, <2>3, <2>4 DEF PointerInv, TypeOK
  <2>8. row' = row /\ cached' = cached \cup Fetch({a, b})
    BY DEF AddFriend
  <2>9. ContactChange(a, b)
    BY <2>6, <2>7, <2>8 DEF ContactChange, F, I
  <2>10. dirty \subseteq dirty' /\ dirty' \subseteq Avatar \X Avatar
    BY <2>2 DEF PointerInv, TypeOK
  <2>11. \A c \in Avatar \ {a} :
            /\ dbFriend'[c] = dbFriend[c] /\ dbIgnore'[c] = dbIgnore[c]
            /\ friends'[c] = F[c] /\ ignores'[c] = I[c]
    BY <1>1, <2>2 DEF PointerInv, TypeOK
  <2>12. \A d \in Avatar \ {b} :
            /\ d \in dbFriend'[a] <=> d \in dbFriend[a]
            /\ d \in dbIgnore'[a] <=> d \in dbIgnore[a]
            /\ d \in friends'[a] <=> d \in F[a]
            /\ d \in ignores'[a] <=> d \in I[a]
    BY <1>1, <2>2, <2>3, <2>4 DEF PointerInv, TypeOK
  <2>13. ASSUME <<a, b>> \notin dirty', b \in I[a] <=> b \in dbIgnore[a],
                b \in F[a] <=> b \in dbFriend[a]
         PROVE  /\ b \in friends'[a] <=> b \in dbFriend'[a]
                /\ b \in ignores'[a] <=> b \in dbIgnore'[a]
                /\ ~(b \in dbFriend'[a] /\ b \in dbIgnore'[a])
    <3>1. ins.ok
      BY <2>2, <2>4, <2>13
    <3>2. dbFriend'[a] = dbFriend[a] \cup {b} /\ b \notin dbIgnore'[a]
      BY <2>2, <2>3, <2>4, <2>13, <3>1 DEF PointerInv, TypeOK
    <3>3. b \in friends'[a] /\ b \notin ignores'[a]
      BY <1>1, <2>2, <2>4, <3>1
    <3> QED
      BY <3>2, <3>3
  <2>14. ASSUME NEW c \in Avatar, NEW d \in Avatar, <<c, d>> \notin dirty',
                d \in F[c] <=> d \in dbFriend[c], d \in I[c] <=> d \in dbIgnore[c],
                ~(d \in dbFriend[c] /\ d \in dbIgnore[c])
         PROVE  /\ d \in friends'[c] <=> d \in dbFriend'[c]
                /\ d \in ignores'[c] <=> d \in dbIgnore'[c]
                /\ ~(d \in dbFriend'[c] /\ d \in dbIgnore'[c])
    <3>1. CASE c # a
      BY <2>11, <2>14, <3>1
    <3>2. CASE c = a /\ d # b
      BY <2>12, <2>14, <3>2
    <3>3. CASE c = a /\ d = b
      BY <2>13, <2>14, <3>3
    <3> QED
      BY <3>1, <3>2, <3>3
  <2>15. PairChange(a, b)
    BY <2>10, <2>11, <2>14 DEF PairChange, F, I
  <2> QED
    BY <2>2, <2>4, <2>5, <2>9, <2>10, <2>15 DEF Changed, AddFriend
<1> QED
  BY <1>2, <1>3

\* AddIgnore is such a change, however its two statements end.
LEMMA AddIgnoreChange ==
    ASSUME PointerInv, NEW a \in Avatar, NEW b \in Avatar, AddIgnore(a, b)
    PROVE  Changed(a, b)
<1> DEFINE F == FriendsAfter({a, b})
           I == IgnoresAfter({a, b})
<1> USE DEF ResultCode, Answer
<1>1. F \in [Avatar -> SUBSET Avatar] /\ I \in [Avatar -> SUBSET Avatar]
  BY ListsAfterLoad DEF PointerInv
<1>2. CASE b \in I[a]
  BY <1>1, <1>2 DEF AddIgnore, Changed, ContactChange, PairChange, PointerInv, TypeOK
<1>3. CASE b \notin I[a]
  <2>1. PICK del \in DropRow(F[a], dbFriend[a], b) :
        \E ins \in StoreRow(del.ok, dbIgnore[a], b) :
            /\ friends' = [F EXCEPT ![a] = @ \ {b}]
            /\ ignores' = IF del.ok THEN [I EXCEPT ![a] = @ \cup {b}] ELSE I
            /\ dbFriend' = [dbFriend EXCEPT ![a] = del.db]
            /\ dbIgnore' = [dbIgnore EXCEPT ![a] = ins.db]
            /\ result' = Answer(ins.ok)
            /\ dirty' = IF ins.ok THEN dirty ELSE dirty \cup {<<a, b>>}
            /\ faults' = faults + del.fault + ins.fault
    BY <1>3 DEF AddIgnore
  <2>2. PICK ins \in StoreRow(del.ok, dbIgnore[a], b) :
            /\ friends' = [F EXCEPT ![a] = @ \ {b}]
            /\ ignores' = IF del.ok THEN [I EXCEPT ![a] = @ \cup {b}] ELSE I
            /\ dbFriend' = [dbFriend EXCEPT ![a] = del.db]
            /\ dbIgnore' = [dbIgnore EXCEPT ![a] = ins.db]
            /\ result' = Answer(ins.ok)
            /\ dirty' = IF ins.ok THEN dirty ELSE dirty \cup {<<a, b>>}
            /\ faults' = faults + del.fault + ins.fault
    BY <2>1
  <2> HIDE DEF F, I
  <2>3. /\ del.ok \in BOOLEAN
        /\ del.db = dbFriend[a] \/ del.db = dbFriend[a] \ {b}
        /\ b \in F[a] /\ del.ok => del.db = dbFriend[a] \ {b}
        /\ b \notin F[a] => del.db = dbFriend[a]
        /\ del.fault = 0 \/ (del.fault = 1 /\ faults < MaxFaults /\ ~del.ok)
    BY DropRowOutcome
  <2>4. /\ ins.ok \in BOOLEAN
        /\ ins.db = dbIgnore[a] \/ ins.db = dbIgnore[a] \cup {b}
        /\ ins.ok => del.ok /\ ins.db = dbIgnore[a] \cup {b}
        /\ ins.fault = 0 \/ (ins.fault = 1 /\ del.ok /\ faults < MaxFaults)
    BY <2>3, StoreRowOutcome
  <2>5. faults' \in 0..MaxFaults
    BY <2>2, <2>3, <2>4, AvatarsAssumption DEF PointerInv, TypeOK
  <2>6. /\ friends' \in [Avatar -> SUBSET Avatar] /\ ignores' \in [Avatar -> SUBSET Avatar]
        /\ dbFriend' \in [Avatar -> SUBSET Avatar] /\ dbIgnore' \in [Avatar -> SUBSET Avatar]
    BY <1>1, <2>2, <2>3, <2>4 DEF PointerInv, TypeOK
  <2>7. \A c \in Avatar :
          /\ friends'[c] \subseteq F[c] \cup (IF c = a THEN {b} ELSE {})
          /\ ignores'[c] \subseteq I[c] \cup (IF c = a THEN {b} ELSE {})
          /\ dbFriend'[c] \subseteq dbFriend[c] \cup (IF c = a THEN {b} ELSE {})
          /\ dbIgnore'[c] \subseteq dbIgnore[c] \cup (IF c = a THEN {b} ELSE {})
    BY <1>1, <2>2, <2>3, <2>4 DEF PointerInv, TypeOK
  <2>8. row' = row /\ cached' = cached \cup Fetch({a, b})
    BY DEF AddIgnore
  <2>9. ContactChange(a, b)
    BY <2>6, <2>7, <2>8 DEF ContactChange, F, I
  <2>10. dirty \subseteq dirty' /\ dirty' \subseteq Avatar \X Avatar
    BY <2>2 DEF PointerInv, TypeOK
  <2>11. \A c \in Avatar \ {a} :
            /\ dbFriend'[c] = dbFriend[c] /\ dbIgnore'[c] = dbIgnore[c]
            /\ friends'[c] = F[c] /\ ignores'[c] = I[c]
    BY <1>1, <2>2 DEF PointerInv, TypeOK
  <2>12. \A d \in Avatar \ {b} :
            /\ d \in dbFriend'[a] <=> d \in dbFriend[a]
            /\ d \in dbIgnore'[a] <=> d \in dbIgnore[a]
            /\ d \in friends'[a] <=> d \in F[a]
            /\ d \in ignores'[a] <=> d \in I[a]
    BY <1>1, <2>2, <2>3, <2>4 DEF PointerInv, TypeOK
  <2>13. ASSUME <<a, b>> \notin dirty', b \in I[a] <=> b \in dbIgnore[a],
                b \in F[a] <=> b \in dbFriend[a]
         PROVE  /\ b \in friends'[a] <=> b \in dbFriend'[a]
                /\ b \in ignores'[a] <=> b \in dbIgnore'[a]
                /\ ~(b \in dbFriend'[a] /\ b \in dbIgnore'[a])
    <3>1. ins.ok
      BY <2>2, <2>4, <2>13
    <3>2. dbIgnore'[a] = dbIgnore[a] \cup {b} /\ b \notin dbFriend'[a]
      BY <2>2, <2>3, <2>4, <2>13, <3>1 DEF PointerInv, TypeOK
    <3>3. b \in ignores'[a] /\ b \notin friends'[a]
      BY <1>1, <2>2, <2>4, <3>1
    <3> QED
      BY <3>2, <3>3
  <2>14. ASSUME NEW c \in Avatar, NEW d \in Avatar, <<c, d>> \notin dirty',
                d \in F[c] <=> d \in dbFriend[c], d \in I[c] <=> d \in dbIgnore[c],
                ~(d \in dbFriend[c] /\ d \in dbIgnore[c])
         PROVE  /\ d \in friends'[c] <=> d \in dbFriend'[c]
                /\ d \in ignores'[c] <=> d \in dbIgnore'[c]
                /\ ~(d \in dbFriend'[c] /\ d \in dbIgnore'[c])
    <3>1. CASE c # a
      BY <2>11, <2>14, <3>1
    <3>2. CASE c = a /\ d # b
      BY <2>12, <2>14, <3>2
    <3>3. CASE c = a /\ d = b
      BY <2>13, <2>14, <3>3
    <3> QED
      BY <3>1, <3>2, <3>3
  <2>15. PairChange(a, b)
    BY <2>10, <2>11, <2>14 DEF PairChange, F, I
  <2> QED
    BY <2>2, <2>4, <2>5, <2>9, <2>10, <2>15 DEF Changed, AddIgnore
<1> QED
  BY <1>2, <1>3

\* RemoveFriend is such a change, however its statement ends.
LEMMA RemoveFriendChange ==
    ASSUME PointerInv, NEW a \in Avatar, NEW b \in Avatar, RemoveFriend(a, b)
    PROVE  Changed(a, b)
<1> DEFINE F == FriendsAfter({a, b})
           I == IgnoresAfter({a, b})
<1> USE DEF ResultCode, Answer
<1>1. F \in [Avatar -> SUBSET Avatar] /\ I \in [Avatar -> SUBSET Avatar]
  BY ListsAfterLoad DEF PointerInv
<1>2. /\ row' = row /\ cached' = cached \cup Fetch({a, b})
      /\ ignores' = I /\ dbIgnore' = dbIgnore
  BY DEF RemoveFriend
<1>3. PICK del \in DropRow(F[a], dbFriend[a], b) :
          /\ friends' = [F EXCEPT ![a] = @ \ {b}]
          /\ dbFriend' = [dbFriend EXCEPT ![a] = del.db]
          /\ result' = Answer(del.ok)
          /\ dirty' = IF del.ok THEN dirty ELSE dirty \cup {<<a, b>>}
          /\ faults' = faults + del.fault
  BY DEF RemoveFriend
<1> HIDE DEF F, I
<1>4. /\ del.ok \in BOOLEAN
      /\ del.db = dbFriend[a] \/ del.db = dbFriend[a] \ {b}
      /\ b \in F[a] /\ del.ok => del.db = dbFriend[a] \ {b}
      /\ b \notin F[a] => del.db = dbFriend[a]
      /\ del.fault = 0 \/ (del.fault = 1 /\ faults < MaxFaults /\ ~del.ok)
  BY DropRowOutcome
<1>5. faults' \in 0..MaxFaults
  BY <1>3, <1>4, AvatarsAssumption DEF PointerInv, TypeOK
<1>6. dbFriend \in [Avatar -> SUBSET Avatar] /\ del.db \subseteq dbFriend[a]
  BY <1>4 DEF PointerInv, TypeOK
<1>7. /\ friends' \in [Avatar -> SUBSET Avatar]
      /\ friends'[a] = F[a] \ {b}
      /\ \A c \in Avatar \ {a} : friends'[c] = F[c]
  BY <1>1, <1>3
<1>8. /\ dbFriend' \in [Avatar -> SUBSET Avatar]
      /\ dbFriend'[a] = del.db
      /\ \A c \in Avatar \ {a} : dbFriend'[c] = dbFriend[c]
  BY <1>3, <1>6
<1>9. ASSUME NEW c \in Avatar
      PROVE  friends'[c] \subseteq F[c] /\ dbFriend'[c] \subseteq dbFriend[c]
  <2>1. CASE c = a
    BY <2>1, <1>6, <1>7, <1>8
  <2>2. CASE c # a
    BY <2>2, <1>7, <1>8
  <2> QED
    BY <2>1, <2>2
<1>10. ASSUME NEW d \in Avatar \ {b}
      PROVE  /\ d \in friends'[a] <=> d \in F[a]
             /\ d \in dbFriend'[a] <=> d \in dbFriend[a]
  <2>1. d \in friends'[a] <=> d \in F[a]
    BY <1>7
  <2>2. d \in del.db <=> d \in dbFriend[a]
    BY <1>4
  <2> QED
    BY <1>8, <2>1, <2>2
<1>11. ContactChange(a, b)
  BY <1>1, <1>2, <1>7, <1>8, <1>9 DEF ContactChange, PointerInv, TypeOK, F, I
<1>12. dirty \subseteq dirty' /\ dirty' \subseteq Avatar \X Avatar
  BY <1>3 DEF PointerInv, TypeOK
<1>13. ASSUME <<a, b>> \notin dirty', b \in F[a] <=> b \in dbFriend[a]
      PROVE  b \notin friends'[a] /\ b \notin dbFriend'[a]
  <2>1. del.ok
    BY <1>3, <1>4, <1>13
  <2> QED
    BY <1>1, <1>3, <1>4, <1>13, <2>1 DEF PointerInv, TypeOK
<1>14. PairChange(a, b)
  BY <1>2, <1>7, <1>8, <1>10, <1>12, <1>13 DEF PairChange, F, I
<1> QED
  BY <1>3, <1>4, <1>5, <1>11, <1>12, <1>14 DEF Changed, RemoveFriend

\* RemoveIgnore is such a change, however its statement ends.
LEMMA RemoveIgnoreChange ==
    ASSUME PointerInv, NEW a \in Avatar, NEW b \in Avatar, RemoveIgnore(a, b)
    PROVE  Changed(a, b)
<1> DEFINE F == FriendsAfter({a, b})
           I == IgnoresAfter({a, b})
<1> USE DEF ResultCode, Answer
<1>1. F \in [Avatar -> SUBSET Avatar] /\ I \in [Avatar -> SUBSET Avatar]
  BY ListsAfterLoad DEF PointerInv
<1>2. /\ row' = row /\ cached' = cached \cup Fetch({a, b})
      /\ friends' = F /\ dbFriend' = dbFriend
  BY DEF RemoveIgnore
<1>3. PICK del \in DropRow(I[a], dbIgnore[a], b) :
          /\ ignores' = [I EXCEPT ![a] = @ \ {b}]
          /\ dbIgnore' = [dbIgnore EXCEPT ![a] = del.db]
          /\ result' = Answer(del.ok)
          /\ dirty' = IF del.ok THEN dirty ELSE dirty \cup {<<a, b>>}
          /\ faults' = faults + del.fault
  BY DEF RemoveIgnore
<1> HIDE DEF F, I
<1>4. /\ del.ok \in BOOLEAN
      /\ del.db = dbIgnore[a] \/ del.db = dbIgnore[a] \ {b}
      /\ b \in I[a] /\ del.ok => del.db = dbIgnore[a] \ {b}
      /\ b \notin I[a] => del.db = dbIgnore[a]
      /\ del.fault = 0 \/ (del.fault = 1 /\ faults < MaxFaults /\ ~del.ok)
  BY DropRowOutcome
<1>5. faults' \in 0..MaxFaults
  BY <1>3, <1>4, AvatarsAssumption DEF PointerInv, TypeOK
<1>6. dbIgnore \in [Avatar -> SUBSET Avatar] /\ del.db \subseteq dbIgnore[a]
  BY <1>4 DEF PointerInv, TypeOK
<1>7. /\ ignores' \in [Avatar -> SUBSET Avatar]
      /\ ignores'[a] = I[a] \ {b}
      /\ \A c \in Avatar \ {a} : ignores'[c] = I[c]
  BY <1>1, <1>3
<1>8. /\ dbIgnore' \in [Avatar -> SUBSET Avatar]
      /\ dbIgnore'[a] = del.db
      /\ \A c \in Avatar \ {a} : dbIgnore'[c] = dbIgnore[c]
  BY <1>3, <1>6
<1>9. ASSUME NEW c \in Avatar
      PROVE  ignores'[c] \subseteq I[c] /\ dbIgnore'[c] \subseteq dbIgnore[c]
  <2>1. CASE c = a
    BY <2>1, <1>6, <1>7, <1>8
  <2>2. CASE c # a
    BY <2>2, <1>7, <1>8
  <2> QED
    BY <2>1, <2>2
<1>10. ASSUME NEW d \in Avatar \ {b}
      PROVE  /\ d \in ignores'[a] <=> d \in I[a]
             /\ d \in dbIgnore'[a] <=> d \in dbIgnore[a]
  <2>1. d \in ignores'[a] <=> d \in I[a]
    BY <1>7
  <2>2. d \in del.db <=> d \in dbIgnore[a]
    BY <1>4
  <2> QED
    BY <1>8, <2>1, <2>2
<1>11. ContactChange(a, b)
  BY <1>1, <1>2, <1>7, <1>8, <1>9 DEF ContactChange, PointerInv, TypeOK, F, I
<1>12. dirty \subseteq dirty' /\ dirty' \subseteq Avatar \X Avatar
  BY <1>3 DEF PointerInv, TypeOK
<1>13. ASSUME <<a, b>> \notin dirty', b \in I[a] <=> b \in dbIgnore[a]
      PROVE  b \notin ignores'[a] /\ b \notin dbIgnore'[a]
  <2>1. del.ok
    BY <1>3, <1>4, <1>13
  <2> QED
    BY <1>1, <1>3, <1>4, <1>13, <2>1 DEF PointerInv, TypeOK
<1>14. PairChange(a, b)
  BY <1>2, <1>7, <1>8, <1>10, <1>12, <1>13 DEF PairChange, F, I
<1> QED
  BY <1>3, <1>4, <1>5, <1>11, <1>12, <1>14 DEF Changed, RemoveIgnore

\* A handler of contacts keeps the whole invariant.
LEMMA ContactHandlerKeeps ==
    ASSUME PointerInv, NEW a \in Avatar, NEW b \in Avatar, Changed(a, b),
           UNCHANGED <<row, dbAttr, flag, online, transient>>,
           attr' = AttrAfter({a, b})
    PROVE  PointerInv'
<1>1. StoreClosed' /\ OutsideEmpty' /\ ContactsCached' /\ cached' \subseteq row'
  BY ContactChangeKeeps DEF Changed
<1>2. attr' \in [Avatar -> Attribute]
  BY ListsAfterLoad DEF PointerInv
<1>3. TypeOK'
  BY <1>1, <1>2 DEF Changed, ContactChange, PointerInv, TypeOK
<1>4. OnlineAgree'
  BY DEF Changed, ContactChange, PointerInv, OnlineAgree
<1> QED
  BY <1>1, <1>3, <1>4 DEF PointerInv

\* A SELECT that fails half way leaves lists that point to cached objects.
LEMMA LoadFailsKeeps ==
    ASSUME PointerInv, NEW X, LoadFails(X)
    PROVE  PointerInv'
<1>1. PICK S \in SUBSET Fetch(X) :
          \E f \in [S -> SUBSET (cached \cup S)], g \in [S -> SUBSET (cached \cup S)] :
             /\ \A a \in S : f[a] \subseteq dbFriend[a] /\ g[a] \subseteq dbIgnore[a]
             /\ cached' = cached \cup S
             /\ friends' = [a \in Avatar |-> IF a \in S THEN f[a] ELSE friends[a]]
             /\ ignores' = [a \in Avatar |-> IF a \in S THEN g[a] ELSE ignores[a]]
             /\ attr' = [a \in Avatar |-> IF a \in S THEN dbAttr[a] ELSE attr[a]]
             /\ dirty' = dirty \cup (S \X Avatar)
  BY DEF LoadFails
<1>2. PICK f \in [S -> SUBSET (cached \cup S)], g \in [S -> SUBSET (cached \cup S)] :
             /\ \A a \in S : f[a] \subseteq dbFriend[a] /\ g[a] \subseteq dbIgnore[a]
             /\ cached' = cached \cup S
             /\ friends' = [a \in Avatar |-> IF a \in S THEN f[a] ELSE friends[a]]
             /\ ignores' = [a \in Avatar |-> IF a \in S THEN g[a] ELSE ignores[a]]
             /\ attr' = [a \in Avatar |-> IF a \in S THEN dbAttr[a] ELSE attr[a]]
             /\ dirty' = dirty \cup (S \X Avatar)
  BY <1>1
<1>3. /\ row' = row /\ dbFriend' = dbFriend /\ dbIgnore' = dbIgnore /\ dbAttr' = dbAttr
      /\ flag' = flag /\ online' = online /\ transient' = transient
      /\ faults' \in 0..MaxFaults /\ result' \in ResultCode
  BY AvatarsAssumption DEF LoadFails, store, MayFail, PointerInv, TypeOK, ResultCode
<1>4. S \subseteq row /\ row \subseteq Avatar /\ cached \subseteq row
  BY FetchClosed DEF PointerInv, TypeOK
<1>5. /\ friends' \in [Avatar -> SUBSET Avatar] /\ ignores' \in [Avatar -> SUBSET Avatar]
      /\ attr' \in [Avatar -> Attribute]
  BY <1>2, <1>4 DEF PointerInv, TypeOK
<1>6. dirty' \subseteq Avatar \X Avatar
  BY <1>2, <1>4 DEF PointerInv, TypeOK
<1>7. TypeOK'
  BY <1>2, <1>3, <1>4, <1>5, <1>6 DEF PointerInv, TypeOK
<1>8. StoreClosed'
  BY <1>3 DEF PointerInv, StoreClosed, Contacts
<1>9. OutsideEmpty'
  BY <1>2, <1>3 DEF PointerInv, OutsideEmpty
<1>10. ContactsCached'
  BY <1>2, <1>4 DEF PointerInv, ContactsCached
<1>11. OnlineAgree'
  BY <1>2, <1>3 DEF PointerInv, OnlineAgree
<1> QED
  BY <1>7, <1>8, <1>9, <1>10, <1>11 DEF PointerInv

\* A new avatar starts with empty lists, whether or not its INSERT failed.
LEMMA LoginNewKeeps ==
    ASSUME PointerInv, NEW a \in Avatar, NEW t \in Attribute, LoginNew(a, t)
    PROVE  PointerInv'
<1>1. PICK ins \in Insert(row, a, MayFail) :
          /\ row' = ins.db
          /\ dbAttr' = IF a \in ins.db THEN [dbAttr EXCEPT ![a] = t] ELSE dbAttr
          /\ faults' = faults + ins.fault
          /\ result' = Answer(ins.ok)
          /\ IF ins.ok
             THEN /\ cached' = cached \cup {a}
                  /\ attr' = [attr EXCEPT ![a] = t]
                  /\ GoOnline(a)
             ELSE UNCHANGED <<cached, attr, flag, online>>
  BY DEF LoginNew
<1>2. /\ ins.ok \in BOOLEAN
      /\ ins.db = row \/ ins.db = row \cup {a}
      /\ ins.ok => ins.db = row \cup {a}
      /\ ins.fault = 0 \/ (ins.fault = 1 /\ faults < MaxFaults)
  BY InsertAvatarOutcome DEF LoginNew
<1>3. /\ dbFriend' = dbFriend /\ dbIgnore' = dbIgnore /\ friends' = friends
      /\ ignores' = ignores /\ dirty' = dirty /\ transient' = transient
      /\ a \notin row
  BY DEF LoginNew
<1>4. row \subseteq row' /\ row' \subseteq row \cup {a} /\ row' \subseteq Avatar
  BY <1>1, <1>2 DEF PointerInv, TypeOK
<1>5. /\ cached \subseteq cached' /\ cached' \subseteq cached \cup {a} /\ cached' \subseteq row'
      /\ attr' \in [Avatar -> Attribute] /\ dbAttr' \in [Avatar -> Attribute]
      /\ flag' = online' /\ online' \subseteq cached'
  BY <1>1, <1>2 DEF PointerInv, TypeOK, GoOnline, OnlineAgree
<1>6. faults' \in 0..MaxFaults /\ result' \in ResultCode
  BY <1>1, <1>2, AvatarsAssumption DEF PointerInv, TypeOK, ResultCode, Answer
<1>7. TypeOK'
  BY <1>3, <1>4, <1>5, <1>6 DEF PointerInv, TypeOK
<1>8. StoreClosed'
  BY <1>3, <1>4 DEF PointerInv, StoreClosed, Contacts
<1>9. OutsideEmpty'
  BY <1>3, <1>4, <1>5 DEF PointerInv, OutsideEmpty
<1>10. ContactsCached'
  BY <1>3, <1>5 DEF PointerInv, ContactsCached, OutsideEmpty, TypeOK
<1>11. OnlineAgree'
  BY <1>5 DEF OnlineAgree
<1> QED
  BY <1>7, <1>8, <1>9, <1>10, <1>11 DEF PointerInv

\* A handler that loads one avatar and may change who is online.
LEMMA SessionKeeps ==
    ASSUME PointerInv, NEW a \in row, GetAvatar({a}), UNCHANGED <<store, history>>,
           result' \in ResultCode,
           \/ UNCHANGED <<flag, online>>
           \/ GoOnline(a)
           \/ GoOffline(a)
    PROVE  PointerInv'
<1>1. /\ StoreClosed' /\ OutsideEmpty' /\ ContactsCached' /\ cached' \subseteq row'
      /\ friends' \in [Avatar -> SUBSET Avatar] /\ ignores' \in [Avatar -> SUBSET Avatar]
      /\ attr' \in [Avatar -> Attribute]
      /\ a \in cached' /\ cached \subseteq cached'
  BY LoadKeeps DEF store
<1>2. OnlineAgree'
  BY <1>1 DEF PointerInv, OnlineAgree, GoOnline, GoOffline
<1>3. TypeOK'
  BY <1>1, <1>2 DEF PointerInv, TypeOK, OnlineAgree, store, history
<1> QED
  BY <1>1, <1>2, <1>3 DEF PointerInv

\* SetAvatarAttributes touches no list.
LEMMA SetAvatarAttributesKeeps ==
    ASSUME PointerInv, NEW a \in Avatar, NEW t \in Attribute, NEW p \in BOOLEAN,
           SetAvatarAttributes(a, t, p)
    PROVE  PointerInv'
<1>1. /\ a \in row
      /\ cached' = cached \cup Fetch({a})
      /\ friends' = FriendsAfter({a}) /\ ignores' = IgnoresAfter({a})
      /\ attr' = [AttrAfter({a}) EXCEPT ![a] = t]
      /\ UNCHANGED <<row, dbFriend, dbIgnore, flag, online, dirty>>
  BY DEF SetAvatarAttributes
<1>2. {a, a} = {a}
  OBVIOUS
<1>3. ContactChange(a, a)
  BY <1>1, <1>2, ListsAfterLoad DEF ContactChange, PointerInv, TypeOK
<1>4. StoreClosed' /\ OutsideEmpty' /\ ContactsCached' /\ cached' \subseteq row'
  BY <1>1, <1>3, ContactChangeKeeps
<1>5. attr' \in [Avatar -> Attribute]
  BY <1>1, ListsAfterLoad DEF PointerInv
<1>6. /\ dbAttr' \in [Avatar -> Attribute] /\ transient' \subseteq Avatar
      /\ faults' \in 0..MaxFaults /\ result' \in ResultCode
  <2>1. CASE AttrAfter({a})[a] = t
    BY <2>1 DEF SetAvatarAttributes, PointerInv, TypeOK, ResultCode
  <2>2. CASE AttrAfter({a})[a] # t
    <3>1. PICK upd \in StoreAttributes(p, dbAttr[a], t) :
               /\ dbAttr' = [dbAttr EXCEPT ![a] = upd.db]
               /\ result' = Answer(upd.ok)
               /\ transient' = IF p /\ upd.ok THEN transient \ {a}
                                              ELSE transient \cup {a}
               /\ faults' = faults + upd.fault
      BY <2>2 DEF SetAvatarAttributes
    <3>2. /\ upd.db = t \/ upd.db = dbAttr[a]
          /\ upd.fault = 0 \/ (upd.fault = 1 /\ faults < MaxFaults)
      <4>1. CASE p
        BY <4>1, <3>1 DEF StoreAttributes, Execute, Ran, MayFail
      <4>2. CASE ~p
        BY <4>2, <3>1 DEF StoreAttributes, NotNeeded
      <4> QED
        BY <4>1, <4>2
    <3>3. dbAttr' \in [Avatar -> Attribute] /\ transient' \subseteq Avatar
      BY <3>1, <3>2 DEF PointerInv, TypeOK
    <3>4. faults' \in 0..MaxFaults /\ result' \in ResultCode
      BY <3>1, <3>2, AvatarsAssumption DEF PointerInv, TypeOK, ResultCode, Answer
    <3> QED
      BY <3>3, <3>4
  <2> QED
    BY <2>1, <2>2
<1>7. TypeOK'
  BY <1>1, <1>3, <1>4, <1>5, <1>6 DEF PointerInv, TypeOK, ContactChange
<1>8. OnlineAgree'
  BY <1>1 DEF PointerInv, OnlineAgree
<1> QED
  BY <1>4, <1>7, <1>8 DEF PointerInv

\* An empty memory has nothing to point to.
LEMMA CrashKeeps ==
    ASSUME PointerInv, Crash
    PROVE  PointerInv'
<1>1. (CHOOSE t \in Attribute : TRUE) \in Attribute
  BY AvatarsAssumption
<1>2. TypeOK'
  BY <1>1 DEF Crash, PointerInv, TypeOK, store, ResultCode
<1> QED
  BY <1>2 DEF Crash, PointerInv, StoreClosed, OutsideEmpty, ContactsCached,
     OnlineAgree, Contacts, store

\* The empty tables and the empty memory satisfy the invariant.
LEMMA PointerInvInit == Init => PointerInv
<1> SUFFICES ASSUME Init PROVE PointerInv
  OBVIOUS
<1>1. (CHOOSE t \in Attribute : TRUE) \in Attribute
  BY AvatarsAssumption
<1> QED
  BY <1>1, AvatarsAssumption DEF Init, PointerInv, TypeOK, StoreClosed, OutsideEmpty,
     ContactsCached, OnlineAgree, Contacts, ResultCode

\* Every handler, a restart and a stuttering step keep the invariant.
LEMMA PointerInvNext == PointerInv /\ [Next]_vars => PointerInv'
<1> SUFFICES ASSUME PointerInv, [Next]_vars PROVE PointerInv'
  OBVIOUS
<1> USE DEF ResultCode
<1>1. ASSUME NEW a \in Avatar, SessionStep(a) PROVE PointerInv'
  <2>1. CASE LoginKnown(a)
    BY <2>1, SessionKeeps DEF LoginKnown
  <2>2. ASSUME NEW t \in Attribute, LoginNew(a, t) PROVE PointerInv'
    BY <2>2, LoginNewKeeps
  <2>3. CASE LogoutAvatar(a)
    BY <2>3, SessionKeeps DEF LogoutAvatar
  <2>4. CASE GetAnyAvatar(a)
    BY <2>4, SessionKeeps DEF GetAnyAvatar
  <2>5. CASE NoSource(a)
    BY <2>5 DEF NoSource, store, memory, history, PointerInv, TypeOK, StoreClosed,
       OutsideEmpty, ContactsCached, OnlineAgree, Contacts
  <2>6. ASSUME NEW t \in Attribute, NEW p \in BOOLEAN, SetAvatarAttributes(a, t, p)
        PROVE  PointerInv'
    BY <2>6, SetAvatarAttributesKeeps
  <2> QED
    BY <1>1, <2>1, <2>2, <2>3, <2>4, <2>5, <2>6 DEF SessionStep
<1>2. ASSUME NEW a \in Avatar, NEW b \in Avatar, ContactStep(a, b) PROVE PointerInv'
  <2>1. CASE AddFriend(a, b)
    BY <2>1, AddFriendChange, ContactHandlerKeeps DEF AddFriend
  <2>2. CASE AddIgnore(a, b)
    BY <2>2, AddIgnoreChange, ContactHandlerKeeps DEF AddIgnore
  <2>3. CASE RemoveFriend(a, b)
    BY <2>3, RemoveFriendChange, ContactHandlerKeeps DEF RemoveFriend
  <2>4. CASE RemoveIgnore(a, b)
    BY <2>4, RemoveIgnoreChange, ContactHandlerKeeps DEF RemoveIgnore
  <2>5. CASE NoDestination(a, b)
    BY <2>5, SessionKeeps DEF NoDestination
  <2>6. CASE RemoveIgnoreNoDestination(a, b)
    BY <2>6, SessionKeeps DEF RemoveIgnoreNoDestination
  <2>7. CASE LoadFails({a, b})
    BY <2>7, LoadFailsKeeps
  <2> QED
    BY <1>2, <2>1, <2>2, <2>3, <2>4, <2>5, <2>6, <2>7 DEF ContactStep
<1>3. CASE Crash
  BY <1>3, CrashKeeps
<1>4. CASE UNCHANGED vars
  BY <1>4 DEF vars, PointerInv, TypeOK, StoreClosed, OutsideEmpty, ContactsCached,
     OnlineAgree, Contacts
<1> QED
  BY <1>1, <1>2, <1>3, <1>4 DEF Next

\* In every reachable state the variables are well typed, no list of a cached
\* avatar points outside the cache, the online flag and the online list say
\* the same, and the tables friend and ignore name stored avatars only.
THEOREM PointersSafe == Spec => []PointerInv
<1>1. Init => PointerInv
  BY PointerInvInit
<1>2. PointerInv /\ [Next]_vars => PointerInv'
  BY PointerInvNext
<1> QED
  BY <1>1, <1>2, PTL DEF Spec

\* The raw pointers in friendList_ and ignoreList_ are always good.
THEOREM ContactsAlwaysCached == Spec => []ContactsCached
<1>1. PointerInv => ContactsCached
  BY DEF PointerInv
<1> QED
  BY <1>1, PointersSafe, PTL

\* Type correctness.
THEOREM TypeCorrect == Spec => []TypeOK
<1>1. PointerInv => TypeOK
  BY DEF PointerInv
<1> QED
  BY <1>1, PointersSafe, PTL

\* isOnline_ and onlineAvatars_ never disagree.
THEOREM OnlineAlwaysAgrees == Spec => []OnlineAgree
<1>1. PointerInv => OnlineAgree
  BY DEF PointerInv
<1> QED
  BY <1>1, PointersSafe, PTL

(***************************************************************************)
(* The cache agrees with the tables                                        *)
(***************************************************************************)

Agreement == CleanPairsAgree /\ ListsDisjoint

\* After a load the lists of every cached avatar agree with the tables.
LEMMA LoadAgrees ==
    ASSUME PointerInv, Agreement, NEW X, NEW c \in cached \cup Fetch(X),
           NEW d \in Avatar, <<c, d>> \notin dirty
    PROVE  /\ d \in FriendsAfter(X)[c] <=> d \in dbFriend[c]
           /\ d \in IgnoresAfter(X)[c] <=> d \in dbIgnore[c]
           /\ ~(d \in dbFriend[c] /\ d \in dbIgnore[c])
<1>1. c \in Avatar
  BY FetchClosed DEF PointerInv, TypeOK
<1>2. CASE c \in Fetch(X)
  BY <1>1, <1>2, ListsAfterLoad DEF PointerInv, Agreement, ListsDisjoint
<1>3. CASE c \notin Fetch(X)
  BY <1>1, <1>3, ListsAfterLoad DEF PointerInv, Agreement, ListsDisjoint, CleanPairsAgree
<1> QED
  BY <1>2, <1>3

\* The handlers of contacts keep the agreement.
LEMMA ContactHandlerAgrees ==
    ASSUME PointerInv, Agreement, NEW a \in Avatar, NEW b \in Avatar, Changed(a, b)
    PROVE  Agreement'
<1>1. ASSUME NEW c \in cached \cup Fetch({a, b}), NEW d \in Avatar, <<c, d>> \notin dirty'
      PROVE  /\ d \in friends'[c] <=> d \in dbFriend'[c]
             /\ d \in ignores'[c] <=> d \in dbIgnore'[c]
             /\ ~(d \in dbFriend'[c] /\ d \in dbIgnore'[c])
  <2>1. c \in Avatar /\ <<c, d>> \notin dirty
    BY <1>1, FetchClosed DEF PointerInv, TypeOK, Changed, PairChange
  <2>2. /\ d \in FriendsAfter({a, b})[c] <=> d \in dbFriend[c]
        /\ d \in IgnoresAfter({a, b})[c] <=> d \in dbIgnore[c]
        /\ ~(d \in dbFriend[c] /\ d \in dbIgnore[c])
    BY <2>1, LoadAgrees
  <2> QED
    BY <1>1, <2>1, <2>2 DEF Changed, PairChange
<1>2. a \in cached \cup Fetch({a, b})
  BY FetchClosed DEF PointerInv, Changed
<1>3. CleanPairsAgree'
  BY <1>1 DEF CleanPairsAgree, Changed, ContactChange
<1>4. ASSUME NEW c \in Avatar, NEW d \in Avatar, <<c, d>> \notin dirty'
      PROVE  ~(d \in dbFriend'[c] /\ d \in dbIgnore'[c])
  <2>1. CASE c = a
    BY <1>1, <1>2, <1>4, <2>1
  <2>2. CASE c # a
    BY <1>4, <2>2 DEF Changed, PairChange, Agreement, ListsDisjoint
  <2> QED
    BY <2>1, <2>2
<1> QED
  BY <1>3, <1>4 DEF Agreement, ListsDisjoint

\* Loading alone keeps it.
LEMMA LoadKeepsAgreement ==
    ASSUME PointerInv, Agreement, NEW X, UNCHANGED <<dbFriend, dbIgnore, dirty>>,
           cached' = cached \cup Fetch(X), friends' = FriendsAfter(X),
           ignores' = IgnoresAfter(X)
    PROVE  Agreement'
BY LoadAgrees DEF Agreement, CleanPairsAgree, ListsDisjoint

\* A load that fails puts every pair of its new objects on record.
LEMMA LoadFailsAgrees ==
    ASSUME PointerInv, Agreement, NEW X, LoadFails(X)
    PROVE  Agreement'
<1>1. PICK S \in SUBSET Fetch(X) :
          \E f \in [S -> SUBSET (cached \cup S)], g \in [S -> SUBSET (cached \cup S)] :
             /\ cached' = cached \cup S
             /\ friends' = [a \in Avatar |-> IF a \in S THEN f[a] ELSE friends[a]]
             /\ ignores' = [a \in Avatar |-> IF a \in S THEN g[a] ELSE ignores[a]]
             /\ dirty' = dirty \cup (S \X Avatar)
  BY DEF LoadFails
<1>2. /\ cached' = cached \cup S
      /\ dirty' = dirty \cup (S \X Avatar)
      /\ \A c \in Avatar \ S : friends'[c] = friends[c] /\ ignores'[c] = ignores[c]
  BY <1>1
<1>3. dbFriend' = dbFriend /\ dbIgnore' = dbIgnore
  BY DEF LoadFails, store
<1>4. cached \subseteq Avatar /\ dirty \subseteq dirty'
  BY <1>2 DEF PointerInv, TypeOK
<1>5. ASSUME NEW c \in cached', NEW d \in Avatar, <<c, d>> \notin dirty'
      PROVE  /\ d \in friends'[c] <=> d \in dbFriend'[c]
             /\ d \in ignores'[c] <=> d \in dbIgnore'[c]
  <2>1. c \in cached \ S
    BY <1>2, <1>5
  <2> QED
    BY <1>2, <1>3, <1>4, <1>5, <2>1 DEF Agreement, CleanPairsAgree
<1> QED
  BY <1>3, <1>4, <1>5 DEF Agreement, CleanPairsAgree, ListsDisjoint

\* A new avatar has no lists anywhere.
LEMMA LoginNewAgrees ==
    ASSUME PointerInv, Agreement, NEW a \in Avatar, NEW t \in Attribute, LoginNew(a, t)
    PROVE  Agreement'
<1>1. /\ cached' \subseteq cached \cup {a} /\ a \notin row
      /\ UNCHANGED <<dbFriend, dbIgnore, friends, ignores, dirty>>
  BY DEF LoginNew
<1>2. friends[a] = {} /\ ignores[a] = {} /\ dbFriend[a] = {} /\ dbIgnore[a] = {}
  BY <1>1 DEF PointerInv, OutsideEmpty, TypeOK
<1> QED
  BY <1>1, <1>2 DEF Agreement, CleanPairsAgree, ListsDisjoint

\* Every handler and a restart keep cache and tables in agreement on clean
\* pairs, as long as the pointers are good.
LEMMA AgreementNext == PointerInv /\ Agreement /\ [Next]_vars => Agreement'
<1> SUFFICES ASSUME PointerInv, Agreement, [Next]_vars PROVE Agreement'
  OBVIOUS
<1>1. ASSUME NEW a \in Avatar, SessionStep(a) PROVE Agreement'
  <2>1. CASE LoginKnown(a) \/ LogoutAvatar(a) \/ GetAnyAvatar(a)
    BY <2>1, LoadKeepsAgreement DEF LoginKnown, LogoutAvatar, GetAnyAvatar, GetAvatar,
       store, history
  <2>2. ASSUME NEW t \in Attribute, LoginNew(a, t) PROVE Agreement'
    BY <2>2, LoginNewAgrees
  <2>3. CASE NoSource(a)
    BY <2>3 DEF NoSource, store, memory, history, Agreement, CleanPairsAgree, ListsDisjoint
  <2>4. ASSUME NEW t \in Attribute, NEW p \in BOOLEAN, SetAvatarAttributes(a, t, p)
        PROVE  Agreement'
    BY <2>4, LoadKeepsAgreement DEF SetAvatarAttributes
  <2> QED
    BY <1>1, <2>1, <2>2, <2>3, <2>4 DEF SessionStep
<1>2. ASSUME NEW a \in Avatar, NEW b \in Avatar, ContactStep(a, b) PROVE Agreement'
  <2>1. CASE AddFriend(a, b)
    BY <2>1, AddFriendChange, ContactHandlerAgrees
  <2>2. CASE AddIgnore(a, b)
    BY <2>2, AddIgnoreChange, ContactHandlerAgrees
  <2>3. CASE RemoveFriend(a, b)
    BY <2>3, RemoveFriendChange, ContactHandlerAgrees
  <2>4. CASE RemoveIgnore(a, b)
    BY <2>4, RemoveIgnoreChange, ContactHandlerAgrees
  <2>5. CASE NoDestination(a, b) \/ RemoveIgnoreNoDestination(a, b)
    BY <2>5, LoadKeepsAgreement DEF NoDestination, RemoveIgnoreNoDestination, GetAvatar,
       store, history
  <2>6. CASE LoadFails({a, b})
    BY <2>6, LoadFailsAgrees
  <2> QED
    BY <1>2, <2>1, <2>2, <2>3, <2>4, <2>5, <2>6 DEF ContactStep
<1>3. CASE Crash
  BY <1>3 DEF Crash, store, Agreement, CleanPairsAgree, ListsDisjoint
<1>4. CASE UNCHANGED vars
  BY <1>4 DEF vars, Agreement, CleanPairsAgree, ListsDisjoint
<1> QED
  BY <1>1, <1>2, <1>3, <1>4 DEF Next

\* Cache and tables agree in every reachable state.
LEMMA AgreementAlways == Spec => []Agreement
<1>1. Init => Agreement
  BY DEF Init, Agreement, CleanPairsAgree, ListsDisjoint
<1> QED
  BY <1>1, AgreementNext, PointersSafe, PTL DEF Spec

\* For every pair no statement failed for, the cached lists are the stored
\* ones: a restart shows every client the lists it saw before.
THEOREM CacheAgreesWithStore == Spec => []CleanPairsAgree
<1>1. Agreement => CleanPairsAgree
  BY DEF Agreement
<1> QED
  BY <1>1, AgreementAlways, PTL

\* For such a pair, nobody is stored as a friend and as ignored.
THEOREM StoredListsDisjoint == Spec => []ListsDisjoint
<1>1. Agreement => ListsDisjoint
  BY DEF Agreement
<1> QED
  BY <1>1, AgreementAlways, PTL

(***************************************************************************)
(* Attributes                                                              *)
(***************************************************************************)

\* A load reads the attributes of its new objects and leaves the others.
LEMMA LoadKeepsAttributes ==
    ASSUME PointerInv, AttributesAgree, NEW X, cached' = cached \cup Fetch(X),
           attr' = AttrAfter(X), UNCHANGED <<dbAttr, transient>>
    PROVE  AttributesAgree'
<1>1. Fetch(X) \subseteq Avatar /\ cached \subseteq Avatar
  BY DEF Fetch, PointerInv, TypeOK
<1>2. \A a \in Avatar : attr'[a] = IF a \in Fetch(X) THEN dbAttr[a] ELSE attr[a]
  BY DEF AttrAfter
<1> QED
  BY <1>1, <1>2 DEF AttributesAgree

\* So does a load that fails half way.
LEMMA LoadFailsKeepsAttributes ==
    ASSUME PointerInv, AttributesAgree, NEW X, LoadFails(X)
    PROVE  AttributesAgree'
<1>1. PICK S \in SUBSET Fetch(X) :
          /\ cached' = cached \cup S
          /\ attr' = [a \in Avatar |-> IF a \in S THEN dbAttr[a] ELSE attr[a]]
  BY DEF LoadFails
<1>2. S \subseteq Avatar /\ cached \subseteq Avatar
  BY DEF Fetch, PointerInv, TypeOK
<1>3. dbAttr' = dbAttr /\ transient' = transient
  BY DEF LoadFails, store
<1> QED
  BY <1>1, <1>2, <1>3 DEF AttributesAgree

\* A new avatar is stored and cached with the attributes of its login, or
\* not cached.
LEMMA LoginNewKeepsAttributes ==
    ASSUME PointerInv, AttributesAgree, NEW a \in Avatar, NEW t \in Attribute,
           LoginNew(a, t)
    PROVE  AttributesAgree'
<1>1. PICK ins \in Insert(row, a, MayFail) :
          /\ dbAttr' = IF a \in ins.db THEN [dbAttr EXCEPT ![a] = t] ELSE dbAttr
          /\ IF ins.ok
             THEN cached' = cached \cup {a} /\ attr' = [attr EXCEPT ![a] = t]
             ELSE UNCHANGED <<cached, attr>>
  BY DEF LoginNew
<1>2. a \notin cached /\ cached \subseteq Avatar /\ transient' = transient
        /\ attr \in [Avatar -> Attribute] /\ dbAttr \in [Avatar -> Attribute]
  BY DEF LoginNew, PointerInv, TypeOK
<1>3. ins.ok \in BOOLEAN /\ (ins.ok => a \in ins.db)
  BY <1>1, InsertAvatarOutcome DEF LoginNew
<1>4. CASE ins.ok
  BY <1>1, <1>2, <1>3, <1>4 DEF AttributesAgree
<1>5. CASE ~ins.ok
  BY <1>1, <1>2, <1>5 DEF AttributesAgree
<1> QED
  BY <1>3, <1>4, <1>5

\* Attributes that are not stored, or whose UPDATE failed, are on record.
LEMMA SetAvatarAttributesAgrees ==
    ASSUME PointerInv, AttributesAgree, NEW a \in Avatar, NEW t \in Attribute,
           NEW p \in BOOLEAN, SetAvatarAttributes(a, t, p)
    PROVE  AttributesAgree'
<1> DEFINE loaded == AttrAfter({a})
<1>1. /\ cached' = cached \cup Fetch({a})
      /\ attr' = [loaded EXCEPT ![a] = t]
  BY DEF SetAvatarAttributes
<1>2. loaded \in [Avatar -> Attribute]
  BY ListsAfterLoad DEF PointerInv, TypeOK
<1>3. \A c \in (cached \cup Fetch({a})) \ transient : loaded[c] = dbAttr[c]
  <2>1. Fetch({a}) \subseteq Avatar /\ cached \subseteq Avatar
    BY DEF Fetch, PointerInv, TypeOK
  <2>2. \A c \in Avatar : loaded[c] = IF c \in Fetch({a}) THEN dbAttr[c] ELSE attr[c]
    BY DEF AttrAfter
  <2> HIDE DEF loaded
  <2> QED
    BY <2>1, <2>2 DEF AttributesAgree
<1>4. dbAttr \in [Avatar -> Attribute] /\ cached \cup Fetch({a}) \subseteq Avatar
  BY DEF Fetch, PointerInv, TypeOK
<1>5. CASE loaded[a] = t
  <2>1. dbAttr' = dbAttr /\ transient' = transient
    BY <1>5 DEF SetAvatarAttributes
  <2>2. attr' = loaded
    BY <1>1, <1>2, <1>5
  <2> QED
    BY <1>1, <1>3, <2>1, <2>2 DEF AttributesAgree
<1>6. CASE loaded[a] # t
  <2>1. PICK upd \in StoreAttributes(p, dbAttr[a], t) :
            /\ dbAttr' = [dbAttr EXCEPT ![a] = upd.db]
            /\ transient' = IF p /\ upd.ok THEN transient \ {a} ELSE transient \cup {a}
    BY <1>6 DEF SetAvatarAttributes
  <2>2. p /\ upd.ok => upd.db = t
    <3>1. CASE p
      BY <3>1, <2>1 DEF StoreAttributes, Execute, Ran
    <3> QED
      BY <3>1
  <2> HIDE DEF loaded
  <2>3. CASE p /\ upd.ok
    BY <1>1, <1>2, <1>3, <1>4, <2>1, <2>2, <2>3 DEF AttributesAgree
  <2>4. CASE ~(p /\ upd.ok)
    BY <1>1, <1>2, <1>3, <1>4, <2>1, <2>4 DEF AttributesAgree
  <2> QED
    BY <2>3, <2>4
<1> QED
  BY <1>5, <1>6

\* Every handler and a restart keep the attributes of objects in agreement
\* with the column, but for those on record.
LEMMA AttributesNext == PointerInv /\ AttributesAgree /\ [Next]_vars => AttributesAgree'
<1> SUFFICES ASSUME PointerInv, AttributesAgree, [Next]_vars PROVE AttributesAgree'
  OBVIOUS
<1>1. ASSUME NEW a \in Avatar, SessionStep(a) PROVE AttributesAgree'
  <2>1. CASE LoginKnown(a) \/ LogoutAvatar(a) \/ GetAnyAvatar(a)
    BY <2>1, LoadKeepsAttributes DEF LoginKnown, LogoutAvatar, GetAnyAvatar, GetAvatar,
       store, history
  <2>2. ASSUME NEW t \in Attribute, LoginNew(a, t) PROVE AttributesAgree'
    BY <2>2, LoginNewKeepsAttributes
  <2>3. CASE NoSource(a)
    BY <2>3 DEF NoSource, store, memory, history, AttributesAgree
  <2>4. ASSUME NEW t \in Attribute, NEW p \in BOOLEAN, SetAvatarAttributes(a, t, p)
        PROVE  AttributesAgree'
    BY <2>4, SetAvatarAttributesAgrees
  <2> QED
    BY <1>1, <2>1, <2>2, <2>3, <2>4 DEF SessionStep
<1>2. ASSUME NEW a \in Avatar, NEW b \in Avatar, ContactStep(a, b) PROVE AttributesAgree'
  <2>1. CASE AddFriend(a, b)
    BY <2>1, LoadKeepsAttributes DEF AddFriend
  <2>2. CASE AddIgnore(a, b)
    BY <2>2, LoadKeepsAttributes DEF AddIgnore
  <2>3. CASE RemoveFriend(a, b)
    BY <2>3, LoadKeepsAttributes DEF RemoveFriend
  <2>4. CASE RemoveIgnore(a, b)
    BY <2>4, LoadKeepsAttributes DEF RemoveIgnore
  <2>5. CASE NoDestination(a, b) \/ RemoveIgnoreNoDestination(a, b)
    BY <2>5, LoadKeepsAttributes DEF NoDestination, RemoveIgnoreNoDestination, GetAvatar,
       store, history
  <2>6. CASE LoadFails({a, b})
    BY <2>6, LoadFailsKeepsAttributes
  <2> QED
    BY <1>2, <2>1, <2>2, <2>3, <2>4, <2>5, <2>6 DEF ContactStep
<1>3. CASE Crash
  BY <1>3 DEF Crash, AttributesAgree
<1>4. CASE UNCHANGED vars
  BY <1>4 DEF vars, AttributesAgree
<1> QED
  BY <1>1, <1>2, <1>3, <1>4 DEF Next

\* The attributes an object answers with are the stored ones, unless they were
\* set without persistence or an UPDATE failed (LoadStoredAvatar, CreateAvatar,
\* SetAvatarAttributes).
THEOREM AttributesAlwaysAgree == Spec => []AttributesAgree
<1>1. Init => AttributesAgree
  BY DEF Init, AttributesAgree
<1> QED
  BY <1>1, AttributesNext, PointersSafe, PTL DEF Spec

(***************************************************************************)
(* Presence                                                                *)
(*                                                                         *)
(* Presence implements Avatars, so the pointer invariant and the agreement *)
(* of cache and tables hold of it.  The accuracy of what the game servers  *)
(* believe needs both: the list of a cached avatar is not read again, and  *)
(* an AddIgnore that changes nothing is about somebody who is no friend.   *)
(***************************************************************************)

\* Who watches is online at an address that is registered, and believes of
\* friends only that they are online.
WatchInv ==
    /\ view \in [Avatar -> SUBSET Avatar]
    /\ watching \subseteq online
    /\ \A a \in watching : Reachable(a) /\ view[a] \subseteq friends[a]

PresenceInv == PointerInv /\ Agreement /\ WatchInv /\ PresenceAccurate

(***************************************************************************)
(* Presence implements Avatars                                             *)
(***************************************************************************)

\* Sending notifications changes nothing the handlers of avatars look at.
LEMMA StepIsAvatarStep == [PresenceNext]_pvars => [Next]_vars
<1> SUFFICES ASSUME [PresenceNext]_pvars PROVE [Next]_vars
  OBVIOUS
<1>1. ASSUME NEW a \in Avatar, Login(a) \/ Logout(a) PROVE Next
  <2>1. SessionStep(a)
    BY <1>1 DEF Login, Logout, SessionStep
  <2> QED BY <2>1 DEF Next
<1>2. ASSUME NEW a \in Avatar, NEW b \in Avatar, Befriend(a, b) \/ Unfriend(a, b) PROVE Next
  <2>1. ContactStep(a, b)
    BY <1>2 DEF Befriend, Unfriend, ContactStep
  <2> QED BY <2>1 DEF Next
<1>3. CASE Quiet
  <2>1. ASSUME NEW a \in Avatar, GetAnyAvatar(a) PROVE Next
    BY <2>1 DEF SessionStep, Next
  <2>2. ASSUME NEW a \in Avatar, NEW b \in Avatar, RemoveIgnore(a, b) \/ LoadFails({a, b})
        PROVE  Next
    BY <2>2 DEF ContactStep, Next
  <2> QED BY <1>3, <2>1, <2>2 DEF Quiet
<1>4. CASE Restart
  BY <1>4 DEF Restart, Next
<1>5. CASE UNCHANGED pvars
  BY <1>5 DEF pvars
<1> QED BY <1>1, <1>2, <1>3, <1>4, <1>5 DEF PresenceNext

\* The handlers that notify implement the handlers of the avatar service.
THEOREM PresenceImplementsAvatars == PresenceSpec => Spec
<1>1. PresenceInit => Init
  BY DEF PresenceInit
<1>2. [PresenceNext]_pvars => [Next]_vars
  BY StepIsAvatarStep
<1> QED BY <1>1, <1>2, PTL DEF PresenceSpec, Spec

(***************************************************************************)
(* The lists of the cached avatars                                         *)
(***************************************************************************)

\* A load does not touch the lists of an avatar that is in the cache.
LEMMA CachedListsStay ==
    ASSUME TypeOK, NEW X, NEW w \in cached
    PROVE  FriendsAfter(X)[w] = friends[w] /\ IgnoresAfter(X)[w] = ignores[w]
<1>1. w \in Avatar /\ w \notin Fetch(X)
  BY DEF TypeOK, Fetch
<1> QED BY <1>1, ListsAfterLoad

\* A load that fails touches new objects only.
LEMMA LoadFailsListsStay ==
    ASSUME TypeOK, NEW X, LoadFails(X), NEW w \in cached
    PROVE  friends'[w] = friends[w] /\ dirty \subseteq dirty'
<1>1. PICK S \in SUBSET Fetch(X) :
          \E f \in [S -> SUBSET (cached \cup S)], g \in [S -> SUBSET (cached \cup S)] :
             /\ \A a \in S : f[a] \subseteq dbFriend[a] /\ g[a] \subseteq dbIgnore[a]
             /\ cached' = cached \cup S
             /\ friends' = [a \in Avatar |-> IF a \in S THEN f[a] ELSE friends[a]]
             /\ ignores' = [a \in Avatar |-> IF a \in S THEN g[a] ELSE ignores[a]]
             /\ attr' = [a \in Avatar |-> IF a \in S THEN dbAttr[a] ELSE attr[a]]
             /\ dirty' = dirty \cup (S \X Avatar)
  BY Zenon DEF LoadFails
<1>2. w \in Avatar /\ w \notin S
  BY DEF TypeOK, Fetch
<1> QED BY <1>1, <1>2

\* AddFriend puts b on the list of a or leaves it as it is; the answer is a
\* success only if b is on it, and a failure is on record.
LEMMA AddFriendLists ==
    ASSUME PointerInv, NEW a \in Avatar, NEW b \in Avatar, AddFriend(a, b)
    PROVE  /\ \A w \in cached : \/ friends'[w] = friends[w]
                                \/ w = a /\ friends'[w] = friends[w] \cup {b}
           /\ a \in cached => (result' = Success => b \in friends'[a])
           /\ result' # Success => <<a, b>> \in dirty'
           /\ dirty \subseteq dirty'
<1> DEFINE F == FriendsAfter({a, b})
           I == IgnoresAfter({a, b})
<1>1. /\ F \in [Avatar -> SUBSET Avatar]
      /\ \A w \in cached : F[w] = friends[w] /\ w \in Avatar
  BY CachedListsStay, ListsAfterLoad DEF PointerInv, TypeOK
<1>2. CASE b \in F[a]
  BY <1>1, <1>2 DEF AddFriend
<1>3. CASE b \notin F[a]
  <2>1. PICK del \in DropRow(I[a], dbIgnore[a], b) :
        \E ins \in StoreRow(del.ok, dbFriend[a], b) :
            /\ friends' = IF del.ok THEN [F EXCEPT ![a] = @ \cup {b}] ELSE F
            /\ result' = Answer(ins.ok)
            /\ dirty' = IF ins.ok THEN dirty ELSE dirty \cup {<<a, b>>}
    BY <1>3 DEF AddFriend
  <2>2. PICK ins \in StoreRow(del.ok, dbFriend[a], b) :
            /\ friends' = IF del.ok THEN [F EXCEPT ![a] = @ \cup {b}] ELSE F
            /\ result' = Answer(ins.ok)
            /\ dirty' = IF ins.ok THEN dirty ELSE dirty \cup {<<a, b>>}
    BY <2>1
  <2>3. del.ok \in BOOLEAN /\ ins.ok \in BOOLEAN /\ (ins.ok => del.ok)
    BY DropRowOutcome, StoreRowOutcome
  <2>4. result' = Success <=> ins.ok
    BY <2>2, <2>3 DEF Answer, Success, Database
  <2> HIDE DEF F
  <2>5. \A w \in cached : \/ friends'[w] = friends[w]
                          \/ w = a /\ friends'[w] = friends[w] \cup {b}
    BY <1>1, <2>2, <2>3
  <2>6. a \in cached => (result' = Success => b \in friends'[a])
    BY <1>1, <2>2, <2>3, <2>4
  <2>7. (result' # Success => <<a, b>> \in dirty') /\ dirty \subseteq dirty'
    BY <2>2, <2>3, <2>4
  <2> QED BY <2>5, <2>6, <2>7
<1> QED BY <1>2, <1>3

\* RemoveFriend and AddIgnore take b off the list of a, unless AddIgnore finds
\* it ignored.
LEMMA UnfriendLists ==
    ASSUME PointerInv, NEW a \in Avatar, NEW b \in Avatar,
           RemoveFriend(a, b) \/ AddIgnore(a, b)
    PROVE  /\ \A w \in cached : w # a => friends'[w] = friends[w]
           /\ a \in cached => \/ friends'[a] = friends[a] \ {b}
                              \/ b \in ignores[a] /\ friends'[a] = friends[a]
           /\ dirty \subseteq dirty'
<1> DEFINE F == FriendsAfter({a, b})
           I == IgnoresAfter({a, b})
<1>1. /\ F \in [Avatar -> SUBSET Avatar]
      /\ \A w \in cached : F[w] = friends[w] /\ I[w] = ignores[w] /\ w \in Avatar
  BY CachedListsStay, ListsAfterLoad DEF PointerInv, TypeOK
<1>2. dirty \subseteq dirty'
  BY RemoveFriendChange, AddIgnoreChange DEF Changed, PairChange
<1>3. \/ friends' = [F EXCEPT ![a] = F[a] \ {b}]
      \/ b \in I[a] /\ friends' = F
  <2>1. CASE RemoveFriend(a, b)
    BY <2>1 DEF RemoveFriend
  <2>2. CASE AddIgnore(a, b)
    BY <2>2 DEF AddIgnore
  <2> QED BY <2>1, <2>2
<1> HIDE DEF F, I
<1> QED BY <1>1, <1>2, <1>3

\* What every proof below starts from.
LEMMA Watchers ==
    ASSUME PresenceInv, NEW w \in watching
    PROVE  /\ w \in online /\ w \in cached /\ w \in Avatar
           /\ Reachable(w) /\ view[w] \subseteq friends[w]
           /\ view[w] \in SUBSET Avatar
BY DEF PresenceInv, WatchInv, PointerInv, TypeOK, OnlineAgree

(***************************************************************************)
(* The handlers                                                            *)
(***************************************************************************)

\* Handlers that send nothing and change no list of a cached avatar.
LEMMA QuietKeeps ==
    ASSUME PresenceInv, UNCHANGED <<presenceVars, online>>, dirty \subseteq dirty',
           \A w \in cached : friends'[w] = friends[w]
    PROVE  WatchInv' /\ PresenceAccurate'
<1>1. \A w \in watching : friends'[w] = friends[w]
  BY Watchers
<1> QED BY <1>1 DEF presenceVars, PresenceInv, WatchInv, PresenceAccurate, Reachable

\* The lists and the record when an avatar logs in or out.
LEMMA SessionLists ==
    ASSUME PointerInv, NEW a \in Avatar,
           LoginKnown(a) \/ (\E t \in Attribute : LoginNew(a, t)) \/ LogoutAvatar(a)
    PROVE  (\A w \in cached : friends'[w] = friends[w]) /\ dirty' = dirty
<1>1. CASE LoginKnown(a) \/ LogoutAvatar(a)
  <2>1. friends' = FriendsAfter({a}) /\ dirty' = dirty
    BY <1>1 DEF LoginKnown, LogoutAvatar, GetAvatar, history
  <2> QED BY <2>1, CachedListsStay DEF PointerInv
<1>2. CASE \E t \in Attribute : LoginNew(a, t)
  BY <1>2 DEF LoginNew
<1> QED BY <1>1, <1>2

\* A login succeeds and puts the avatar online, or fails and changes nothing
\* of the kind.
LEMMA LoginOutcome ==
    ASSUME NEW a, LoginKnown(a) \/ \E t \in Attribute : LoginNew(a, t)
    PROVE  \/ result' = Success /\ GoOnline(a)
           \/ result' # Success /\ online' = online
<1>1. CASE LoginKnown(a)
  BY <1>1 DEF LoginKnown
<1>2. ASSUME NEW t \in Attribute, LoginNew(a, t)
      PROVE  \/ result' = Success /\ GoOnline(a)
             \/ result' # Success /\ online' = online
  <2>1. PICK ins \in Insert(row, a, MayFail) :
           /\ result' = Answer(ins.ok)
           /\ IF ins.ok THEN GoOnline(a) ELSE online' = online
    BY <1>2 DEF LoginNew
  <2>2. ins.ok \in BOOLEAN
    BY <1>2, InsertAvatarOutcome DEF LoginNew
  <2> QED BY <2>1, <2>2 DEF Answer, Success, Database
<1> QED BY <1>1, <1>2

\* Who logs in is told of its friends that are online, and those who have it
\* as a friend are told of it (SendFriendLoginUpdates).
LEMMA LoginKeeps ==
    ASSUME PresenceInv, NEW a \in Avatar, Login(a), PointerInv'
    PROVE  WatchInv' /\ PresenceAccurate'
<1>1. (\A w \in cached : friends'[w] = friends[w]) /\ dirty' = dirty
  BY SessionLists DEF Login, PresenceInv
<1>2. CASE result' # Success
  <2>1. UNCHANGED <<presenceVars, online>>
    BY <1>2, LoginOutcome DEF Login
  <2> QED BY <1>1, <2>1, QuietKeeps
<1>3. CASE result' = Success /\ a \in System
  <2>1. /\ online' = online \cup {a}
        /\ registered' = registered \cup {AddressOf[a]}
        /\ UNCHANGED <<view, watching>>
    BY <1>3, LoginOutcome DEF Login, Announce, GoOnline
  <2>2. \A w \in watching : friends'[w] = friends[w] /\ Reachable(w)
    BY <1>1, Watchers
  <2>3. WatchInv'
    BY <2>1, <2>2 DEF PresenceInv, WatchInv, Reachable
  <2>4. PresenceAccurate'
    BY <1>1, <1>3, <2>1, <2>2 DEF PresenceInv, PresenceAccurate
  <2> QED BY <2>3, <2>4
<1>4. CASE result' = Success /\ a \notin System
  <2>1. /\ online' = online \cup {a}
        /\ view' = [w \in Avatar |->
              IF w = a THEN friends'[a] \cap flag'
              ELSE IF w \in LoginAudience(a) THEN view[w] \cup {a} ELSE view[w]]
        /\ watching' = IF Reachable(a) THEN watching \cup {a} ELSE watching
        /\ registered' = registered
    BY <1>4, LoginOutcome DEF Login, Announce, GoOnline
  <2>2. \A w \in watching : /\ friends'[w] = friends[w] /\ Reachable(w)
                            /\ w \in online' /\ w \in Avatar
                            /\ view[w] \subseteq friends[w]
    BY <1>1, <2>1, Watchers
  <2>3. /\ flag' = online' /\ friends' \in [Avatar -> SUBSET Avatar]
        /\ view \in [Avatar -> SUBSET Avatar]
    BY DEF PointerInv, OnlineAgree, TypeOK, PresenceInv, WatchInv
  <2>4. view'[a] = friends'[a] \cap online'
    BY <2>1, <2>3
  <2>5. ASSUME NEW w \in watching, w # a
        PROVE  view'[w] = IF a \in friends[w] THEN view[w] \cup {a} ELSE view[w]
    <3>1. w \in LoginAudience(a) <=> a \in friends[w]
      BY <2>2 DEF LoginAudience
    <3> QED BY <2>1, <2>2, <2>5, <3>1
  <2>6. \A w \in watching' : w \in watching \/ (w = a /\ Reachable(a))
    BY <2>1
  <2>7. WatchInv'
    <3>1. view' \in [Avatar -> SUBSET Avatar]
      BY <2>1, <2>3
    <3>2. watching' \subseteq online'
      BY <2>1, <2>2, <2>6
    <3>3. ASSUME NEW w \in watching'
          PROVE  (AddressOf[w] \in registered') /\ view'[w] \subseteq friends'[w]
      <4>1. CASE w = a
        <5>1. Reachable(a)
          BY <2>2, <2>6, <4>1
        <5> QED BY <2>1, <2>4, <4>1, <5>1 DEF Reachable
      <4>2. CASE w # a
        BY <2>1, <2>2, <2>5, <2>6, <4>2 DEF Reachable
      <4> QED BY <4>1, <4>2
    <3> QED BY <3>1, <3>2, <3>3 DEF WatchInv, Reachable
  <2>8. PresenceAccurate'
    <3> SUFFICES ASSUME NEW w \in watching' \ System, NEW b \in Avatar \ System,
                        b \in friends'[w], <<w, b>> \notin dirty
                 PROVE  b \in view'[w] <=> b \in online'
      BY <1>1 DEF PresenceAccurate
    <3>1. CASE w = a
      BY <2>4, <3>1
    <3>2. CASE w # a
      <4>1. w \in watching /\ b \in friends[w]
        BY <2>2, <2>6, <3>2
      <4>2. b \in view[w] <=> b \in online
        BY <4>1 DEF PresenceInv, PresenceAccurate
      <4>3. view'[w] = IF a \in friends[w] THEN view[w] \cup {a} ELSE view[w]
        BY <2>5, <3>2, <4>1
      <4>4. online' = online \cup {a}
        BY <2>1
      <4>5. CASE b = a
        BY <4>1, <4>3, <4>4, <4>5
      <4>6. CASE b # a
        BY <4>2, <4>3, <4>4, <4>6
      <4> QED BY <4>5, <4>6
    <3> QED BY <3>1, <3>2
  <2> QED BY <2>7, <2>8
<1> QED BY <1>2, <1>3, <1>4

\* Those who have the avatar as a friend are told that it went
\* (SendFriendLogoutUpdates).
LEMMA LogoutKeeps ==
    ASSUME PresenceInv, NEW a \in Avatar, Logout(a)
    PROVE  WatchInv' /\ PresenceAccurate'
<1>1. (\A w \in cached : friends'[w] = friends[w]) /\ dirty' = dirty
  BY SessionLists DEF Logout, PresenceInv
<1>2. /\ online' = online \ {a}
      /\ view' = [w \in Avatar |->
            IF w = a THEN {}
            ELSE IF w \in LogoutAudience(a) THEN view[w] \ {a} ELSE view[w]]
      /\ watching' = watching \ {a}
      /\ registered' = registered
  <2>1. flag = online
    BY DEF PresenceInv, PointerInv, OnlineAgree
  <2> QED BY <2>1 DEF Logout, LogoutAvatar, GoOffline
<1>3. \A w \in watching : /\ friends'[w] = friends[w] /\ Reachable(w)
                          /\ w \in online /\ w \in Avatar
                          /\ view[w] \subseteq friends[w]
  BY <1>1, Watchers
<1>4. ASSUME NEW w \in watching'
      PROVE  /\ w \in watching /\ w # a
             /\ view'[w] = IF a \in friends[w] THEN view[w] \ {a} ELSE view[w]
  <2>1. w \in watching /\ w # a
    BY <1>2
  <2>2. w \in LogoutAudience(a) <=> a \in friends[w]
    BY <1>3, <2>1 DEF LogoutAudience
  <2> QED BY <1>2, <1>3, <2>1, <2>2
<1>5. WatchInv'
  <2>1. view' \in [Avatar -> SUBSET Avatar]
    BY <1>2 DEF PresenceInv, WatchInv
  <2>2. watching' \subseteq online'
    BY <1>2, <1>3
  <2> QED BY <1>2, <1>3, <1>4, <2>1, <2>2 DEF WatchInv, Reachable
<1>6. PresenceAccurate'
  <2> SUFFICES ASSUME NEW w \in watching' \ System, NEW b \in Avatar \ System,
                      b \in friends'[w], <<w, b>> \notin dirty
               PROVE  b \in view'[w] <=> b \in online'
    BY <1>1 DEF PresenceAccurate
  <2>1. w \in watching /\ b \in friends[w]
    BY <1>3, <1>4
  <2>2. b \in view[w] <=> b \in online
    BY <2>1 DEF PresenceInv, PresenceAccurate
  <2>3. view'[w] = IF a \in friends[w] THEN view[w] \ {a} ELSE view[w]
    BY <1>4
  <2>4. online' = online \ {a}
    BY <1>2
  <2>5. CASE b = a
    BY <2>1, <2>3, <2>4, <2>5
  <2>6. CASE b # a
    BY <2>2, <2>3, <2>4, <2>6
  <2> QED BY <2>5, <2>6
<1> QED BY <1>5, <1>6

\* The new friend's status is sent if the friend is online; before, nothing
\* was believed of somebody who was no friend (AddFriend).
LEMMA BefriendKeeps ==
    ASSUME PresenceInv, NEW a \in Avatar, NEW b \in Avatar, Befriend(a, b)
    PROVE  WatchInv' /\ PresenceAccurate'
<1>1. /\ \A w \in cached : \/ friends'[w] = friends[w]
                           \/ w = a /\ friends'[w] = friends[w] \cup {b}
      /\ a \in cached => (result' = Success => b \in friends'[a])
      /\ result' # Success => <<a, b>> \in dirty'
      /\ dirty \subseteq dirty'
  BY AddFriendLists DEF Befriend, PresenceInv
<1>2. /\ view' = IF FriendStatusSent(a, b) THEN [view EXCEPT ![a] = view[a] \cup {b}] ELSE view
      /\ UNCHANGED <<registered, watching, online>>
      /\ flag = online
      /\ view \in [Avatar -> SUBSET Avatar]
  BY DEF Befriend, AddFriend, PresenceInv, PointerInv, OnlineAgree, WatchInv
<1>3. FriendStatusSent(a, b) <=> result' = Success /\ b \in online /\ Reachable(a) /\ a \in online
  BY <1>2 DEF FriendStatusSent
<1>4. \A w \in watching : /\ w \in cached /\ w \in online /\ Reachable(w)
                          /\ view[w] \subseteq friends[w]
  BY Watchers
<1>5. \A w \in watching : w # a => view'[w] = view[w] /\ friends'[w] = friends[w]
  BY <1>1, <1>2, <1>4
<1>6. view'[a] = IF FriendStatusSent(a, b) THEN view[a] \cup {b} ELSE view[a]
  BY <1>2
<1>7. WatchInv'
  <2>1. view' \in [Avatar -> SUBSET Avatar]
    BY <1>2
  <2>2. ASSUME NEW w \in watching PROVE view'[w] \subseteq friends'[w]
    <3>1. CASE w = a
      BY <1>1, <1>3, <1>4, <1>6, <3>1
    <3>2. CASE w # a
      BY <1>4, <1>5, <3>2
    <3> QED BY <3>1, <3>2
  <2> QED BY <1>2, <1>4, <2>1, <2>2 DEF WatchInv, Reachable
<1>8. PresenceAccurate'
  <2> SUFFICES ASSUME NEW w \in watching \ System, NEW c \in Avatar \ System,
                      c \in friends'[w], <<w, c>> \notin dirty'
               PROVE  c \in view'[w] <=> c \in online
    BY <1>2 DEF PresenceAccurate
  <2>1. c \in friends[w] => (c \in view[w] <=> c \in online)
    BY <1>1 DEF PresenceInv, PresenceAccurate
  <2>2. c \notin friends[w] => c \notin view[w]
    BY <1>4
  <2>3. CASE w # a
    BY <1>5, <2>1, <2>3
  <2>4. CASE w = a /\ c # b
    BY <1>1, <1>4, <1>6, <2>1, <2>4
  <2>5. CASE w = a /\ c = b
    BY <1>1, <1>3, <1>4, <1>6, <2>1, <2>2, <2>5
  <2> QED BY <2>3, <2>4, <2>5
<1> QED BY <1>7, <1>8

\* Somebody who is ignored is no friend, unless a statement about the pair
\* failed (AddFriend and AddIgnore take the other entry out).
LEMMA IgnoredIsNoFriend ==
    ASSUME PresenceInv, NEW a \in cached, NEW b \in ignores[a], <<a, b>> \notin dirty
    PROVE  b \notin friends[a]
<1>1. a \in Avatar /\ b \in Avatar
  BY DEF PresenceInv, PointerInv, TypeOK
<1> QED BY <1>1 DEF PresenceInv, Agreement, CleanPairsAgree, ListsDisjoint

\* Nobody is told, and the one that asked needs no message (RemoveFriend,
\* AddIgnore).
LEMMA UnfriendKeeps ==
    ASSUME PresenceInv, NEW a \in Avatar, NEW b \in Avatar, Unfriend(a, b)
    PROVE  WatchInv' /\ PresenceAccurate'
<1>1. /\ \A w \in cached : w # a => friends'[w] = friends[w]
      /\ a \in cached => \/ friends'[a] = friends[a] \ {b}
                         \/ b \in ignores[a] /\ friends'[a] = friends[a]
      /\ dirty \subseteq dirty'
  BY UnfriendLists DEF Unfriend, PresenceInv
<1>2. /\ view' = [view EXCEPT ![a] = view[a] \ {b}]
      /\ UNCHANGED <<registered, watching, online>>
      /\ view \in [Avatar -> SUBSET Avatar]
  BY DEF Unfriend, RemoveFriend, AddIgnore, PresenceInv, WatchInv
<1>3. \A w \in watching : /\ w \in cached /\ w \in online /\ Reachable(w)
                          /\ view[w] \subseteq friends[w]
  BY Watchers
<1>4. \A w \in watching : w # a => view'[w] = view[w] /\ friends'[w] = friends[w]
  BY <1>1, <1>2, <1>3
<1>5. view'[a] = view[a] \ {b}
  BY <1>2
<1>6. WatchInv'
  <2>1. view' \in [Avatar -> SUBSET Avatar]
    BY <1>2
  <2>2. ASSUME NEW w \in watching PROVE view'[w] \subseteq friends'[w]
    BY <1>1, <1>3, <1>4, <1>5
  <2> QED BY <1>2, <1>3, <2>1, <2>2 DEF WatchInv, Reachable
<1>7. PresenceAccurate'
  <2> SUFFICES ASSUME NEW w \in watching \ System, NEW c \in Avatar \ System,
                      c \in friends'[w], <<w, c>> \notin dirty'
               PROVE  c \in view'[w] <=> c \in online
    BY <1>2 DEF PresenceAccurate
  <2>1. c \in friends[w] /\ <<w, c>> \notin dirty
    BY <1>1, <1>3
  <2>2. c \in view[w] <=> c \in online
    BY <2>1 DEF PresenceInv, PresenceAccurate
  <2>3. w = a => c # b
    BY <1>1, <1>3, <2>1, IgnoredIsNoFriend
  <2> QED BY <1>4, <1>5, <2>2, <2>3
<1> QED BY <1>6, <1>7

(***************************************************************************)
(* Theorems                                                                *)
(***************************************************************************)

\* No step breaks the invariant.
LEMMA PresenceStep == PresenceInv /\ [PresenceNext]_pvars => PresenceInv'
<1> SUFFICES ASSUME PresenceInv, [PresenceNext]_pvars PROVE PresenceInv'
  OBVIOUS
<1>1. PointerInv' /\ Agreement'
  BY StepIsAvatarStep, PointerInvNext, AgreementNext DEF PresenceInv
<1>2. WatchInv' /\ PresenceAccurate'
  <2>1. ASSUME NEW a \in Avatar, Login(a) \/ Logout(a)
        PROVE  WatchInv' /\ PresenceAccurate'
    BY <1>1, <2>1, LoginKeeps, LogoutKeeps
  <2>2. ASSUME NEW a \in Avatar, NEW b \in Avatar, Befriend(a, b) \/ Unfriend(a, b)
        PROVE  WatchInv' /\ PresenceAccurate'
    BY <2>2, BefriendKeeps, UnfriendKeeps
  <2>3. CASE Quiet
    <3>1. UNCHANGED <<presenceVars, online>>
      BY <2>3 DEF Quiet, GetAnyAvatar, RemoveIgnore, LoadFails
    <3>2. dirty \subseteq dirty' /\ \A w \in cached : friends'[w] = friends[w]
      <4>1. ASSUME NEW a \in Avatar, GetAnyAvatar(a)
            PROVE  dirty \subseteq dirty' /\ \A w \in cached : friends'[w] = friends[w]
        BY <4>1, CachedListsStay DEF GetAnyAvatar, GetAvatar, history, PresenceInv, PointerInv
      <4>2. ASSUME NEW a \in Avatar, NEW b \in Avatar, RemoveIgnore(a, b)
            PROVE  dirty \subseteq dirty' /\ \A w \in cached : friends'[w] = friends[w]
        <5>1. friends' = FriendsAfter({a, b}) /\ dirty \subseteq dirty'
          BY <4>2 DEF RemoveIgnore
        <5> QED BY <5>1, CachedListsStay DEF PresenceInv, PointerInv
      <4>3. ASSUME NEW a \in Avatar, NEW b \in Avatar, LoadFails({a, b})
            PROVE  dirty \subseteq dirty' /\ \A w \in cached : friends'[w] = friends[w]
        <5>1. dirty \subseteq dirty'
          BY <4>3 DEF LoadFails
        <5> QED BY <4>3, <5>1, LoadFailsListsStay DEF PresenceInv, PointerInv
      <4> QED BY <2>3, <4>1, <4>2, <4>3 DEF Quiet
    <3> QED BY <3>1, <3>2, QuietKeeps
  <2>4. CASE Restart
    BY <2>4 DEF Restart, WatchInv, PresenceAccurate
  <2>5. CASE UNCHANGED pvars
    <3>1. UNCHANGED <<presenceVars, online, dirty, friends>>
      BY <2>5 DEF pvars, vars
    <3> QED BY <3>1, QuietKeeps
  <2> QED BY <2>1, <2>2, <2>3, <2>4, <2>5 DEF PresenceNext
<1> QED BY <1>1, <1>2 DEF PresenceInv

\* What every handler that notifies keeps.
THEOREM PresenceInvariant == PresenceSpec => []PresenceInv
<1>1. PresenceInit => PresenceInv
  <2> SUFFICES ASSUME PresenceInit PROVE PresenceInv
    OBVIOUS
  <2>1. PointerInv
    BY PointerInvInit DEF PresenceInit
  <2>2. Agreement
    BY DEF PresenceInit, Init, Agreement, CleanPairsAgree, ListsDisjoint
  <2>3. WatchInv /\ PresenceAccurate
    BY DEF PresenceInit, WatchInv, PresenceAccurate
  <2> QED BY <2>1, <2>2, <2>3 DEF PresenceInv
<1> QED BY <1>1, PresenceStep, PTL DEF PresenceSpec

\* A game server believes of each friend of its avatars what the list of
\* online avatars says, in whatever order friends log in, are befriended and
\* log out (SendFriendLoginUpdates, SendFriendLogoutUpdates, AddFriend).
THEOREM PresenceAlwaysAccurate == PresenceSpec => []PresenceAccurate
<1>1. PresenceInv => PresenceAccurate
  BY DEF PresenceInv
<1> QED BY <1>1, PresenceInvariant, PTL

(***************************************************************************)
(* The walk of GetAvatar                                                   *)
(*                                                                         *)
(* The inductive invariant says of each call in progress how far its lists *)
(* are, of the objects that are not new that they are as the handler found *)
(* them, and of the new ones that the handler's lookups lead to them.  At  *)
(* the end of the lookups it makes the new objects the least closed set of *)
(* Avatars, and that is why the walk implements Fetch.                     *)
(***************************************************************************)

\* The objects made by the running handler.
New == cached \ before.cached

\* The avatar call number i waits for.
Awaited(i) == IF i < Depth THEN {stack[i + 1].avatar} ELSE {}

\* How far the lists of a call's object are: the rows read, the row waited for
\* and those still to be read make up the stored list.
ListsOf(f, awaited) ==
    /\ f.list = "none" =>
          /\ f.rows = {} /\ awaited = {}
          /\ friends[f.avatar] = {} /\ ignores[f.avatar] = {}
    /\ f.list = "friend" =>
          /\ friends[f.avatar] \cup f.rows \cup awaited = dbFriend[f.avatar]
          /\ ignores[f.avatar] = {}
    /\ f.list = "ignore" =>
          /\ friends[f.avatar] = dbFriend[f.avatar]
          /\ ignores[f.avatar] \cup f.rows \cup awaited = dbIgnore[f.avatar]

StackInv ==
    /\ stack \in Seq(Frame)
    /\ \A i \in 1..Depth : stack[i].avatar \in New /\ ListsOf(stack[i], Awaited(i))

BeforeInv ==
    /\ before \in [cached : SUBSET Avatar, friends : [Avatar -> SUBSET Avatar],
                   ignores : [Avatar -> SUBSET Avatar], attr : [Avatar -> Attribute]]
    /\ before.cached \subseteq cached
    /\ \A a \in Avatar \ New :
          /\ friends[a] = before.friends[a]
          /\ ignores[a] = before.ignores[a]
          /\ attr[a] = before.attr[a]
    /\ \A a \in New : attr[a] = dbAttr[a]

CallerInv ==
    /\ caller \in Seq(Avatar) /\ Len(caller) <= 2
    /\ looked \in 0..Len(caller)
    /\ caller = <<>> => stack = <<>> /\ before = Snapshot
    /\ stack # <<>> => looked < Len(caller) /\ caller[looked + 1] \in cached
    /\ \A i \in 1..looked : caller[i] \in cached \/ caller[i] \notin row
    /\ looked = 2 \/ (looked = 1 /\ stack # <<>>) => caller[1] \in row

\* The avatars the handler looks up; the destination only if there is a source.
Wanted == {caller[i] : i \in {j \in 1..Len(caller) : j = 2 => caller[1] \in row}}

WalkInv ==
    /\ PointerInv
    /\ NoReentry
    /\ ReturnedComplete
    /\ StackInv
    /\ BeforeInv
    /\ CallerInv
    /\ New \subseteq Atomic!Fetch(Wanted)

(***************************************************************************)
(* What the walk does to the objects                                       *)
(***************************************************************************)

\* Putting an object into the cache keeps the pointers good and leaves the
\* other objects alone.
LEMMA EnterCacheEffect ==
    ASSUME PointerInv, BeforeInv, NEW a \in row \ cached, EnterCache(a),
           UNCHANGED <<store, flag, online, result, history, before>>
    PROVE  /\ PointerInv' /\ BeforeInv'
           /\ New' = New \cup {a} /\ a \notin New /\ a \in Avatar
           /\ friends'[a] = {} /\ ignores'[a] = {}
           /\ \A c \in Avatar \ {a} : friends'[c] = friends[c] /\ ignores'[c] = ignores[c]
<1>1. /\ row \subseteq Avatar /\ cached \subseteq row /\ before.cached \subseteq cached
      /\ friends \in [Avatar -> SUBSET Avatar] /\ ignores \in [Avatar -> SUBSET Avatar]
      /\ attr \in [Avatar -> Attribute] /\ dbAttr \in [Avatar -> Attribute]
  BY DEF PointerInv, TypeOK, BeforeInv
<1>2. /\ row' = row /\ dbFriend' = dbFriend /\ dbIgnore' = dbIgnore /\ dbAttr' = dbAttr
      /\ flag' = flag /\ online' = online /\ before' = before
      /\ result' = result /\ dirty' = dirty /\ transient' = transient /\ faults' = faults
  BY DEF store, history
<1>3. /\ a \in Avatar /\ cached' = cached \cup {a}
      /\ New' = New \cup {a} /\ a \notin New
  BY <1>1, <1>2 DEF EnterCache, New
<1>4. /\ friends' = [friends EXCEPT ![a] = {}] /\ ignores' = [ignores EXCEPT ![a] = {}]
      /\ attr' = [attr EXCEPT ![a] = dbAttr[a]]
  BY DEF EnterCache
<1>5. /\ friends'[a] = {} /\ ignores'[a] = {} /\ attr'[a] = dbAttr[a]
      /\ \A c \in Avatar \ {a} : friends'[c] = friends[c] /\ ignores'[c] = ignores[c]
                                    /\ attr'[c] = attr[c]
      /\ friends' \in [Avatar -> SUBSET Avatar] /\ ignores' \in [Avatar -> SUBSET Avatar]
      /\ attr' \in [Avatar -> Attribute]
  BY <1>1, <1>3, <1>4
<1>6. PointerInv'
  <2>1. TypeOK'
    BY <1>1, <1>2, <1>3, <1>5 DEF PointerInv, TypeOK
  <2>2. StoreClosed' /\ OnlineAgree'
    BY <1>2, <1>3 DEF PointerInv, StoreClosed, Contacts, OnlineAgree
  <2>3. OutsideEmpty' /\ ContactsCached'
    BY <1>1, <1>2, <1>3, <1>5 DEF PointerInv, OutsideEmpty, ContactsCached
  <2> QED BY <2>1, <2>2, <2>3 DEF PointerInv
<1>7. BeforeInv'
  <2>1. before' \in [cached : SUBSET Avatar, friends : [Avatar -> SUBSET Avatar],
                     ignores : [Avatar -> SUBSET Avatar], attr : [Avatar -> Attribute]]
    BY <1>2 DEF BeforeInv
  <2>2. before.cached' \subseteq cached'
    BY <1>1, <1>2, <1>3
  <2>3. \A c \in Avatar \ New' : /\ friends'[c] = before.friends'[c]
                                 /\ ignores'[c] = before.ignores'[c]
                                 /\ attr'[c] = before.attr'[c]
    BY <1>2, <1>3, <1>5 DEF BeforeInv
  <2>4. \A c \in New' : attr'[c] = dbAttr'[c]
    <3>1. New \subseteq Avatar
      BY <1>1 DEF New
    <3> QED BY <1>2, <1>3, <1>5, <3>1 DEF BeforeInv
  <2> QED BY <2>1, <2>2, <2>3, <2>4 DEF BeforeInv
<1> QED BY <1>3, <1>5, <1>6, <1>7

\* So does appending a pointer to a cached object to a list of a new one.
LEMMA PointEffect ==
    ASSUME PointerInv, BeforeInv, NEW f, f.avatar \in New, NEW r \in cached, Point(f, r),
           UNCHANGED <<store, cached, attr, flag, online, result, history, before>>
    PROVE  /\ PointerInv' /\ BeforeInv' /\ New' = New
           /\ friends'[f.avatar] = friends[f.avatar] \cup (IF f.list = "friend" THEN {r} ELSE {})
           /\ ignores'[f.avatar] = ignores[f.avatar] \cup (IF f.list = "friend" THEN {} ELSE {r})
           /\ \A c \in Avatar \ {f.avatar} : friends'[c] = friends[c] /\ ignores'[c] = ignores[c]
<1>1. /\ row \subseteq Avatar /\ cached \subseteq row /\ before.cached \subseteq cached
      /\ friends \in [Avatar -> SUBSET Avatar] /\ ignores \in [Avatar -> SUBSET Avatar]
      /\ f.avatar \in Avatar /\ f.avatar \in cached /\ r \in Avatar
  BY DEF PointerInv, TypeOK, BeforeInv, New
<1>2. /\ row' = row /\ dbFriend' = dbFriend /\ dbIgnore' = dbIgnore /\ dbAttr' = dbAttr
      /\ flag' = flag /\ online' = online /\ before' = before /\ cached' = cached /\ attr' = attr
      /\ result' = result /\ dirty' = dirty /\ transient' = transient /\ faults' = faults
      /\ New' = New
  BY DEF store, history, New
<1>3. /\ friends'[f.avatar] = friends[f.avatar] \cup (IF f.list = "friend" THEN {r} ELSE {})
      /\ ignores'[f.avatar] = ignores[f.avatar] \cup (IF f.list = "friend" THEN {} ELSE {r})
      /\ \A c \in Avatar \ {f.avatar} : friends'[c] = friends[c] /\ ignores'[c] = ignores[c]
      /\ friends' \in [Avatar -> SUBSET Avatar] /\ ignores' \in [Avatar -> SUBSET Avatar]
  BY <1>1 DEF Point
<1>4. PointerInv'
  <2>1. TypeOK'
    BY <1>1, <1>2, <1>3 DEF PointerInv, TypeOK
  <2>2. StoreClosed' /\ OnlineAgree'
    BY <1>2 DEF PointerInv, StoreClosed, Contacts, OnlineAgree
  <2>3. OutsideEmpty'
    BY <1>1, <1>2, <1>3 DEF PointerInv, OutsideEmpty
  <2>4. ContactsCached'
    BY <1>1, <1>2, <1>3 DEF PointerInv, ContactsCached
  <2> QED BY <2>1, <2>2, <2>3, <2>4 DEF PointerInv
<1>5. BeforeInv'
  BY <1>1, <1>2, <1>3 DEF BeforeInv
<1> QED BY <1>2, <1>3, <1>4, <1>5

\* A step that changes no object.
LEMMA ObjectsKept ==
    ASSUME PointerInv, BeforeInv, UNCHANGED vars, UNCHANGED before
    PROVE  PointerInv' /\ BeforeInv' /\ New' = New
<1>1. PointerInv'
  BY DEF vars, PointerInv, TypeOK, StoreClosed, Contacts, OutsideEmpty, ContactsCached, OnlineAgree
<1>2. New' = New /\ BeforeInv'
  BY DEF vars, New, BeforeInv
<1> QED BY <1>1, <1>2

\* What the handler's lookups lead to depends on the tables and on what was
\* cached before only.
LEMMA WantedFetchStays ==
    ASSUME UNCHANGED <<store, before, caller>>
    PROVE  Wanted' = Wanted /\ Atomic!Fetch(Wanted)' = Atomic!Fetch(Wanted)
<1>1. Wanted' = Wanted
  BY DEF Wanted, store
<1> QED BY <1>1 DEF Atomic!Fetch, Atomic!LoadClosed, Atomic!Contacts, store

(***************************************************************************)
(* What the walk does to the calls in progress                             *)
(***************************************************************************)

\* Only the call on top changes, and it is the call for the same avatar.
TopChanged(list, rows) ==
    /\ stack' \in Seq(Frame)
    /\ Len(stack') = Depth
    /\ \A i \in 1..Depth : stack'[i].avatar = stack[i].avatar
    /\ \A i \in 1..(Depth - 1) : stack'[i] = stack[i]
    /\ stack'[Depth].list = list
    /\ stack'[Depth].rows = rows

\* The next list is begun.
LEMMA TopList ==
    ASSUME stack \in Seq(Frame), stack # <<>>, NEW list \in {"none", "friend", "ignore"},
           NEW rows \in SUBSET Avatar,
           stack' = [stack EXCEPT ![Depth].list = list, ![Depth].rows = rows]
    PROVE  TopChanged(list, rows)
<1>1. Depth \in 1..Len(stack) /\ stack[Depth] \in Frame
  BY DEF Depth
<1> DEFINE f == [stack[Depth] EXCEPT !.list = list, !.rows = rows]
<1>2. stack' = [stack EXCEPT ![Depth] = f]
  BY <1>1
<1>3. f \in Frame /\ f.avatar = stack[Depth].avatar /\ f.list = list /\ f.rows = rows
  BY <1>1 DEF Frame
<1> HIDE DEF f
<1>4. stack' \in Seq(Frame) /\ Len(stack') = Len(stack)
  BY <1>1, <1>2, <1>3
<1>5. /\ stack'[Depth] = f
      /\ \A i \in 1..Len(stack) : i # Depth => stack'[i] = stack[i]
  <2>1. DOMAIN stack = 1..Len(stack)
    OBVIOUS
  <2> QED BY <1>1, <1>2, <2>1, Zenon
<1>6. Depth = Len(stack) /\ Depth \in Nat
  BY DEF Depth
<1>7. \A i \in 1..Depth : stack'[i].avatar = stack[i].avatar
  <2> TAKE i \in 1..Depth
  <2>1. CASE i = Depth
    BY <1>3, <1>5, <2>1
  <2>2. CASE i # Depth
    BY <1>5, <1>6, <2>2
  <2> QED BY <2>1, <2>2
<1>8. \A i \in 1..(Depth - 1) : stack'[i] = stack[i]
  BY <1>5, <1>6
<1> QED BY <1>3, <1>4, <1>5, <1>6, <1>7, <1>8 DEF TopChanged

\* The next row is read.
LEMMA TopRows ==
    ASSUME stack \in Seq(Frame), stack # <<>>, NEW rows \in SUBSET Avatar,
           stack' = [stack EXCEPT ![Depth].rows = rows]
    PROVE  TopChanged(Top.list, rows)
<1>1. Depth \in 1..Len(stack) /\ stack[Depth] \in Frame
  BY DEF Depth
<1> DEFINE f == [stack[Depth] EXCEPT !.rows = rows]
<1>2. stack' = [stack EXCEPT ![Depth] = f]
  BY <1>1
<1>3. f \in Frame /\ f.avatar = Top.avatar /\ f.list = Top.list /\ f.rows = rows
  BY <1>1 DEF Frame, Top
<1> HIDE DEF f
<1> QED BY <1>1, <1>2, <1>3 DEF TopChanged, Depth, Top

\* The calls in progress are calls for new objects; the one on top waits for
\* nobody.
LEMMA TopOfStack ==
    ASSUME WalkInv, stack # <<>>
    PROVE  /\ stack \in Seq(Frame) /\ Depth \in Nat /\ Depth > 0
           /\ \A i \in 1..Depth : stack[i] \in Frame /\ stack[i].avatar \in New
           /\ Top \in Frame /\ Top.avatar \in New /\ Top.avatar \in Avatar
           /\ New \subseteq Avatar /\ New \subseteq cached /\ cached \subseteq Avatar
           /\ ListsOf(Top, {})
<1>1. stack \in Seq(Frame)
  BY DEF WalkInv, StackInv
<1>2. Depth \in Nat /\ Depth > 0
  BY <1>1 DEF Depth
<1>3. ASSUME NEW i \in 1..Depth
      PROVE  stack[i] \in Frame /\ stack[i].avatar \in New
  BY <1>1 DEF WalkInv, StackInv, Depth
<1>4. Depth \in 1..Depth
  BY <1>2
<1>5. Top \in Frame /\ Top.avatar \in New
  BY <1>3, <1>4 DEF Top
<1>6. New \subseteq Avatar /\ New \subseteq cached /\ cached \subseteq Avatar
  BY DEF WalkInv, PointerInv, TypeOK, New
<1>7. Awaited(Depth) = {}
  BY <1>2 DEF Awaited
<1>8. ListsOf(Top, {})
  <2>1. ListsOf(stack[Depth], Awaited(Depth))
    BY <1>4, Zenon DEF WalkInv, StackInv
  <2> QED BY <1>7, <2>1 DEF Top
<1> QED BY <1>1, <1>2, <1>3, <1>5, <1>6, <1>8

\* While a call is in progress, the handler is where it was.
LEMMA CallerKept ==
    ASSUME CallerInv, UNCHANGED <<row, caller, looked, before>>, cached \subseteq cached',
           stack # <<>>, stack' # <<>>
    PROVE  CallerInv'
<1>1. caller # <<>>
  BY DEF CallerInv
<1> QED BY <1>1 DEF CallerInv

\* A step that changes nothing but the call on top and the lists of its object
\* leaves the other calls as they were.
LEMMA TopChangedKeeps ==
    ASSUME WalkInv, stack # <<>>, NEW list, NEW rows, TopChanged(list, rows),
           New' = New, UNCHANGED <<dbFriend, dbIgnore>>,
           \A c \in Avatar \ {Top.avatar} : friends'[c] = friends[c] /\ ignores'[c] = ignores[c],
           ListsOf(Top, {})'
    PROVE  NoReentry' /\ ReturnedComplete' /\ StackInv'
<1> DEFINE n == Depth
<1>1. /\ n \in Nat \ {0} /\ Depth' = n
      /\ \A i \in 1..n : stack[i] \in Frame /\ stack[i].avatar \in New
      /\ New \subseteq Avatar
  BY TopOfStack DEF TopChanged, Depth
<1>2. NoReentry'
  BY <1>1 DEF TopChanged, WalkInv, NoReentry
<1>3. ASSUME NEW a \in New, \A i \in 1..n : stack'[i].avatar # a
      PROVE  friends'[a] = dbFriend[a] /\ ignores'[a] = dbIgnore[a]
  <2>1. \A i \in 1..n : stack[i].avatar # a
    BY <1>1, <1>3 DEF TopChanged
  <2>2. a # Top.avatar /\ a \in Avatar
    BY <1>1, <2>1 DEF Top
  <2>3. friends[a] = dbFriend[a] /\ ignores[a] = dbIgnore[a]
    BY <2>1 DEF WalkInv, ReturnedComplete, New
  <2> QED BY <2>2, <2>3
<1>4. ReturnedComplete'
  BY <1>1, <1>3 DEF ReturnedComplete, New
<1>5. ASSUME NEW i \in 1..n
      PROVE  stack'[i].avatar \in New /\ ListsOf(stack[i], Awaited(i))'
  <2>1. stack'[i].avatar \in New
    BY <1>1 DEF TopChanged
  <2>2. CASE i = n
    <3>1. Awaited(i)' = {} /\ Top' = stack'[i]
      BY <1>1, <2>2 DEF Awaited, Top
    <3> QED BY <2>1, <3>1
  <2>3. CASE i # n
    <3>1. i \in 1..(n - 1) /\ i + 1 \in 1..n
      BY <1>1, <2>3
    <3>2. stack'[i] = stack[i] /\ Awaited(i)' = Awaited(i)
      BY <1>1, <3>1 DEF TopChanged, Awaited
    <3>3. stack[i].avatar # Top.avatar /\ stack[i].avatar \in Avatar
      BY <1>1, <3>1 DEF WalkInv, NoReentry, Top
    <3>4. ListsOf(stack[i], Awaited(i))
      BY DEF WalkInv, StackInv
    <3> QED BY <2>1, <3>2, <3>3, <3>4 DEF ListsOf
  <2> QED BY <2>2, <2>3
<1>6. StackInv'
  BY <1>1, <1>5 DEF StackInv, TopChanged
<1> QED BY <1>2, <1>4, <1>6

(***************************************************************************)
(* The steps of the walk                                                   *)
(***************************************************************************)

\* LoadFriendList begins: nothing is on the list yet, all of it is to be read.
LEMMA ReadFriendsKeeps ==
    ASSUME WalkInv, ReadFriends
    PROVE  WalkInv'
<1>1. /\ stack # <<>> /\ Top.list = "none" /\ UNCHANGED vars
      /\ caller' = caller /\ looked' = looked /\ before' = before
      /\ stack' = [stack EXCEPT ![Depth].list = "friend", ![Depth].rows = dbFriend[Top.avatar]]
  BY DEF ReadFriends
<1>2. /\ stack \in Seq(Frame) /\ Depth \in Nat /\ Depth > 0
      /\ Top.avatar \in New /\ Top.avatar \in Avatar /\ ListsOf(Top, {})
  BY <1>1, TopOfStack
<1>3. dbFriend[Top.avatar] \in SUBSET Avatar
  BY <1>2 DEF WalkInv, PointerInv, TypeOK
<1>4. TopChanged("friend", dbFriend[Top.avatar])
  BY <1>1, <1>2, <1>3, TopList
<1>5. UNCHANGED store /\ New' = New /\ PointerInv' /\ BeforeInv'
  BY <1>1, ObjectsKept DEF store, vars, WalkInv
<1>6. ListsOf(Top, {})'
  <2>1. Top'.avatar = Top.avatar /\ Top'.list = "friend" /\ Top'.rows = dbFriend[Top.avatar]
    BY <1>2, <1>4 DEF TopChanged, Top, Depth
  <2>2. friends[Top.avatar] = {} /\ ignores[Top.avatar] = {}
    BY <1>1, <1>2 DEF ListsOf
  <2>3. friends' = friends /\ ignores' = ignores /\ dbFriend' = dbFriend
    BY <1>1 DEF vars
  <2> QED BY <2>1, <2>2, <2>3 DEF ListsOf
<1>7. NoReentry' /\ ReturnedComplete' /\ StackInv'
  BY <1>1, <1>4, <1>5, <1>6, TopChangedKeeps DEF vars
<1>8. CallerInv'
  <2>1. stack' # <<>>
    BY <1>2, <1>4 DEF TopChanged, Depth
  <2> QED BY <1>1, <2>1, CallerKept DEF WalkInv, vars
<1>9. Wanted' = Wanted /\ Atomic!Fetch(Wanted)' = Atomic!Fetch(Wanted)
  BY <1>1, <1>5, WantedFetchStays
<1> QED BY <1>5, <1>7, <1>8, <1>9 DEF WalkInv

\* LoadFriendList is done and LoadIgnoreList begins.
LEMMA ReadIgnoresKeeps ==
    ASSUME WalkInv, ReadIgnores
    PROVE  WalkInv'
<1>1. /\ stack # <<>> /\ Top.list = "friend" /\ Top.rows = {} /\ UNCHANGED vars
      /\ caller' = caller /\ looked' = looked /\ before' = before
      /\ stack' = [stack EXCEPT ![Depth].list = "ignore", ![Depth].rows = dbIgnore[Top.avatar]]
  BY DEF ReadIgnores
<1>2. /\ stack \in Seq(Frame) /\ Depth \in Nat /\ Depth > 0
      /\ Top.avatar \in New /\ Top.avatar \in Avatar /\ ListsOf(Top, {})
  BY <1>1, TopOfStack
<1>3. dbIgnore[Top.avatar] \in SUBSET Avatar
  BY <1>2 DEF WalkInv, PointerInv, TypeOK
<1>4. TopChanged("ignore", dbIgnore[Top.avatar])
  BY <1>1, <1>2, <1>3, TopList
<1>5. UNCHANGED store /\ New' = New /\ PointerInv' /\ BeforeInv'
  BY <1>1, ObjectsKept DEF store, vars, WalkInv
<1>6. ListsOf(Top, {})'
  <2>1. Top'.avatar = Top.avatar /\ Top'.list = "ignore" /\ Top'.rows = dbIgnore[Top.avatar]
    BY <1>2, <1>4 DEF TopChanged, Top, Depth
  <2>2. friends[Top.avatar] = dbFriend[Top.avatar] /\ ignores[Top.avatar] = {}
    BY <1>1, <1>2 DEF ListsOf
  <2>3. friends' = friends /\ ignores' = ignores /\ dbFriend' = dbFriend /\ dbIgnore' = dbIgnore
    BY <1>1 DEF vars
  <2> QED BY <2>1, <2>2, <2>3 DEF ListsOf
<1>7. NoReentry' /\ ReturnedComplete' /\ StackInv'
  BY <1>1, <1>4, <1>5, <1>6, TopChangedKeeps DEF vars
<1>8. CallerInv'
  <2>1. stack' # <<>>
    BY <1>2, <1>4 DEF TopChanged, Depth
  <2> QED BY <1>1, <2>1, CallerKept DEF WalkInv, vars
<1>9. Wanted' = Wanted /\ Atomic!Fetch(Wanted)' = Atomic!Fetch(Wanted)
  BY <1>1, <1>5, WantedFetchStays
<1> QED BY <1>5, <1>7, <1>8, <1>9 DEF WalkInv

\* A row whose avatar is cached moves from the rows to the list.
LEMMA ReadCachedRowKeeps ==
    ASSUME WalkInv, NEW r \in Avatar, ReadCachedRow(r)
    PROVE  WalkInv'
<1>1. /\ stack # <<>> /\ r \in Top.rows /\ r \in cached /\ Point(Top, r)
      /\ stack' = [stack EXCEPT ![Depth].rows = Top.rows \ {r}]
      /\ caller' = caller /\ looked' = looked /\ before' = before
      /\ UNCHANGED <<store, cached, attr, flag, online, result, history>>
  BY DEF ReadCachedRow, RowsAfter
<1>2. /\ stack \in Seq(Frame) /\ Depth \in Nat /\ Depth > 0 /\ Top \in Frame
      /\ Top.avatar \in New /\ Top.avatar \in Avatar /\ ListsOf(Top, {})
  BY <1>1, TopOfStack
<1>3. TopChanged(Top.list, Top.rows \ {r})
  <2>1. Top.rows \ {r} \in SUBSET Avatar
    BY <1>2 DEF Frame
  <2> QED BY <1>1, <1>2, <2>1, TopRows
<1>4. /\ PointerInv' /\ BeforeInv' /\ New' = New
      /\ friends'[Top.avatar] = friends[Top.avatar] \cup (IF Top.list = "friend" THEN {r} ELSE {})
      /\ ignores'[Top.avatar] = ignores[Top.avatar] \cup (IF Top.list = "friend" THEN {} ELSE {r})
      /\ \A c \in Avatar \ {Top.avatar} : friends'[c] = friends[c] /\ ignores'[c] = ignores[c]
  BY <1>1, <1>2, PointEffect DEF WalkInv
<1>5. dbFriend' = dbFriend /\ dbIgnore' = dbIgnore /\ row' = row
  BY <1>1 DEF store
<1>6. ListsOf(Top, {})'
  <2>1. Top'.avatar = Top.avatar /\ Top'.list = Top.list /\ Top'.rows = Top.rows \ {r}
    BY <1>2, <1>3 DEF TopChanged, Top, Depth
  <2>2. Top.list = "friend" \/ Top.list = "ignore"
    BY <1>1, <1>2 DEF ListsOf, Frame
  <2>3. CASE Top.list = "friend"
    <3>1. ignores'[Top.avatar] = {} /\ friends'[Top.avatar] = friends[Top.avatar] \cup {r}
      BY <1>2, <1>4, <2>3 DEF ListsOf
    <3>2. friends'[Top.avatar] \cup (Top.rows \ {r}) \cup {} = dbFriend'[Top.avatar]
      BY <1>1, <1>2, <1>5, <2>3, <3>1 DEF ListsOf
    <3> QED BY <2>1, <2>3, <3>1, <3>2 DEF ListsOf
  <2>4. CASE Top.list = "ignore"
    <3>1. /\ friends'[Top.avatar] = friends[Top.avatar]
          /\ ignores'[Top.avatar] = ignores[Top.avatar] \cup {r}
      BY <1>4, <2>4
    <3>2. ignores'[Top.avatar] \cup (Top.rows \ {r}) \cup {} = dbIgnore'[Top.avatar]
      BY <1>1, <1>2, <1>5, <2>4, <3>1 DEF ListsOf
    <3>3. friends'[Top.avatar] = dbFriend'[Top.avatar]
      BY <1>2, <1>5, <2>4, <3>1 DEF ListsOf
    <3> QED BY <2>1, <2>4, <3>2, <3>3 DEF ListsOf
  <2> QED BY <2>2, <2>3, <2>4
<1>7. NoReentry' /\ ReturnedComplete' /\ StackInv'
  BY <1>1, <1>3, <1>4, <1>5, <1>6, TopChangedKeeps
<1>8. CallerInv'
  <2>1. stack' # <<>>
    BY <1>2, <1>3 DEF TopChanged, Depth
  <2> QED BY <1>1, <1>5, <2>1, CallerKept DEF WalkInv
<1>9. Wanted' = Wanted /\ Atomic!Fetch(Wanted)' = Atomic!Fetch(Wanted)
  BY <1>1, WantedFetchStays
<1> QED BY <1>4, <1>7, <1>8, <1>9 DEF WalkInv

\* A call that returns to a list completes its object and gives the list the
\* pointer it waited for.
LEMMA ReturnToListKeeps ==
    ASSUME WalkInv, ReturnToList
    PROVE  WalkInv'
<1> DEFINE n == Depth
           f == stack[n - 1]
<1>1. /\ stack # <<>> /\ Top.list = "ignore" /\ Top.rows = {} /\ n > 1
      /\ Point(f, Top.avatar)
      /\ stack' = SubSeq(stack, 1, n - 1)
      /\ caller' = caller /\ looked' = looked /\ before' = before
      /\ UNCHANGED <<store, cached, attr, flag, online, result, history>>
  BY DEF ReturnToList, BothListsRead, Below
<1>2. /\ stack \in Seq(Frame) /\ n \in Nat /\ n > 0 /\ Top \in Frame
      /\ Top.avatar \in New /\ Top.avatar \in Avatar /\ ListsOf(Top, {}) /\ New \subseteq Avatar
      /\ \A i \in 1..n : stack[i] \in Frame /\ stack[i].avatar \in New
      /\ New \subseteq cached
  BY <1>1, TopOfStack
<1> HIDE DEF n
<1>3. n - 1 \in 1..n /\ n - 1 \in Nat /\ n - 1 > 0 /\ n \in 1..n
  BY <1>1, <1>2
<1>4. f \in Frame /\ f.avatar \in New /\ f.avatar \in Avatar
  BY <1>2, <1>3
<1>5. /\ stack' \in Seq(Frame) /\ Len(stack') = n - 1
      /\ \A i \in 1..(n - 1) : stack'[i] = stack[i]
  BY <1>1, <1>2, <1>3 DEF n, Depth
<1>6. Depth' = n - 1 /\ Top' = f /\ stack' # <<>>
  BY <1>3, <1>5 DEF Depth, Top
<1>7. /\ PointerInv' /\ BeforeInv' /\ New' = New
      /\ friends'[f.avatar] =
            friends[f.avatar] \cup (IF f.list = "friend" THEN {Top.avatar} ELSE {})
      /\ ignores'[f.avatar] =
            ignores[f.avatar] \cup (IF f.list = "friend" THEN {} ELSE {Top.avatar})
      /\ \A c \in Avatar \ {f.avatar} : friends'[c] = friends[c] /\ ignores'[c] = ignores[c]
  <2>1. Top.avatar \in cached
    BY <1>2
  <2> QED BY <1>1, <1>4, <2>1, PointEffect DEF WalkInv
<1>8. dbFriend' = dbFriend /\ dbIgnore' = dbIgnore /\ row' = row
  BY <1>1 DEF store
<1>9. \A i, j \in 1..n : i # j => stack[i].avatar # stack[j].avatar
  BY DEF WalkInv, NoReentry, n
<1>10. NoReentry'
  BY <1>2, <1>3, <1>5, <1>6, <1>9 DEF NoReentry
<1>11. ReturnedComplete'
  <2>1. ASSUME NEW a \in New, \A i \in 1..(n - 1) : stack'[i].avatar # a
        PROVE  friends'[a] = dbFriend[a] /\ ignores'[a] = dbIgnore[a]
    <3>1. a # f.avatar /\ a \in Avatar
      BY <1>2, <1>3, <1>5, <2>1
    <3>2. CASE a = Top.avatar
      BY <1>1, <1>2, <1>7, <3>1, <3>2 DEF ListsOf
    <3>3. CASE a # Top.avatar
      <4>1. \A i \in 1..n : stack[i].avatar # a
        BY <1>2, <1>5, <2>1, <3>3 DEF Top, n
      <4> QED BY <1>7, <3>1, <4>1 DEF WalkInv, ReturnedComplete, New, n
    <3> QED BY <3>2, <3>3
  <2> QED BY <1>6, <1>7, <1>8, <2>1 DEF ReturnedComplete, New
<1>12. ASSUME NEW i \in 1..(n - 1)
       PROVE  stack'[i].avatar \in New /\ ListsOf(stack[i], Awaited(i))'
  <2>1. i \in 1..n /\ i + 1 \in 1..n
    BY <1>2
  <2>2. stack'[i] = stack[i] /\ stack'[i].avatar \in New /\ stack[i].avatar \in Avatar
    BY <1>2, <1>5, <2>1
  <2>3. ListsOf(stack[i], Awaited(i))
    BY <2>1 DEF WalkInv, StackInv, n
  <2>4. CASE i = n - 1
    <3>1. Awaited(i)' = {} /\ Awaited(i) = {Top.avatar} /\ stack[i] = f
      BY <1>2, <1>6, <2>4 DEF Awaited, Top, n
    <3>2. f.list = "friend" \/ f.list = "ignore"
      BY <1>4, <2>3, <3>1 DEF ListsOf, Frame
    <3>3. CASE f.list = "friend"
      BY <1>7, <1>8, <2>2, <2>3, <3>1, <3>3 DEF ListsOf
    <3>4. CASE f.list = "ignore"
      BY <1>7, <1>8, <2>2, <2>3, <3>1, <3>4 DEF ListsOf
    <3> QED BY <3>2, <3>3, <3>4
  <2>5. CASE i # n - 1
    <3>1. stack[i].avatar # f.avatar
      BY <1>2, <1>3, <1>9, <2>1, <2>5
    <3>2. Awaited(i)' = Awaited(i)
      <4>1. i < n - 1 /\ i < n /\ i + 1 \in 1..(n - 1)
        BY <1>2, <2>5
      <4>2. stack'[i + 1] = stack[i + 1]
        BY <1>5, <4>1
      <4> QED BY <1>6, <4>1, <4>2 DEF Awaited, n
    <3> QED BY <1>7, <1>8, <2>2, <2>3, <3>1, <3>2 DEF ListsOf
  <2> QED BY <2>4, <2>5
<1>13. StackInv'
  BY <1>5, <1>6, <1>7, <1>12 DEF StackInv
<1>14. CallerInv'
  BY <1>1, <1>6, <1>8, CallerKept DEF WalkInv
<1>15. Wanted' = Wanted /\ Atomic!Fetch(Wanted)' = Atomic!Fetch(Wanted)
  BY <1>1, WantedFetchStays
<1> QED BY <1>7, <1>10, <1>11, <1>13, <1>14, <1>15 DEF WalkInv

\* The lookups of a handler lead to the rows it asks for, and from an avatar
\* they lead to to its contacts, unless they were cached before.
LEMMA FetchLeads ==
    ASSUME NEW X, NEW r \in row, r \notin before.cached,
           r \in X \/ \E c \in Atomic!Fetch(X) : r \in Contacts(c)
    PROVE  r \in Atomic!Fetch(X)
<1>1. ASSUME NEW S \in SUBSET (row \ before.cached), Atomic!LoadClosed(S, X)
      PROVE  r \in S
  <2>1. CASE r \in X
    BY <1>1, <2>1 DEF Atomic!LoadClosed
  <2>2. ASSUME NEW c \in Atomic!Fetch(X), r \in Contacts(c)
        PROVE  r \in S
    <3>1. c \in S
      BY <1>1 DEF Atomic!Fetch
    <3>2. r \in Atomic!Contacts(c)
      BY <2>2 DEF Atomic!Contacts, Contacts
    <3> QED BY <1>1, <3>1, <3>2 DEF Atomic!LoadClosed
  <2> QED BY <2>1, <2>2
<1> QED BY <1>1 DEF Atomic!Fetch

\* A row whose avatar is not cached: a call for it is put on top, and the call
\* below waits for it.
LEMMA OpenRowKeeps ==
    ASSUME WalkInv, NEW r \in Avatar, OpenRow(r)
    PROVE  WalkInv'
<1> DEFINE n == Depth
           s == [stack EXCEPT ![Depth].rows = Top.rows \ {r}]
<1>1. /\ stack # <<>> /\ r \in Top.rows /\ r \in row \ cached /\ EnterCache(r)
      /\ stack' = Append(s, Opened(r))
      /\ caller' = caller /\ looked' = looked /\ before' = before
      /\ UNCHANGED <<store, flag, online, result, history>>
  BY DEF OpenRow, RowsAfter
<1>2. /\ stack \in Seq(Frame) /\ n \in Nat /\ n > 0 /\ Top \in Frame
      /\ Top.avatar \in New /\ Top.avatar \in Avatar /\ ListsOf(Top, {}) /\ New \subseteq Avatar
      /\ \A i \in 1..n : stack[i] \in Frame /\ stack[i].avatar \in New
      /\ New \subseteq cached /\ cached \subseteq Avatar
  BY <1>1, TopOfStack
<1>3. n \in 1..n /\ n + 1 \in Nat /\ n + 1 \in 1..(n + 1) /\ n = Len(stack)
  BY <1>2 DEF Depth
<1>4. /\ s \in Seq(Frame) /\ Len(s) = n
      /\ \A i \in 1..n : i # n => s[i] = stack[i]
      /\ s[n].avatar = Top.avatar /\ s[n].list = Top.list /\ s[n].rows = Top.rows \ {r}
  <2> DEFINE f == [Top EXCEPT !.rows = Top.rows \ {r}]
  <2>1. s = [stack EXCEPT ![n] = f]
    BY <1>2, <1>3 DEF Top
  <2>2. f \in Frame /\ f.avatar = Top.avatar /\ f.list = Top.list /\ f.rows = Top.rows \ {r}
    BY <1>2 DEF Frame
  <2> HIDE DEF f, n, s
  <2>3. s \in Seq(Frame) /\ Len(s) = n
    BY <1>2, <1>3, <2>1, <2>2
  <2>4. DOMAIN stack = 1..Len(stack)
    BY <1>2
  <2>5. s[n] = f /\ \A i \in 1..n : i # n => s[i] = stack[i]
    BY <1>3, <2>1, <2>4, Zenon
  <2> QED BY <2>2, <2>3, <2>5
<1>5. Opened(r) \in Frame
  BY DEF Opened, Frame
<1> HIDE DEF n, s
<1>6. /\ stack' \in Seq(Frame) /\ Len(stack') = n + 1 /\ stack' # <<>>
      /\ \A i \in 1..n : stack'[i] = s[i]
      /\ stack'[n + 1] = Opened(r)
  BY <1>1, <1>2, <1>4, <1>5
<1>7. Depth' = n + 1 /\ Depth = n
  BY <1>6 DEF Depth, n
<1>8. /\ PointerInv' /\ BeforeInv'
      /\ New' = New \cup {r} /\ r \notin New
      /\ friends'[r] = {} /\ ignores'[r] = {}
      /\ \A c \in Avatar \ {r} : friends'[c] = friends[c] /\ ignores'[c] = ignores[c]
  BY <1>1, EnterCacheEffect DEF WalkInv
<1>9. dbFriend' = dbFriend /\ dbIgnore' = dbIgnore /\ row' = row
  BY <1>1 DEF store
<1>10. \A i \in 1..n : stack'[i].avatar = stack[i].avatar
  BY <1>3, <1>4, <1>6 DEF Top, n
<1>11. NoReentry'
  <2>1. \A i, j \in 1..n : i # j => stack[i].avatar # stack[j].avatar
    BY DEF WalkInv, NoReentry, n
  <2>2. stack'[n + 1].avatar = r
    BY <1>6 DEF Opened
  <2>3. ASSUME NEW i \in 1..(n + 1), NEW j \in 1..(n + 1), i # j
        PROVE  stack'[i].avatar # stack'[j].avatar
    <3>1. CASE i \in 1..n /\ j \in 1..n
      BY <1>10, <2>1, <2>3, <3>1
    <3>2. CASE i \in 1..n /\ j = n + 1
      BY <1>2, <1>8, <1>10, <2>2, <3>2
    <3>3. CASE i = n + 1 /\ j \in 1..n
      BY <1>2, <1>8, <1>10, <2>2, <3>3
    <3> QED BY <1>2, <2>3, <3>1, <3>2, <3>3
  <2> QED BY <1>7, <2>3 DEF NoReentry
<1>12. ReturnedComplete'
  <2>1. ASSUME NEW a \in New \cup {r}, \A i \in 1..(n + 1) : stack'[i].avatar # a
        PROVE  friends'[a] = dbFriend[a] /\ ignores'[a] = dbIgnore[a]
    <3>1. a # r
      BY <1>3, <1>6, <2>1 DEF Opened
    <3>2. \A i \in 1..n : stack[i].avatar # a
      BY <1>2, <1>10, <2>1
    <3> QED BY <1>2, <1>8, <2>1, <3>1, <3>2 DEF WalkInv, ReturnedComplete, New, n
  <2> QED BY <1>7, <1>8, <1>9, <2>1 DEF ReturnedComplete, New
<1>13. ASSUME NEW i \in 1..(n + 1)
       PROVE  stack'[i].avatar \in New' /\ ListsOf(stack[i], Awaited(i))'
  <2>1. CASE i = n + 1
    <3>1. Awaited(i)' = {} /\ stack'[i] = Opened(r)
      BY <1>2, <1>6, <1>7, <2>1 DEF Awaited
    <3> QED BY <1>8, <3>1 DEF ListsOf, Opened
  <2>2. CASE i = n
    <3>1. stack'[i].avatar \in New' /\ Top.avatar # r
      BY <1>2, <1>3, <1>8, <1>10, <2>2
    <3>2. Awaited(i)' = {r}
      BY <1>2, <1>6, <1>7, <2>2 DEF Awaited, Opened
    <3>3. /\ stack'[i].avatar = Top.avatar /\ stack'[i].list = Top.list
          /\ stack'[i].rows = Top.rows \ {r}
      BY <1>3, <1>4, <1>6, <2>2
    <3>4. Top.list = "friend" \/ Top.list = "ignore"
      BY <1>1, <1>2 DEF ListsOf, Frame
    <3>5. /\ friends'[Top.avatar] = friends[Top.avatar]
          /\ ignores'[Top.avatar] = ignores[Top.avatar]
      BY <1>2, <1>8, <3>1
    <3>6. (Top.rows \ {r}) \cup {r} = Top.rows
      BY <1>1
    <3>7. ListsOf(stack[i], Awaited(i))'
      BY <1>2, <1>9, <3>2, <3>3, <3>4, <3>5, <3>6 DEF ListsOf
    <3> QED BY <3>1, <3>7
  <2>3. CASE i \in 1..n /\ i # n
    <3>1. i + 1 \in 1..n /\ i < n /\ i < n + 1
      BY <1>2, <2>3
    <3>2. stack'[i] = stack[i]
      BY <1>4, <1>6, <2>3
    <3>3. Awaited(i)' = Awaited(i)
      BY <1>7, <1>10, <3>1 DEF Awaited
    <3>4. stack[i].avatar \in New /\ stack[i].avatar # r /\ stack[i].avatar \in Avatar
      BY <1>2, <1>8, <2>3
    <3>5. ListsOf(stack[i], Awaited(i))
      BY <1>7, <2>3 DEF WalkInv, StackInv
    <3>6. ListsOf(stack[i], Awaited(i))'
      BY <1>8, <1>9, <3>2, <3>3, <3>4, <3>5 DEF ListsOf
    <3> QED BY <1>8, <3>2, <3>4, <3>6
  <2> QED BY <1>2, <2>1, <2>2, <2>3
<1>14. StackInv'
  BY <1>6, <1>7, <1>13 DEF StackInv
<1>15. CallerInv'
  <2>1. cached \subseteq cached'
    BY <1>1 DEF EnterCache
  <2> QED BY <1>1, <1>6, <1>9, <2>1, CallerKept DEF WalkInv
<1>16. r \in Atomic!Fetch(Wanted)
  <2>1. r \in Contacts(Top.avatar)
    BY <1>1, <1>2 DEF ListsOf, Frame, Contacts
  <2>2. Top.avatar \in Atomic!Fetch(Wanted)
    BY <1>2 DEF WalkInv
  <2>3. r \in row /\ r \notin before.cached
    BY <1>1 DEF WalkInv, BeforeInv
  <2> QED BY <2>1, <2>2, <2>3, FetchLeads
<1>17. Wanted' = Wanted /\ Atomic!Fetch(Wanted)' = Atomic!Fetch(Wanted)
  BY <1>1, WantedFetchStays
<1> QED BY <1>8, <1>11, <1>12, <1>14, <1>15, <1>16, <1>17 DEF WalkInv

\* With no call in progress, the calls satisfy their invariant.
LEMMA NoCalls ==
    ASSUME stack = <<>>
    PROVE  Depth = 0 /\ StackInv /\ NoReentry
<1>1. Depth = 0 /\ stack \in Seq(Frame)
  BY DEF Depth
<1> QED BY <1>1 DEF StackInv, NoReentry

\* The same after a step.
LEMMA NoCallsNext ==
    ASSUME stack' = <<>>
    PROVE  Depth' = 0 /\ StackInv' /\ NoReentry'
<1>1. Depth' = 0 /\ stack' \in Seq(Frame)
  BY DEF Depth
<1> QED BY <1>1 DEF StackInv, NoReentry

\* The handler's GetAvatar finds a row: the first call is put on the stack.
LEMMA OpenFirstKeeps ==
    ASSUME WalkInv, NEW a \in Avatar, OpenFirst(a)
    PROVE  WalkInv'
<1>1. /\ looked < Len(caller) /\ stack = <<>> /\ a = caller[looked + 1]
      /\ looked = 1 => caller[1] \in row
      /\ a \in row \ cached /\ EnterCache(a)
      /\ stack' = <<Opened(a)>>
      /\ caller' = caller /\ looked' = looked /\ before' = before
      /\ UNCHANGED <<store, flag, online, result, history>>
  BY DEF OpenFirst, Asks
<1>2. /\ PointerInv' /\ BeforeInv'
      /\ New' = New \cup {a} /\ a \notin New
      /\ friends'[a] = {} /\ ignores'[a] = {}
      /\ \A c \in Avatar \ {a} : friends'[c] = friends[c] /\ ignores'[c] = ignores[c]
  BY <1>1, EnterCacheEffect DEF WalkInv
<1>3. dbFriend' = dbFriend /\ dbIgnore' = dbIgnore /\ row' = row
  BY <1>1 DEF store
<1>4. /\ stack' \in Seq(Frame) /\ Depth' = 1 /\ stack' # <<>>
      /\ stack'[1].avatar = a /\ stack'[1].list = "none" /\ stack'[1].rows = {}
  BY <1>1 DEF Opened, Frame, Depth
<1>5. NoReentry'
  BY <1>4 DEF NoReentry
<1>6. StackInv'
  <2>1. Awaited(1)' = {}
    BY <1>4 DEF Awaited
  <2>2. ListsOf(stack[1], Awaited(1))' /\ stack'[1].avatar \in New'
    BY <1>2, <1>4, <2>1 DEF ListsOf
  <2> QED BY <1>4, <2>2 DEF StackInv
<1>7. ReturnedComplete'
  <2>1. ASSUME NEW c \in New, c # a
        PROVE  friends'[c] = dbFriend[c] /\ ignores'[c] = dbIgnore[c]
    <3>1. Depth = 0 /\ c \in Avatar
      BY <1>1, NoCalls DEF WalkInv, New, PointerInv, TypeOK
    <3> QED BY <1>2, <2>1, <3>1 DEF WalkInv, ReturnedComplete, New
  <2> QED BY <1>2, <1>3, <1>4, <2>1 DEF ReturnedComplete, New
<1>8. CallerInv'
  <2>1. cached' = cached \cup {a}
    BY <1>1 DEF EnterCache
  <2>2. caller # <<>>
    BY <1>1 DEF WalkInv, CallerInv
  <2> QED BY <1>1, <1>3, <1>4, <2>1, <2>2 DEF WalkInv, CallerInv
<1>9. a \in Atomic!Fetch(Wanted)
  <2>1. a \in Wanted
    <3>1. looked + 1 \in {j \in 1..Len(caller) : j = 2 => caller[1] \in row}
      BY <1>1 DEF WalkInv, CallerInv
    <3> QED BY <1>1, <3>1 DEF Wanted
  <2>2. a \in row /\ a \notin before.cached
    BY <1>1 DEF WalkInv, BeforeInv
  <2> QED BY <2>1, <2>2, FetchLeads
<1>10. Wanted' = Wanted /\ Atomic!Fetch(Wanted)' = Atomic!Fetch(Wanted)
  BY <1>1, WantedFetchStays
<1> QED BY <1>2, <1>5, <1>6, <1>7, <1>8, <1>9, <1>10 DEF WalkInv

\* The handler's GetAvatar returns at once.
LEMMA AnsweredKeeps ==
    ASSUME WalkInv, NEW a \in Avatar, Answered(a)
    PROVE  WalkInv'
<1>1. /\ looked < Len(caller) /\ stack = <<>> /\ a = caller[looked + 1]
      /\ looked = 1 => caller[1] \in row
      /\ a \in cached \/ a \notin row
      /\ looked' = looked + 1
      /\ caller' = caller /\ stack' = stack /\ before' = before /\ UNCHANGED vars
  BY DEF Answered, Asks
<1>2. PointerInv' /\ BeforeInv' /\ New' = New
  BY <1>1, ObjectsKept DEF WalkInv
<1>3. NoReentry' /\ StackInv' /\ Depth' = 0 /\ Depth = 0
  BY <1>1, NoCalls, NoCallsNext
<1>4. ReturnedComplete'
  BY <1>1, <1>2, <1>3 DEF WalkInv, ReturnedComplete, New, vars
<1>5. CallerInv'
  <2>1. cached' = cached /\ row' = row /\ caller # <<>>
    BY <1>1 DEF vars, WalkInv, CallerInv
  <2> QED BY <1>1, <2>1 DEF WalkInv, CallerInv
<1>6. Wanted' = Wanted /\ Atomic!Fetch(Wanted)' = Atomic!Fetch(Wanted)
  BY <1>1, WantedFetchStays DEF vars, store
<1> QED BY <1>2, <1>3, <1>4, <1>5, <1>6 DEF WalkInv

\* The first call returns to the handler; its object is complete.
LEMMA ReturnToHandlerKeeps ==
    ASSUME WalkInv, ReturnToHandler
    PROVE  WalkInv'
<1>1. /\ stack # <<>> /\ Top.list = "ignore" /\ Top.rows = {} /\ Depth = 1
      /\ stack' = <<>> /\ looked' = looked + 1
      /\ caller' = caller /\ before' = before /\ UNCHANGED vars
  BY DEF ReturnToHandler, BothListsRead
<1>2. PointerInv' /\ BeforeInv' /\ New' = New
  BY <1>1, ObjectsKept DEF WalkInv
<1>3. NoReentry' /\ StackInv' /\ Depth' = 0
  BY <1>1, NoCallsNext
<1>4. ReturnedComplete'
  <2>1. ListsOf(Top, {}) /\ Top = stack[1]
    BY <1>1, TopOfStack DEF Top
  <2>2. ASSUME NEW a \in New
        PROVE  friends[a] = dbFriend[a] /\ ignores[a] = dbIgnore[a]
    <3>1. CASE a = Top.avatar
      BY <1>1, <2>1, <3>1 DEF ListsOf
    <3>2. CASE a # Top.avatar
      BY <1>1, <2>1, <3>2 DEF WalkInv, ReturnedComplete, New
    <3> QED BY <3>1, <3>2
  <2> QED BY <1>1, <1>2, <2>2 DEF ReturnedComplete, New, vars
<1>5. CallerInv'
  <2>1. cached' = cached /\ row' = row /\ caller # <<>>
    BY <1>1 DEF vars, WalkInv, CallerInv
  <2> QED BY <1>1, <2>1 DEF WalkInv, CallerInv
<1>6. Wanted' = Wanted /\ Atomic!Fetch(Wanted)' = Atomic!Fetch(Wanted)
  BY <1>1, WantedFetchStays DEF vars, store
<1> QED BY <1>2, <1>3, <1>4, <1>5, <1>6 DEF WalkInv

\* Between handlers there is nothing new.
LEMMA NothingNew ==
    ASSUME before = Snapshot
    PROVE  New = {} /\ ReturnedComplete
<1>1. before.cached = cached
  BY DEF Snapshot
<1> QED BY <1>1 DEF New, ReturnedComplete

\* A handler begins.
LEMMA BeginKeeps ==
    ASSUME WalkInv, NEW c \in Seq(Avatar), c # <<>>, Len(c) <= 2, Begin(c)
    PROVE  WalkInv'
<1>1. /\ caller = <<>> /\ caller' = c /\ looked' = looked /\ stack' = stack
      /\ before' = before /\ UNCHANGED vars
  BY DEF Begin
<1>2. stack = <<>> /\ before = Snapshot /\ looked = 0
  BY <1>1 DEF WalkInv, CallerInv
<1>3. PointerInv' /\ BeforeInv' /\ New' = New
  BY <1>1, ObjectsKept DEF WalkInv
<1>4. NoReentry' /\ StackInv' /\ Depth' = 0
  BY <1>1, <1>2, NoCallsNext
<1>5. New' = {} /\ ReturnedComplete'
  <2>1. New = {}
    BY <1>2, NothingNew
  <2> QED BY <1>3, <2>1 DEF ReturnedComplete, New
<1>6. CallerInv'
  <2>1. caller' # <<>> /\ stack' = <<>> /\ looked' = 0
    BY <1>1, <1>2
  <2>2. looked' \in 0..Len(caller') /\ Len(caller') <= 2 /\ caller' \in Seq(Avatar)
    <3>1. caller' = c
      BY <1>1
    <3>2. Len(c) \in Nat /\ Len(c) <= 2
      OBVIOUS
    <3>3. looked' \in Nat /\ looked' <= Len(c)
      BY <2>1, <3>2
    <3> QED BY <3>1, <3>2, <3>3
  <2>3. \A i \in 1..looked' : FALSE
    BY <2>1
  <2> QED BY <1>1, <2>1, <2>2, <2>3 DEF CallerInv
<1> QED BY <1>3, <1>4, <1>5, <1>6 DEF WalkInv

(***************************************************************************)
(* The ends of a handler                                                   *)
(***************************************************************************)

\* When a handler is over, what is left to show is that the pointers are good.
LEMMA OverKeeps ==
    ASSUME PointerInv', HandlerOver
    PROVE  WalkInv'
<1>1. caller' = <<>> /\ looked' = 0 /\ stack' = <<>> /\ before' = Snapshot'
  BY DEF HandlerOver
<1>2. NoReentry' /\ StackInv' /\ Depth' = 0
  BY <1>1, NoCallsNext
<1>3. before'.cached = cached' /\ New' = {}
  BY <1>1 DEF Snapshot, New
<1>4. ReturnedComplete'
  BY <1>3 DEF ReturnedComplete, New
<1>5. BeforeInv'
  BY <1>1, <1>3 DEF Snapshot, BeforeInv, PointerInv, TypeOK
<1>6. CallerInv'
  <2>1. \A i \in 1..looked' : FALSE
    BY <1>1
  <2> QED BY <1>1, <2>1 DEF CallerInv
<1> QED BY <1>2, <1>3, <1>4, <1>5, <1>6 DEF WalkInv

\* A SELECT throws: the objects stay as the unfinished walk leaves them.
LEMMA SelectFailsKeeps ==
    ASSUME WalkInv, SelectFails
    PROVE  WalkInv'
<1>1. /\ MayFail /\ dirty' = dirty \cup (New \X Avatar)
      /\ result' = Database /\ faults' = faults + 1
      /\ UNCHANGED <<store, memory, transient>> /\ HandlerOver
  BY DEF SelectFails, New
<1>2. PointerInv /\ New \subseteq Avatar
  BY DEF WalkInv, New, PointerInv, TypeOK
<1>3. TypeOK'
  <2>1. dirty' \subseteq Avatar \X Avatar /\ result' \in ResultCode
    BY <1>1, <1>2 DEF PointerInv, TypeOK, ResultCode
  <2>2. faults' \in 0..MaxFaults
    BY <1>1, <1>2, AvatarsAssumption DEF PointerInv, TypeOK, MayFail
  <2> QED BY <1>1, <1>2, <2>1, <2>2 DEF PointerInv, TypeOK, store, memory
<1>4. PointerInv'
  BY <1>1, <1>2, <1>3 DEF PointerInv, StoreClosed, Contacts, OutsideEmpty, ContactsCached,
     OnlineAgree, store, memory
<1> QED BY <1>1, <1>4, OverKeeps

\* What a handler does after its lookups is a step of Avatars.
LEMMA FinishIsHandler ==
    ASSUME CallerInv, Finish
    PROVE  Next
<1>1. /\ Len(caller) = 1 \/ Len(caller) = 2
      /\ caller[1] \in Avatar
      /\ Len(caller) = 2 => caller[2] \in Avatar
  <2>1. caller # <<>> /\ caller \in Seq(Avatar) /\ Len(caller) <= 2
    BY DEF Finish, LookupsDone, CallerInv
  <2>2. Len(caller) \in Nat /\ Len(caller) # 0
    BY <2>1
  <2> DEFINE n == Len(caller)
  <2>3. n \in Nat /\ n # 0 /\ n <= 2
    BY <2>1, <2>2
  <2> HIDE DEF n
  <2>4. n = 1 \/ n = 2
    BY <2>3
  <2>5. Len(caller) = 1 \/ Len(caller) = 2
    BY <2>4 DEF n
  <2> QED BY <2>1, <2>5
<1>2. CASE Len(caller) = 1
  BY <1>1, <1>2 DEF Finish, Next
<1>3. CASE Len(caller) = 2
  <2>1. ContactHandler(caller[1], caller[2])
    BY <1>3 DEF Finish
  <2>2. SessionStep(caller[1]) \/ ContactStep(caller[1], caller[2])
    BY <2>1 DEF ContactHandler, SessionStep, ContactStep
  <2> QED BY <1>1, <1>3, <2>2 DEF Next
<1> QED BY <1>1, <1>2, <1>3

\* Every step keeps the invariant.
LEMMA WalkInvNext == WalkInv /\ [LoadNext]_loadVars => WalkInv'
<1> SUFFICES ASSUME WalkInv, [LoadNext]_loadVars PROVE WalkInv'
  OBVIOUS
<1>1. ASSUME NEW a \in Avatar, Begin(<<a>>) PROVE WalkInv'
  <2>1. <<a>> \in Seq(Avatar) /\ <<a>> # <<>> /\ Len(<<a>>) <= 2
    OBVIOUS
  <2> QED BY <1>1, <2>1, BeginKeeps
<1>2. ASSUME NEW a \in Avatar, NEW b \in Avatar, Begin(<<a, b>>) PROVE WalkInv'
  <2>1. <<a, b>> \in Seq(Avatar) /\ <<a, b>> # <<>> /\ Len(<<a, b>>) <= 2
    OBVIOUS
  <2> QED BY <1>2, <2>1, BeginKeeps
<1>3. CASE WalkStep
  BY <1>3, AnsweredKeeps, OpenFirstKeeps, ReadFriendsKeeps, ReadIgnoresKeeps,
     ReadCachedRowKeeps, OpenRowKeeps, ReturnToListKeeps, ReturnToHandlerKeeps DEF WalkStep
<1>4. CASE SelectFails
  BY <1>4, SelectFailsKeeps
<1>5. CASE Finish
  <2>1. Next /\ PointerInv /\ HandlerOver
    BY <1>5, FinishIsHandler DEF WalkInv, Finish
  <2>2. PointerInv'
    BY <2>1, PointerInvNext
  <2> QED BY <2>1, <2>2, OverKeeps
<1>6. CASE CrashInLoad
  <2>1. Next /\ PointerInv /\ HandlerOver
    BY <1>6 DEF WalkInv, CrashInLoad, Next
  <2>2. PointerInv'
    BY <2>1, PointerInvNext
  <2> QED BY <2>1, <2>2, OverKeeps
<1>7. CASE UNCHANGED loadVars
  <2>1. UNCHANGED vars /\ caller' = caller /\ looked' = looked /\ stack' = stack
          /\ before' = before
    BY <1>7 DEF loadVars, walk
  <2>2. PointerInv' /\ BeforeInv' /\ New' = New
    BY <2>1, ObjectsKept DEF WalkInv
  <2>3. NoReentry' /\ ReturnedComplete'
    BY <2>1 DEF WalkInv, vars, NoReentry, ReturnedComplete, Depth
  <2>4. StackInv'
    BY <2>1, <2>2 DEF WalkInv, vars, StackInv, ListsOf, Awaited, Depth
  <2>5. CallerInv'
    BY <2>1 DEF WalkInv, vars, CallerInv, Snapshot
  <2>6. Wanted' = Wanted /\ Atomic!Fetch(Wanted)' = Atomic!Fetch(Wanted)
    BY <2>1, WantedFetchStays DEF vars, store
  <2> QED BY <2>2, <2>3, <2>4, <2>5, <2>6 DEF WalkInv
<1> QED BY <1>1, <1>2, <1>3, <1>4, <1>5, <1>6, <1>7 DEF LoadNext

\* It holds at the start.
LEMMA WalkInvInit == LoadInit => WalkInv
<1> SUFFICES ASSUME LoadInit PROVE WalkInv
  OBVIOUS
<1>1. /\ PointerInv /\ caller = <<>> /\ looked = 0 /\ stack = <<>> /\ before = Snapshot
  BY PointerInvInit DEF LoadInit
<1>2. NoReentry /\ StackInv /\ New = {} /\ ReturnedComplete
  BY <1>1, NoCalls, NothingNew
<1>3. BeforeInv
  BY <1>1, <1>2 DEF Snapshot, BeforeInv, PointerInv, TypeOK
<1>4. CallerInv
  <2>1. \A i \in 1..looked : FALSE
    BY <1>1
  <2> QED BY <1>1, <2>1 DEF CallerInv
<1> QED BY <1>1, <1>2, <1>3, <1>4 DEF WalkInv

\* The walk keeps its invariant in every reachable state.
THEOREM WalkInvariant == LoadSpec => []WalkInv
  BY WalkInvInit, WalkInvNext, PTL DEF LoadSpec

\* GetAvatar is never entered for an avatar whose call is in progress, whatever
\* cycles the stored lists contain (GetAvatar, LoadFriendList, LoadIgnoreList).
THEOREM NeverReentered == LoadSpec => []NoReentry
<1>1. WalkInv => NoReentry
  BY DEF WalkInv
<1> QED BY <1>1, WalkInvariant, PTL

\* A call of GetAvatar that has returned leaves its object complete, although
\* the calls around it are not.
THEOREM ReturnedAlwaysComplete == LoadSpec => []ReturnedComplete
<1>1. WalkInv => ReturnedComplete
  BY DEF WalkInv
<1> QED BY <1>1, WalkInvariant, PTL

\* The raw pointers are good in the middle of a walk as well, and when it is
\* unwound by an exception.
THEOREM PointersSafeInWalk == LoadSpec => []ContactsCached
<1>1. WalkInv => ContactsCached
  BY DEF WalkInv, PointerInv
<1> QED BY <1>1, WalkInvariant, PTL

(***************************************************************************)
(* Refinement                                                              *)
(***************************************************************************)

\* What is loaded depends on the rows that are asked for only.
LEMMA FetchOfRows ==
    ASSUME NEW X, NEW Y, X \cap row = Y \cap row
    PROVE  Fetch(X) = Fetch(Y) /\ Atomic!Fetch(X) = Atomic!Fetch(Y)
<1>1. \A S : LoadClosed(S, X) <=> LoadClosed(S, Y)
  BY DEF LoadClosed
<1>2. \A S : Atomic!LoadClosed(S, X) <=> Atomic!LoadClosed(S, Y)
  BY DEF Atomic!LoadClosed
<1> QED BY <1>1, <1>2 DEF Fetch, Atomic!Fetch

\* When the lookups are done, the new objects are what Avatars says they load,
\* and nothing is left to load.
LEMMA LookupsLoad ==
    ASSUME WalkInv, LookupsDone
    PROVE  Atomic!Fetch(Wanted) = New /\ Fetch(Wanted) = {}
<1>1. /\ stack = <<>> /\ caller \in Seq(Avatar) /\ Len(caller) \in Nat /\ looked \in 0..Len(caller)
      /\ Len(caller) <= 2
      /\ looked = Len(caller) \/ (looked = 1 /\ caller[1] \notin row)
      /\ \A i \in 1..looked : caller[i] \in cached \/ caller[i] \notin row
  BY DEF LookupsDone, WalkInv, CallerInv
<1>2. Wanted \cap row \subseteq cached
  <2> SUFFICES ASSUME NEW i \in 1..Len(caller), i = 2 => caller[1] \in row, caller[i] \in row
               PROVE  caller[i] \in cached
    BY DEF Wanted
  <2>1. i \in 1..looked
    <3> DEFINE n == Len(caller)
    <3>1. n \in Nat /\ n <= 2 /\ i \in 1..n /\ (looked = n \/ (looked = 1 /\ i # 2))
      BY <1>1
    <3> HIDE DEF n
    <3> QED BY <3>1
  <2> QED BY <1>1, <2>1
<1>3. \A a \in New : friends[a] = dbFriend[a] /\ ignores[a] = dbIgnore[a]
  <2>1. Depth = 0
    BY <1>1, NoCalls
  <2> QED BY <2>1 DEF WalkInv, ReturnedComplete, New
<1>4. \A a \in New : Contacts(a) \subseteq cached
  BY <1>3 DEF Contacts, New, WalkInv, PointerInv, ContactsCached
<1>5. New \subseteq row \ before.cached
  BY DEF New, WalkInv, PointerInv, TypeOK
<1>6. Atomic!LoadClosed(New, Wanted)
  BY <1>2, <1>4 DEF Atomic!LoadClosed, Atomic!Contacts, Contacts, New
<1>7. Atomic!Fetch(Wanted) = New
  BY <1>5, <1>6 DEF Atomic!Fetch, WalkInv
<1>8. LoadClosed({}, Wanted)
  BY <1>2 DEF LoadClosed
<1> QED BY <1>7, <1>8 DEF Fetch

\* So a handler that looks at what it has loaded sees what Avatars says.
LEMMA LoadsAgree ==
    ASSUME WalkInv, LookupsDone, NEW X, X \cap row = Wanted \cap row
    PROVE  /\ cached \cup Fetch(X) = before.cached \cup Atomic!Fetch(X)
           /\ FriendsAfter(X) = Atomic!FriendsAfter(X)
           /\ IgnoresAfter(X) = Atomic!IgnoresAfter(X)
           /\ AttrAfter(X) = Atomic!AttrAfter(X)
<1>1. Fetch(X) = {} /\ Atomic!Fetch(X) = New
  BY LookupsLoad, FetchOfRows
<1>2. /\ before.cached \subseteq cached /\ New = cached \ before.cached
      /\ \A a \in New : a \in Avatar /\ attr[a] = dbAttr[a]
      /\ \A a \in Avatar \ New : /\ friends[a] = before.friends[a]
                                 /\ ignores[a] = before.ignores[a]
                                 /\ attr[a] = before.attr[a]
  BY DEF WalkInv, BeforeInv, New, PointerInv, TypeOK
<1>3. \A a \in New : friends[a] = dbFriend[a] /\ ignores[a] = dbIgnore[a]
  <2>1. Depth = 0
    BY NoCalls DEF LookupsDone
  <2> QED BY <2>1 DEF WalkInv, ReturnedComplete, New
<1> QED BY <1>1, <1>2, <1>3 DEF FriendsAfter, IgnoresAfter, AttrAfter,
           Atomic!FriendsAfter, Atomic!IgnoresAfter, Atomic!AttrAfter

\* The outcomes of statements are the same in both.
LEMMA SameOutcomes ==
    /\ \A list, old, b : Atomic!DropRow(list, old, b) = DropRow(list, old, b)
    /\ \A goOn, old, b : Atomic!StoreRow(goOn, old, b) = StoreRow(goOn, old, b)
    /\ \A p, old, t : Atomic!StoreAttributes(p, old, t) = StoreAttributes(p, old, t)
    /\ \A old, b, m : Atomic!Insert(old, b, m) = Insert(old, b, m)
    /\ \A ok : Atomic!Answer(ok) = Answer(ok)
    /\ Atomic!MayFail = MayFail
<1> USE DEF Atomic!Insert, Insert, Atomic!Delete, Delete, Atomic!Execute, Execute, Atomic!Ran, Ran,
        Atomic!Refused, Refused, Atomic!NotRun, NotRun, Atomic!NotNeeded, NotNeeded,
        Atomic!MayFail, MayFail
<1>1. \A list, old, b : Atomic!DropRow(list, old, b) = DropRow(list, old, b)
  BY DEF Atomic!DropRow, DropRow
<1>2. \A goOn, old, b : Atomic!StoreRow(goOn, old, b) = StoreRow(goOn, old, b)
  BY DEF Atomic!StoreRow, StoreRow
<1>3. \A p, old, t : Atomic!StoreAttributes(p, old, t) = StoreAttributes(p, old, t)
  BY DEF Atomic!StoreAttributes, StoreAttributes
<1>4. \A old, b, m : Atomic!Insert(old, b, m) = Insert(old, b, m)
  OBVIOUS
<1>5. \A ok : Atomic!Answer(ok) = Answer(ok)
  BY DEF Atomic!Answer, Answer, Atomic!Success, Success, Atomic!Database, Database
<1> QED BY <1>1, <1>2, <1>3, <1>4, <1>5

\* A handler that loads X, has seen what it loads, and is over when it ends.
Loaded(X) ==
    /\ cached \cup Fetch(X) = before.cached \cup Atomic!Fetch(X)
    /\ FriendsAfter(X) = Atomic!FriendsAfter(X)
    /\ IgnoresAfter(X) = Atomic!IgnoresAfter(X)
    /\ AttrAfter(X) = Atomic!AttrAfter(X)
    /\ before' = Snapshot'

\* What the end of a handler leaves is what it left before.
LEMMA OverLeaves ==
    ASSUME before' = Snapshot'
    PROVE  /\ before'.cached = cached' /\ before'.friends = friends'
           /\ before'.ignores = ignores' /\ before'.attr = attr'
BY DEF Snapshot

\* The handlers of one avatar that is loaded.
LEMMA SessionRefines ==
    ASSUME NEW a \in Avatar, Loaded({a})
    PROVE  /\ LoginKnown(a) => Atomic!LoginKnown(a)
           /\ LogoutAvatar(a) => Atomic!LogoutAvatar(a)
           /\ GetAnyAvatar(a) => Atomic!GetAnyAvatar(a)
           /\ \A t \in Attribute, p \in BOOLEAN :
                 SetAvatarAttributes(a, t, p) => Atomic!SetAvatarAttributes(a, t, p)
<1> USE OverLeaves, SameOutcomes DEF Loaded
<1>1. GetAvatar({a}) => Atomic!GetAvatar({a})
  BY DEF GetAvatar, Atomic!GetAvatar
<1>2. LoginKnown(a) => Atomic!LoginKnown(a)
  BY <1>1 DEF LoginKnown, Atomic!LoginKnown, GoOnline, Atomic!GoOnline, Success, Atomic!Success,
     store, Atomic!store, history, Atomic!history
<1>3. LogoutAvatar(a) => Atomic!LogoutAvatar(a)
  BY <1>1 DEF LogoutAvatar, Atomic!LogoutAvatar, GoOffline, Atomic!GoOffline, Success,
     Atomic!Success, store, Atomic!store, history, Atomic!history
<1>4. GetAnyAvatar(a) => Atomic!GetAnyAvatar(a)
  BY <1>1 DEF GetAnyAvatar, Atomic!GetAnyAvatar, Success, Atomic!Success, store, Atomic!store,
     history, Atomic!history
<1>5. ASSUME NEW t \in Attribute, NEW p \in BOOLEAN, SetAvatarAttributes(a, t, p)
      PROVE  Atomic!SetAvatarAttributes(a, t, p)
  BY <1>5 DEF SetAvatarAttributes, Atomic!SetAvatarAttributes, Success, Atomic!Success
<1> QED BY <1>2, <1>3, <1>4, <1>5

\* The handlers of two avatars that are loaded.
LEMMA ContactRefines ==
    ASSUME NEW a \in Avatar, NEW b \in Avatar, Loaded({a, b})
    PROVE  /\ AddFriend(a, b) => Atomic!AddFriend(a, b)
           /\ AddIgnore(a, b) => Atomic!AddIgnore(a, b)
           /\ RemoveFriend(a, b) => Atomic!RemoveFriend(a, b)
           /\ RemoveIgnore(a, b) => Atomic!RemoveIgnore(a, b)
<1> USE OverLeaves, SameOutcomes DEF Loaded, Success, Atomic!Success
<1>1. ASSUME AddFriend(a, b) PROVE Atomic!AddFriend(a, b)
  <2> DEFINE F == FriendsAfter({a, b})
             I == IgnoresAfter({a, b})
  <2>1. CASE b \in F[a]
    BY <1>1, <2>1 DEF AddFriend, Atomic!AddFriend
  <2>2. CASE ~(b \in F[a])
    <3>1. PICK del \in DropRow(I[a], dbIgnore[a], b) :
          \E ins \in StoreRow(del.ok, dbFriend[a], b) :
            /\ ignores' = [I EXCEPT ![a] = @ \ {b}]
            /\ friends' = IF del.ok THEN [F EXCEPT ![a] = @ \cup {b}] ELSE F
            /\ dbIgnore' = [dbIgnore EXCEPT ![a] = del.db]
            /\ dbFriend' = [dbFriend EXCEPT ![a] = ins.db]
            /\ result' = Answer(ins.ok)
            /\ dirty' = IF ins.ok THEN dirty ELSE dirty \cup {<<a, b>>}
            /\ faults' = faults + del.fault + ins.fault
      BY <1>1, <2>2 DEF AddFriend
    <3>2. PICK ins \in StoreRow(del.ok, dbFriend[a], b) :
            /\ ignores' = [I EXCEPT ![a] = @ \ {b}]
            /\ friends' = IF del.ok THEN [F EXCEPT ![a] = @ \cup {b}] ELSE F
            /\ dbIgnore' = [dbIgnore EXCEPT ![a] = del.db]
            /\ dbFriend' = [dbFriend EXCEPT ![a] = ins.db]
            /\ result' = Answer(ins.ok)
            /\ dirty' = IF ins.ok THEN dirty ELSE dirty \cup {<<a, b>>}
            /\ faults' = faults + del.fault + ins.fault
      BY <3>1
    <3>3. F = Atomic!FriendsAfter({a, b}) /\ I = Atomic!IgnoresAfter({a, b})
      OBVIOUS
    <3>4. /\ {a, b} \subseteq row
          /\ cached' = before.cached \cup Atomic!Fetch({a, b})
          /\ attr' = Atomic!AttrAfter({a, b})
          /\ UNCHANGED <<row, dbAttr, flag, online, transient>>
      BY <1>1 DEF AddFriend
    <3> HIDE DEF F, I
    <3>5. del \in Atomic!DropRow(I[a], dbIgnore[a], b) /\ ins \in Atomic!StoreRow(del.ok, dbFriend[a], b)
      OBVIOUS
    <3>6. Atomic!Answer(ins.ok) = Answer(ins.ok)
      OBVIOUS
    <3> QED BY <2>2, <3>2, <3>3, <3>4, <3>5, <3>6 DEF Atomic!AddFriend
  <2> QED BY <2>1, <2>2
<1>2. ASSUME AddIgnore(a, b) PROVE Atomic!AddIgnore(a, b)
  <2> DEFINE F == FriendsAfter({a, b})
             I == IgnoresAfter({a, b})
  <2>1. CASE b \in I[a]
    BY <1>2, <2>1 DEF AddIgnore, Atomic!AddIgnore
  <2>2. CASE ~(b \in I[a])
    <3>1. PICK del \in DropRow(F[a], dbFriend[a], b) :
          \E ins \in StoreRow(del.ok, dbIgnore[a], b) :
            /\ friends' = [F EXCEPT ![a] = @ \ {b}]
            /\ ignores' = IF del.ok THEN [I EXCEPT ![a] = @ \cup {b}] ELSE I
            /\ dbFriend' = [dbFriend EXCEPT ![a] = del.db]
            /\ dbIgnore' = [dbIgnore EXCEPT ![a] = ins.db]
            /\ result' = Answer(ins.ok)
            /\ dirty' = IF ins.ok THEN dirty ELSE dirty \cup {<<a, b>>}
            /\ faults' = faults + del.fault + ins.fault
      BY <1>2, <2>2 DEF AddIgnore
    <3>2. PICK ins \in StoreRow(del.ok, dbIgnore[a], b) :
            /\ friends' = [F EXCEPT ![a] = @ \ {b}]
            /\ ignores' = IF del.ok THEN [I EXCEPT ![a] = @ \cup {b}] ELSE I
            /\ dbFriend' = [dbFriend EXCEPT ![a] = del.db]
            /\ dbIgnore' = [dbIgnore EXCEPT ![a] = ins.db]
            /\ result' = Answer(ins.ok)
            /\ dirty' = IF ins.ok THEN dirty ELSE dirty \cup {<<a, b>>}
            /\ faults' = faults + del.fault + ins.fault
      BY <3>1
    <3>3. F = Atomic!FriendsAfter({a, b}) /\ I = Atomic!IgnoresAfter({a, b})
      OBVIOUS
    <3>4. /\ {a, b} \subseteq row
          /\ cached' = before.cached \cup Atomic!Fetch({a, b})
          /\ attr' = Atomic!AttrAfter({a, b})
          /\ UNCHANGED <<row, dbAttr, flag, online, transient>>
      BY <1>2 DEF AddIgnore
    <3> HIDE DEF F, I
    <3>5. del \in Atomic!DropRow(F[a], dbFriend[a], b) /\ ins \in Atomic!StoreRow(del.ok, dbIgnore[a], b)
      OBVIOUS
    <3>6. Atomic!Answer(ins.ok) = Answer(ins.ok)
      OBVIOUS
    <3> QED BY <2>2, <3>2, <3>3, <3>4, <3>5, <3>6 DEF Atomic!AddIgnore
  <2> QED BY <2>1, <2>2
<1>3. RemoveFriend(a, b) => Atomic!RemoveFriend(a, b)
  BY DEF RemoveFriend, Atomic!RemoveFriend
<1>4. RemoveIgnore(a, b) => Atomic!RemoveIgnore(a, b)
  BY DEF RemoveIgnore, Atomic!RemoveIgnore
<1> QED BY <1>1, <1>2, <1>3, <1>4

\* The handlers that find no destination.
LEMMA NoDestinationRefines ==
    ASSUME NEW a \in Avatar, NEW b \in Avatar, Loaded({a})
    PROVE  /\ NoDestination(a, b) => Atomic!NoDestination(a, b)
           /\ RemoveIgnoreNoDestination(a, b) => Atomic!RemoveIgnoreNoDestination(a, b)
<1> USE OverLeaves DEF Loaded, store, Atomic!store, history, Atomic!history
<1>1. GetAvatar({a}) => Atomic!GetAvatar({a})
  BY DEF GetAvatar, Atomic!GetAvatar
<1>2. NoDestination(a, b) => Atomic!NoDestination(a, b)
  BY <1>1 DEF NoDestination, Atomic!NoDestination, DestDoesntExist, Atomic!DestDoesntExist
<1>3. RemoveIgnoreNoDestination(a, b) => Atomic!RemoveIgnoreNoDestination(a, b)
  BY <1>1 DEF RemoveIgnoreNoDestination, Atomic!RemoveIgnoreNoDestination, Success, Atomic!Success
<1> QED BY <1>2, <1>3

\* Nothing has been loaded.
Untouched ==
    /\ cached = before.cached /\ friends = before.friends
    /\ ignores = before.ignores /\ attr = before.attr

\* The handlers of an avatar without a row.
LEMMA NoRowRefines ==
    ASSUME NEW a \in Avatar, Untouched, before' = Snapshot'
    PROVE  /\ NoSource(a) => Atomic!NoSource(a)
           /\ \A t \in Attribute : LoginNew(a, t) => Atomic!LoginNew(a, t)
<1> USE OverLeaves, SameOutcomes DEF Untouched
<1>1. NoSource(a) => Atomic!NoSource(a)
  BY DEF NoSource, Atomic!NoSource, SrcDoesntExist, Atomic!SrcDoesntExist, store, Atomic!store,
     memory, Atomic!memory, history, Atomic!history
<1>2. ASSUME NEW t \in Attribute, LoginNew(a, t) PROVE Atomic!LoginNew(a, t)
  <2>1. PICK ins \in Insert(row, a, MayFail) :
          /\ row' = ins.db
          /\ dbAttr' = IF a \in ins.db THEN [dbAttr EXCEPT ![a] = t] ELSE dbAttr
          /\ faults' = faults + ins.fault
          /\ result' = Answer(ins.ok)
          /\ IF ins.ok
             THEN /\ cached' = cached \cup {a}
                  /\ attr' = [attr EXCEPT ![a] = t]
                  /\ GoOnline(a)
             ELSE UNCHANGED <<cached, attr, flag, online>>
    BY <1>2 DEF LoginNew
  <2>2. ins \in Atomic!Insert(row, a, Atomic!MayFail) /\ Atomic!Answer(ins.ok) = Answer(ins.ok)
    OBVIOUS
  <2>3. a \notin row /\ UNCHANGED <<dbFriend, dbIgnore, friends, ignores, dirty, transient>>
    BY <1>2 DEF LoginNew
  <2> QED BY <2>1, <2>2, <2>3 DEF Atomic!LoginNew, GoOnline, Atomic!GoOnline
<1> QED BY <1>1, <1>2

\* When the lookups are done, the avatars of the handler are loaded; without a
\* source nothing was loaded.
LEMMA LookupsDoneLoaded ==
    ASSUME WalkInv, LookupsDone, HandlerOver
    PROVE  /\ caller[1] \in Avatar
           /\ Len(caller) = 1 => Loaded({caller[1]})
           /\ Len(caller) # 1 => caller[2] \in Avatar
           /\ Len(caller) # 1 /\ caller[1] \in row => Loaded({caller[1], caller[2]})
           /\ Len(caller) # 1 /\ caller[1] \in row /\ caller[2] \notin row => Loaded({caller[1]})
           /\ caller[1] \notin row => Untouched
<1> DEFINE n == Len(caller)
<1>1. caller \in Seq(Avatar) /\ n \in Nat /\ n # 0 /\ n <= 2 /\ before' = Snapshot'
  BY DEF LookupsDone, WalkInv, CallerInv, HandlerOver
<1>2. Wanted = {caller[i] : i \in {j \in 1..n : j = 2 => caller[1] \in row}}
  BY DEF Wanted
<1>3. caller[1] \in Avatar /\ (n # 1 => caller[2] \in Avatar)
  <2>1. 1 \in 1..n /\ (n # 1 => 2 \in 1..n)
    <3> HIDE DEF n
    <3> QED BY <1>1
  <2> QED BY <1>1, <2>1
<1> HIDE DEF n
<1>4. ASSUME NEW X, X \cap row = Wanted \cap row PROVE Loaded(X)
  BY <1>1, <1>4, LoadsAgree DEF Loaded
<1>5. ASSUME n = 1 PROVE Loaded({caller[1]})
  <2>1. Wanted = {caller[1]}
    BY <1>2, <1>5
  <2> QED BY <1>4, <2>1
<1>6. ASSUME n # 1, caller[1] \in row
      PROVE  /\ Loaded({caller[1], caller[2]})
             /\ caller[2] \notin row => Loaded({caller[1]})
  <2>1. n = 2
    BY <1>1, <1>6
  <2>2. Wanted = {caller[1], caller[2]}
    BY <1>2, <1>6, <2>1
  <2>3. Loaded({caller[1], caller[2]})
    BY <1>4, <2>2
  <2>4. caller[2] \notin row => Loaded({caller[1]})
    <3>1. caller[2] \notin row => {caller[1]} \cap row = Wanted \cap row
      BY <2>2
    <3> QED BY <1>4, <3>1
  <2> QED BY <2>3, <2>4
<1>7. ASSUME caller[1] \notin row PROVE Untouched
  <2>1. Wanted \subseteq {caller[1]}
    <3>1. \A j \in 1..n : (j = 2 => caller[1] \in row) => j = 1
      BY <1>1, <1>7
    <3> QED BY <1>2, <3>1
  <2>2. Atomic!LoadClosed({}, Wanted)
    BY <1>7, <2>1 DEF Atomic!LoadClosed
  <2>3. Atomic!Fetch(Wanted) = {}
    BY <2>2 DEF Atomic!Fetch
  <2>4. New = {}
    BY <2>3 DEF WalkInv
  <2>5. cached = before.cached
    BY <2>4 DEF New, WalkInv, BeforeInv
  <2>6. friends = before.friends /\ ignores = before.ignores /\ attr = before.attr
    BY <2>4 DEF WalkInv, BeforeInv, PointerInv, TypeOK
  <2> QED BY <2>5, <2>6 DEF Untouched
<1> QED BY <1>3, <1>5, <1>6, <1>7 DEF n

\* A handler and its lookups are one step of Avatars.
LEMMA FinishRefines ==
    ASSUME WalkInv, Finish
    PROVE  Atomic!Next
<1> DEFINE a == caller[1]
           b == caller[2]
<1>1. /\ LookupsDone /\ HandlerOver /\ before' = Snapshot'
      /\ IF Len(caller) = 1 THEN SessionStep(a) ELSE ContactHandler(a, b)
  BY DEF Finish, HandlerOver
<1>2. /\ a \in Avatar
      /\ Len(caller) = 1 => Loaded({a})
      /\ Len(caller) # 1 => b \in Avatar
      /\ Len(caller) # 1 /\ a \in row => Loaded({a, b})
      /\ Len(caller) # 1 /\ a \in row /\ b \notin row => Loaded({a})
      /\ a \notin row => Untouched
  BY <1>1, LookupsDoneLoaded
<1> HIDE DEF a, b
<1>3. CASE Len(caller) = 1
  <2>1. SessionStep(a) /\ Loaded({a})
    BY <1>1, <1>2, <1>3
  <2>2. CASE NoSource(a) \/ \E t \in Attribute : LoginNew(a, t)
    <3>1. a \notin row
      BY <2>2 DEF NoSource, LoginNew
    <3>2. Atomic!NoSource(a) \/ \E t \in Attribute : Atomic!LoginNew(a, t)
      BY <1>1, <1>2, <2>2, <3>1, NoRowRefines
    <3> QED BY <1>2, <3>2 DEF Atomic!Next, Atomic!SessionStep
  <2>3. CASE LoginKnown(a) \/ LogoutAvatar(a) \/ GetAnyAvatar(a)
               \/ \E t \in Attribute, p \in BOOLEAN : SetAvatarAttributes(a, t, p)
    <3>1. Atomic!LoginKnown(a) \/ Atomic!LogoutAvatar(a) \/ Atomic!GetAnyAvatar(a)
            \/ \E t \in Attribute, p \in BOOLEAN : Atomic!SetAvatarAttributes(a, t, p)
      BY <1>2, <2>1, <2>3, SessionRefines
    <3> QED BY <1>2, <3>1 DEF Atomic!Next, Atomic!SessionStep
  <2> QED BY <2>1, <2>2, <2>3 DEF SessionStep
<1>4. CASE Len(caller) # 1
  <2>1. ContactHandler(a, b) /\ b \in Avatar
    BY <1>1, <1>2, <1>4
  <2>2. CASE NoSource(a)
    <3>1. Atomic!NoSource(a)
      BY <1>1, <1>2, <2>2, NoRowRefines DEF NoSource
    <3> QED BY <1>2, <3>1 DEF Atomic!Next, Atomic!SessionStep
  <2>3. CASE AddFriend(a, b) \/ AddIgnore(a, b) \/ RemoveFriend(a, b) \/ RemoveIgnore(a, b)
    <3>1. Loaded({a, b})
      BY <1>2, <1>4, <2>3 DEF AddFriend, AddIgnore, RemoveFriend, RemoveIgnore
    <3>2. Atomic!AddFriend(a, b) \/ Atomic!AddIgnore(a, b) \/ Atomic!RemoveFriend(a, b)
            \/ Atomic!RemoveIgnore(a, b)
      BY <1>2, <2>1, <2>3, <3>1, ContactRefines
    <3> QED BY <1>2, <2>1, <3>2 DEF Atomic!Next, Atomic!ContactStep
  <2>4. CASE NoDestination(a, b) \/ RemoveIgnoreNoDestination(a, b)
    <3>1. Loaded({a})
      BY <1>2, <1>4, <2>4 DEF NoDestination, RemoveIgnoreNoDestination
    <3>2. Atomic!NoDestination(a, b) \/ Atomic!RemoveIgnoreNoDestination(a, b)
      BY <1>2, <2>1, <2>4, <3>1, NoDestinationRefines
    <3> QED BY <1>2, <2>1, <3>2 DEF Atomic!Next, Atomic!ContactStep
  <2> QED BY <2>1, <2>2, <2>3, <2>4 DEF ContactHandler
<1> QED BY <1>3, <1>4

\* The lists of the new objects hold stored entries only.
LEMMA NewListsStored ==
    ASSUME WalkInv, NEW c \in New
    PROVE  friends[c] \subseteq dbFriend[c] /\ ignores[c] \subseteq dbIgnore[c]
<1>1. CASE \E i \in 1..Depth : stack[i].avatar = c
  <2>1. PICK i \in 1..Depth : stack[i].avatar = c
    BY <1>1
  <2>2. ListsOf(stack[i], Awaited(i))
    BY <2>1 DEF WalkInv, StackInv
  <2>3. stack[i].list \in {"none", "friend", "ignore"}
    <3>1. stack # <<>>
      BY <2>1, NoCalls
    <3>2. stack[i] \in Frame
      BY <2>1, <3>1, TopOfStack
    <3> QED BY <3>2 DEF Frame
  <2> QED BY <2>1, <2>2, <2>3 DEF ListsOf
<1>2. CASE ~\E i \in 1..Depth : stack[i].avatar = c
  BY <1>2 DEF WalkInv, ReturnedComplete, New
<1> QED BY <1>1, <1>2

\* A SELECT that throws somewhere in the walk leaves what Avatars allows.
LEMMA SelectFailsRefines ==
    ASSUME WalkInv, SelectFails
    PROVE  Atomic!Next
<1>1. /\ SelectDue /\ MayFail /\ dirty' = dirty \cup (New \X Avatar)
      /\ result' = Database /\ faults' = faults + 1
      /\ UNCHANGED <<store, memory, transient>> /\ before' = Snapshot'
  BY DEF SelectFails, New, HandlerOver
<1>2. caller \in Seq(Avatar) /\ caller # <<>> /\ Len(caller) <= 2
        /\ looked \in 0..Len(caller)
  BY <1>1 DEF SelectDue, Asks, WalkInv, CallerInv
<1> DEFINE n == Len(caller)
           a == caller[1]
           b == caller[n]
           X == {a, b}
<1>3. n \in Nat /\ n # 0 /\ n <= 2
  BY <1>2
<1>4. a \in Avatar /\ b \in Avatar
  <2>1. 1 \in 1..n /\ n \in 1..n
    <3> HIDE DEF n
    <3> QED BY <1>3
  <2> QED BY <1>2, <2>1
<1>5. \A i \in 1..n : caller[i] \in X
  <2>1. \A i \in 1..n : i = 1 \/ i = n
    <3> HIDE DEF n
    <3> QED BY <1>3
  <2> QED BY <2>1
<1>6. Wanted \subseteq X
  BY <1>5 DEF Wanted
<1> HIDE DEF a, b, X
<1>7. New \subseteq Atomic!Fetch(X)
  <2>1. \A S : Atomic!LoadClosed(S, X) => Atomic!LoadClosed(S, Wanted)
    BY <1>6 DEF Atomic!LoadClosed
  <2> QED BY <2>1 DEF Atomic!Fetch, WalkInv
<1>8. ~(X \subseteq before.cached)
  <2>1. CASE stack # <<>>
    <3>1. New # {}
      BY <2>1, TopOfStack
    <3>2. X \subseteq before.cached => Atomic!LoadClosed({}, X)
      BY DEF Atomic!LoadClosed
    <3> QED BY <1>7, <3>1, <3>2 DEF Atomic!Fetch
  <2>2. CASE stack = <<>>
    <3>1. PICK c \in Avatar : Asks(c) /\ c \notin cached
      BY <1>1, <2>2 DEF SelectDue
    <3>2. c = caller[looked + 1] /\ looked + 1 \in 1..n
      BY <1>2, <1>3, <3>1 DEF Asks
    <3>3. c \in X
      BY <1>5, <3>2
    <3> QED BY <3>1, <3>3 DEF WalkInv, BeforeInv
  <2> QED BY <2>1, <2>2
<1> DEFINE F == [c \in New |-> friends[c]]
           G == [c \in New |-> ignores[c]]
<1>9. /\ cached = before.cached \cup New /\ New \subseteq Avatar
      /\ \A c \in Avatar \ New : /\ friends[c] = before.friends[c]
                                 /\ ignores[c] = before.ignores[c]
                                 /\ attr[c] = before.attr[c]
      /\ \A c \in New : attr[c] = dbAttr[c]
      /\ friends \in [Avatar -> SUBSET Avatar] /\ ignores \in [Avatar -> SUBSET Avatar]
      /\ attr \in [Avatar -> Attribute]
  BY DEF WalkInv, BeforeInv, New, PointerInv, TypeOK
<1>10. F \in [New -> SUBSET (before.cached \cup New)] /\ G \in [New -> SUBSET (before.cached \cup New)]
  <2>1. \A c \in New : friends[c] \cup ignores[c] \subseteq cached
    BY DEF WalkInv, PointerInv, ContactsCached, New
  <2> QED BY <1>9, <2>1
<1>11. \A c \in New : F[c] \subseteq dbFriend[c] /\ G[c] \subseteq dbIgnore[c]
  BY NewListsStored
<1>12. /\ before'.cached = before.cached \cup New
       /\ before'.friends = [c \in Avatar |-> IF c \in New THEN F[c] ELSE before.friends[c]]
       /\ before'.ignores = [c \in Avatar |-> IF c \in New THEN G[c] ELSE before.ignores[c]]
       /\ before'.attr = [c \in Avatar |-> IF c \in New THEN dbAttr[c] ELSE before.attr[c]]
  <2>1. /\ before'.cached = cached /\ before'.friends = friends /\ before'.ignores = ignores
        /\ before'.attr = attr
    BY <1>1, OverLeaves DEF memory
  <2> QED BY <1>9, <2>1
<1> HIDE DEF F, G
<1>13. Atomic!LoadFails(X)
  <2>1. Atomic!MayFail /\ result' = Atomic!Database
    BY <1>1 DEF MayFail, Atomic!MayFail, Database, Atomic!Database
  <2>2. UNCHANGED <<Atomic!store, flag, online, transient>>
    BY <1>1 DEF store, Atomic!store, memory
  <2> QED BY <1>1, <1>7, <1>8, <1>10, <1>11, <1>12, <2>1, <2>2 DEF Atomic!LoadFails
<1> QED BY <1>4, <1>13 DEF Atomic!Next, Atomic!ContactStep, X

\* Every step of the walk is invisible, every end of a handler is a step of
\* Avatars.
LEMMA LoadNextRefines == WalkInv /\ [LoadNext]_loadVars => [Atomic!Next]_Atomic!vars
<1> SUFFICES ASSUME WalkInv, [LoadNext]_loadVars PROVE [Atomic!Next]_Atomic!vars
  OBVIOUS
<1>1. ASSUME NEW c, Begin(c) PROVE UNCHANGED Atomic!vars
  BY <1>1 DEF Begin, vars, Atomic!vars
<1>2. CASE WalkStep
  <2>1. UNCHANGED <<store, flag, online, result, history, before>>
    BY <1>2 DEF WalkStep, Answered, OpenFirst, ReadFriends, ReadIgnores, ReadCachedRow, OpenRow,
       ReturnToList, ReturnToHandler, vars, store, history
  <2> QED BY <2>1 DEF store, history, Atomic!vars
<1>3. CASE SelectFails
  BY <1>3, SelectFailsRefines
<1>4. CASE Finish
  BY <1>4, FinishRefines
<1>5. CASE CrashInLoad
  <2>1. Crash /\ before' = Snapshot'
    BY <1>5 DEF CrashInLoad, HandlerOver
  <2>2. Atomic!Crash
    BY <2>1, OverLeaves DEF Crash, Atomic!Crash, NoAnswer, Atomic!NoAnswer, store, Atomic!store
  <2> QED BY <2>2 DEF Atomic!Next
<1>6. CASE UNCHANGED loadVars
  BY <1>6 DEF loadVars, walk, vars, Atomic!vars
<1> QED BY <1>1, <1>2, <1>3, <1>4, <1>5, <1>6 DEF LoadNext

\* Nothing is cached at the start.
LEMMA LoadInitRefines == LoadInit => Atomic!Init
  BY DEF LoadInit, Snapshot, Init, Atomic!Init, NoAnswer, Atomic!NoAnswer

\* Seen at the ends of handlers only, the recursion of GetAvatar is the single
\* step Fetch, and what it leaves when it fails is a LoadFails: the row by row
\* walk implements Avatars.
THEOREM WalkImplementsAvatars == LoadSpec => ImplementsAvatars
  BY LoadInitRefines, LoadNextRefines, WalkInvariant, PTL DEF LoadSpec, ImplementsAvatars, Atomic!Spec
=============================================================================
