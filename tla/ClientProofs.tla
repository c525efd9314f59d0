---------------------------- MODULE ClientProofs ----------------------------
(***************************************************************************)
(* Theorems about one call to Kelpay, and about how any body that may come *)
(* back from it is read.                                                   *)
(*                                                                         *)
(* The parser walks along the body; a body has two fields at most, so the  *)
(* walk is unrolled (FieldsShort), and what the readers see of it is put   *)
(* in one place (FieldsEntries).  The readers are then compared by what    *)
(* they make of the code and the status.                                   *)
(***************************************************************************)
EXTENDS KelpayClient, TLAPS, FiniteSetTheorems, SequenceTheorems

(* What of a field is stored, and as what. *)
Kept(form, f) == form = "form" \/ (form = "json" /\ f.word # Null)
EntryOf(form, f) ==
  [key |-> f.key,
   value |-> IF form = "json" THEN Value(f)
             ELSE IF f.word = Null THEN Empty ELSE Trim(Value(f))]

(* parseKelpayResponse of a body of two fields at most, field by field. *)
LEMMA FieldsShort ==
  ASSUME NEW form, NEW body, Len(body) \in 0..2
  PROVE  /\ Len(body) = 0 => Fields(form, body) = <<>>
         /\ Len(body) = 1 => Fields(form, body) = <<>> \o Stored(form, body[1])
         /\ Len(body) = 2 => Fields(form, body) = (<<>> \o Stored(form, body[1])) \o Stored(form, body[2])
<1> DEFINE step(g) == [n \in 0..Len(body) |->
                          IF n = 0 THEN <<>> ELSE g[n - 1] \o Stored(form, body[n])]
           after == CHOOSE g : g = step(g)
           one == <<>> \o Stored(form, body[1])
           two == one \o Stored(form, body[2])
           sol == [n \in 0..Len(body) |-> IF n = 0 THEN <<>> ELSE IF n = 1 THEN one ELSE two]
<1>1. sol = step(sol)
  <2>1. /\ sol[0] = <<>>
        /\ 1 \in 0..Len(body) => sol[1] = one
        /\ 2 \in 0..Len(body) => sol[2] = two
        /\ sol = [n \in 0..Len(body) |-> sol[n]]
    <3> HIDE DEF one, two
    <3> QED OBVIOUS
  <2> HIDE DEF sol
  <2>2. ASSUME NEW n \in 0..Len(body)
        PROVE  sol[n] = IF n = 0 THEN <<>> ELSE sol[n - 1] \o Stored(form, body[n])
    <3>1. CASE n = 0
      BY <2>1, <3>1
    <3>2. CASE n = 1
      <4>1. n - 1 = 0 /\ n # 0
        BY <3>2
      <4> QED BY <2>1, <3>2, <4>1, Zenon
    <3>3. CASE n = 2
      <4>1. n - 1 = 1 /\ n # 0 /\ 1 \in 0..Len(body)
        BY <3>3
      <4> QED BY <2>1, <3>3, <4>1, Zenon
    <3> QED BY <3>1, <3>2, <3>3
  <2> QED BY <2>1, <2>2, Zenon
<1>2. after = step(after)
  <2> HIDE DEF sol
  <2> QED BY <1>1
<1>3. Fields(form, body) = after[Len(body)]
  BY DEF Fields
<1> HIDE DEF after
<1>4. \A n \in 0..Len(body) :
        after[n] = IF n = 0 THEN <<>> ELSE after[n - 1] \o Stored(form, body[n])
  BY <1>2
<1>5. after[0] = <<>>
  BY <1>4
<1>6. /\ Len(body) \in {1, 2} => 1 \in 0..Len(body)
      /\ Len(body) = 2 => 2 \in 0..Len(body)
      /\ 1 - 1 = 0 /\ 1 # 0 /\ 2 - 1 = 1 /\ 2 # 0
  OBVIOUS
<1>7. Len(body) \in {1, 2} => after[1] = after[0] \o Stored(form, body[1])
  BY <1>4, <1>6, Zenon
<1>8. Len(body) = 2 => after[2] = after[1] \o Stored(form, body[2])
  BY <1>4, <1>6, Zenon
<1> QED BY <1>3, <1>5, <1>7, <1>8, Zenon

LEMMA StoredEntry ==
  ASSUME NEW form \in Forms, NEW f
  PROVE  Stored(form, f) = IF Kept(form, f) THEN <<EntryOf(form, f)>> ELSE <<>>
<1>1. CASE form = "json" /\ f.word # Null
  BY <1>1, Zenon DEF Stored, Kept, EntryOf
<1>2. CASE form = "form"
  <2>1. "form" # "json"
    OBVIOUS
  <2>2. Stored(form, f) =
          <<[key |-> f.key, value |-> IF f.word = Null THEN Empty ELSE Trim(Value(f))]>>
    BY <1>2, <2>1, Zenon DEF Stored
  <2> QED BY <1>2, <2>1, <2>2, Zenon DEF Kept, EntryOf
<1>3. CASE form # "form" /\ ~(form = "json" /\ f.word # Null)
  BY <1>3, Zenon DEF Stored, Kept
<1> QED BY <1>1, <1>2, <1>3, Zenon

(* The entries of the parsed body: those of its fields that are kept, in a   *)
(* list that has no second code and no second status.                        *)
LEMMA FieldsEntries ==
  ASSUME NEW form \in Forms, NEW body \in Body, SoundBody(body)
  PROVE  /\ DOMAIN Fields(form, body) \subseteq Nat
         /\ \A i \in DOMAIN Fields(form, body) : \E j \in DOMAIN body :
              Kept(form, body[j]) /\ Fields(form, body)[i] = EntryOf(form, body[j])
         /\ \A j \in DOMAIN body : Kept(form, body[j]) =>
              \E i \in DOMAIN Fields(form, body) :
                 Fields(form, body)[i] = EntryOf(form, body[j])
         /\ \A i, j \in DOMAIN Fields(form, body) :
              (Fields(form, body)[i].key = "code" <=> Fields(form, body)[j].key = "code")
              => i = j
<1> DEFINE e1 == EntryOf(form, body[1])
           e2 == EntryOf(form, body[2])
<1>1. body \in Seq(Field) /\ Len(body) \in 0..2 /\ DOMAIN body = 1..Len(body)
  <2>1. body \in Seq(Field) /\ Len(body) <= 2
    BY Zenon DEF Body
  <2>2. Len(body) \in Nat /\ DOMAIN body = 1..Len(body)
    BY <2>1, LenProperties, Zenon
  <2>3. Len(body) \in 0..2
    BY <2>1, <2>2
  <2> QED BY <2>1, <2>2, <2>3, Zenon
<1>2. \A i, j \in DOMAIN body :
        (body[i].key = "code" <=> body[j].key = "code") => i = j
  BY Zenon DEF SoundBody
<1>3. /\ Len(body) = 0 => Fields(form, body) = <<>>
      /\ Len(body) = 1 => Fields(form, body) = <<>> \o Stored(form, body[1])
      /\ Len(body) = 2 =>
           Fields(form, body) = (<<>> \o Stored(form, body[1])) \o Stored(form, body[2])
  BY <1>1, FieldsShort, Zenon
<1>4. /\ Stored(form, body[1]) = IF Kept(form, body[1]) THEN <<e1>> ELSE <<>>
      /\ Stored(form, body[2]) = IF Kept(form, body[2]) THEN <<e2>> ELSE <<>>
  BY StoredEntry, Zenon
<1>5. e1.key = body[1].key /\ e2.key = body[2].key
  BY DEF EntryOf
<1> HIDE DEF e1, e2
<1>6. PICK n, f, s1, s2, k1, k2, d1, d2 :
        /\ n = Len(body) /\ f = Fields(form, body)
        /\ s1 = Stored(form, body[1]) /\ s2 = Stored(form, body[2])
        /\ k1 = Kept(form, body[1]) /\ k2 = Kept(form, body[2])
        /\ d1 = e1 /\ d2 = e2
  BY Zenon
<1>7. f = IF n = 0 THEN <<>>
          ELSE IF n = 1 THEN IF k1 THEN <<d1>> ELSE <<>>
          ELSE IF k1 THEN IF k2 THEN <<d1>> \o <<d2>> ELSE <<d1>>
                     ELSE IF k2 THEN <<d2>> ELSE <<>>
  <2>1. /\ n \in 0..2
        /\ n = 0 => f = <<>>
        /\ n = 1 => f = <<>> \o s1
        /\ n = 2 => f = (<<>> \o s1) \o s2
    BY <1>1, <1>3, <1>6, Zenon
  <2>2. /\ s1 = IF k1 THEN <<d1>> ELSE <<>>
        /\ s2 = IF k2 THEN <<d2>> ELSE <<>>
    BY <1>4, <1>6, Zenon
  <2>3. /\ <<>> \o <<d1>> = <<d1>> /\ <<>> \o <<d2>> = <<d2>>
        /\ <<d1>> \o <<>> = <<d1>> /\ <<>> \o <<>> = <<>>
    <3>1. \A d : <<>> \o <<d>> = <<d>> /\ <<d>> \o <<>> = <<d>>
      OBVIOUS
    <3>2. <<>> \o <<>> = <<>>
      OBVIOUS
    <3> QED BY <3>1, <3>2, Zenon
  <2>4. n = 0 \/ n = 1 \/ n = 2
    BY <2>1
  <2>5. 1 # 0 /\ 2 # 0 /\ 2 # 1
    OBVIOUS
  <2>6. CASE k1 /\ k2
    BY <2>1, <2>2, <2>3, <2>4, <2>5, <2>6, Zenon
  <2>7. CASE k1 /\ ~k2
    BY <2>1, <2>2, <2>3, <2>4, <2>5, <2>7, Zenon
  <2>8. CASE ~k1
    BY <2>1, <2>2, <2>3, <2>4, <2>5, <2>8, Zenon
  <2> QED BY <2>6, <2>7, <2>8
<1>8. /\ n = Len(body) /\ n \in 0..2 /\ DOMAIN body = 1..n
      /\ k1 = Kept(form, body[1]) /\ k2 = Kept(form, body[2])
      /\ d1 = EntryOf(form, body[1]) /\ d2 = EntryOf(form, body[2])
  BY <1>1, <1>6, Zenon DEF e1, e2
<1>9. PICK g : g = <<d1>> \o <<d2>>
  OBVIOUS
<1>10. DOMAIN g = {1, 2} /\ g[1] = d1 /\ g[2] = d2
  <2>1. <<d1>> \in Seq({d1, d2}) /\ <<d2>> \in Seq({d1, d2})
        /\ Len(<<d1>>) = 1 /\ Len(<<d2>>) = 1
    OBVIOUS
  <2>2. /\ g \in Seq({d1, d2}) /\ Len(g) = 1 + 1
        /\ \A i \in 1..(1 + 1) : g[i] = IF i <= 1 THEN <<d1>>[i] ELSE <<d2>>[i - 1]
    BY <2>1, <1>9, ConcatProperties
  <2>3. DOMAIN g = 1..Len(g)
    BY <2>2, LenProperties, Zenon
  <2> QED BY <2>2, <2>3
<1>13. DOMAIN f = IF n = 0 THEN {} ELSE IF n = 1 THEN IF k1 THEN {1} ELSE {}
                 ELSE IF k1 THEN IF k2 THEN {1, 2} ELSE {1}
                 ELSE IF k2 THEN {1} ELSE {}
  BY <1>7, <1>9, <1>10
<1>14. /\ n = 1 \/ (n = 2 /\ ~k2) => (k1 => f[1] = d1)
       /\ n = 2 /\ ~k1 /\ k2 => f[1] = d2
       /\ n = 2 /\ k1 /\ k2 => f[1] = d1 /\ f[2] = d2
  BY <1>7, <1>9, <1>10
<1>11. DOMAIN body = IF n = 0 THEN {} ELSE IF n = 1 THEN {1} ELSE {1, 2}
  <2>1. n = 0 \/ n = 1 \/ n = 2
    BY <1>8
  <2>2. 1..0 = {} /\ 1..1 = {1} /\ 1..2 = {1, 2} /\ 1 # 0 /\ 2 # 0 /\ 2 # 1
    OBVIOUS
  <2>3. DOMAIN body = 1..n
    BY <1>8
  <2> QED BY <2>1, <2>2, <2>3, Zenon
<1>12. n = 2 => (~(d1.key = "code" <=> d2.key = "code"))
  <2>1. d1.key = body[1].key /\ d2.key = body[2].key
    BY <1>5, <1>6, Zenon
  <2>2. n = 2 => 1 \in DOMAIN body /\ 2 \in DOMAIN body
    BY <1>11
  <2>3. 1 # 2
    OBVIOUS
  <2> QED BY <2>1, <2>2, <2>3, <1>2, Zenon
<1> HIDE DEF Kept, EntryOf
<1>15. n = 0 \/ n = 1 \/ n = 2
  BY <1>8
<1>16. /\ DOMAIN f \subseteq Nat
       /\ \A i \in DOMAIN f : \E j \in DOMAIN body :
            Kept(form, body[j]) /\ f[i] = EntryOf(form, body[j])
       /\ \A j \in DOMAIN body : Kept(form, body[j]) =>
            \E i \in DOMAIN f : f[i] = EntryOf(form, body[j])
       /\ \A i, j \in DOMAIN f : (f[i].key = "code" <=> f[j].key = "code") => i = j
  <2>1. DOMAIN f \subseteq Nat
    BY <1>13
  <2>2. \A i \in DOMAIN f : \E j \in DOMAIN body :
            Kept(form, body[j]) /\ f[i] = EntryOf(form, body[j])
    BY <1>8, <1>11, <1>13, <1>14, <1>15
  <2>3. \A j \in DOMAIN body : Kept(form, body[j]) =>
            \E i \in DOMAIN f : f[i] = EntryOf(form, body[j])
    BY <1>8, <1>11, <1>13, <1>14, <1>15
  <2>4. \A i, j \in DOMAIN f : (f[i].key = "code" <=> f[j].key = "code") => i = j
    BY <1>12, <1>13, <1>14, <1>15
  <2> QED BY <2>1, <2>2, <2>3, <2>4, Zenon
<1> QED BY <1>6, <1>16, Zenon
-----------------------------------------------------------------------------
(* A look-up of keys that occur once, or not at all. *)
LEMMA PickOnly ==
  ASSUME NEW f, NEW K, NEW i \in DOMAIN f, DOMAIN f \subseteq Nat, f[i].key \in K,
         \A j \in DOMAIN f : f[j].key \in K => j = i
  PROVE  PickField(f, K) = f[i].value
<1> DEFINE hits == {j \in DOMAIN f : f[j].key \in K /\ f[j].value # Empty}
<1>1. CASE f[i].value = Empty
  <2>1. hits = {}
    BY <1>1
  <2> QED BY <1>1, <2>1, Zenon DEF PickField
<1>2. CASE f[i].value # Empty
  <2>1. hits = {i} /\ i <= i
    BY <1>2
  <2>2. (CHOOSE j \in hits : \A h \in hits : j <= h) = i
    BY <2>1, Zenon
  <2> QED BY <2>1, <2>2, Zenon DEF PickField
<1> QED BY <1>1, <1>2

LEMMA PickNone ==
  ASSUME NEW f, NEW K, \A j \in DOMAIN f : f[j].key \notin K
  PROVE  PickField(f, K) = Empty
BY Zenon DEF PickField

LEMMA FlatOnly ==
  ASSUME NEW f, NEW i \in DOMAIN f, f[i].key = "code",
         \A j \in DOMAIN f : f[j].key = "code" => j = i
  PROVE  FlatCode(f) = f[i].value
<1>1. (CHOOSE j \in DOMAIN f : f[j].key = "code") = i
  BY Zenon
<1> QED BY <1>1, Zenon DEF FlatCode

LEMMA FlatNone ==
  ASSUME NEW f, \A j \in DOMAIN f : f[j].key # "code"
  PROVE  FlatCode(f) = Empty
BY Zenon DEF FlatCode

(* The value a reader finds is that of the field Kelpay wrote, or empty. *)
Seen(form, body, keys, value) ==
  \/ \E j \in DOMAIN body :
       /\ body[j].key \in keys
       /\ Kept(form, body[j])
       /\ value = EntryOf(form, body[j]).value
  \/ /\ value = Empty
     /\ \A j \in DOMAIN body : body[j].key \in keys => ~Kept(form, body[j])

LEMMA KeysKnown ==
  ASSUME NEW body \in Body, NEW j \in DOMAIN body
  PROVE  /\ body[j] \in Field
         /\ body[j].key \in {"code"} \cup StatusKeys
         /\ body[j].key = "code" <=> body[j].key \notin StatusKeys
<1>1. body[j] \in Field
  <2>1. body \in Seq(Field)
    BY Zenon DEF Body
  <2>2. body \in [1..Len(body) -> Field]
    BY <2>1, LenProperties, Zenon
  <2> QED BY <2>2, Zenon
<1>2. body[j].key \in {"code"} \cup StatusKeys
  BY <1>1, Zenon DEF Field
<1>3. "code" \notin StatusKeys
  BY DEF StatusKeys
<1> QED BY <1>1, <1>2, <1>3, Zenon

(* What the readers see of the code and of the status, by either look-up. *)
LEMMA PickSeen ==
  ASSUME NEW form \in Forms, NEW body \in Body, SoundBody(body), NEW keys,
         \A i, j \in DOMAIN Fields(form, body) :
           Fields(form, body)[i].key \in keys /\ Fields(form, body)[j].key \in keys
           => i = j
  PROVE  Seen(form, body, keys, PickField(Fields(form, body), keys))
<1> PICK f : f = Fields(form, body)
  OBVIOUS
<1>1. /\ DOMAIN f \subseteq Nat
      /\ \A i \in DOMAIN f : \E j \in DOMAIN body :
           Kept(form, body[j]) /\ f[i] = EntryOf(form, body[j])
      /\ \A j \in DOMAIN body : Kept(form, body[j]) =>
           \E i \in DOMAIN f : f[i] = EntryOf(form, body[j])
  BY FieldsEntries
<1>2. \A j : EntryOf(form, body[j]).key = body[j].key
  BY DEF EntryOf
<1>3. CASE \E i \in DOMAIN f : f[i].key \in keys
  <2>1. PICK i \in DOMAIN f : f[i].key \in keys
    BY <1>3
  <2>2. PickField(f, keys) = f[i].value
    <3>1. \A j \in DOMAIN f : f[j].key \in keys => j = i
      BY <2>1
    <3>2. DOMAIN f \subseteq Nat
      BY <1>1
    <3> QED BY <2>1, <3>1, <3>2, PickOnly, Zenon
  <2>3. PICK j \in DOMAIN body : Kept(form, body[j]) /\ f[i] = EntryOf(form, body[j])
    BY <1>1, <2>1
  <2>4. body[j].key \in keys
    BY <1>2, <2>1, <2>3, Zenon
  <2> QED BY <2>2, <2>3, <2>4, Zenon DEF Seen
<1>4. CASE \A i \in DOMAIN f : f[i].key \notin keys
  <2>1. PickField(f, keys) = Empty
    BY <1>4, PickNone, Zenon
  <2>2. ASSUME NEW j \in DOMAIN body, body[j].key \in keys, Kept(form, body[j])
        PROVE  FALSE
    <3>1. PICK i \in DOMAIN f : f[i] = EntryOf(form, body[j])
      BY <1>1, <2>2
    <3> QED BY <1>2, <1>4, <2>2, <3>1, Zenon
  <2> QED BY <2>1, <2>2, Zenon DEF Seen
<1> QED BY <1>3, <1>4, Zenon

LEMMA CodeSeen ==
  ASSUME NEW form \in Forms, NEW body \in Body, SoundBody(body)
  PROVE  /\ PickField(Fields(form, body), {"code"}) = FlatCode(Fields(form, body))
         /\ Seen(form, body, {"code"}, FlatCode(Fields(form, body)))
<1> PICK f : f = Fields(form, body)
  OBVIOUS
<1>1. /\ DOMAIN f \subseteq Nat
      /\ \A i, j \in DOMAIN f : (f[i].key = "code" <=> f[j].key = "code") => i = j
  BY FieldsEntries
<1>2. Seen(form, body, {"code"}, PickField(f, {"code"}))
  <2>1. \A i, j \in DOMAIN f : f[i].key \in {"code"} /\ f[j].key \in {"code"} => i = j
    BY <1>1, Zenon
  <2> QED BY <2>1, PickSeen, Zenon
<1>3. PickField(f, {"code"}) = FlatCode(f)
  <2>1. CASE \E i \in DOMAIN f : f[i].key = "code"
    <3>1. PICK i \in DOMAIN f : f[i].key = "code"
      BY <2>1
    <3>2. \A j \in DOMAIN f : f[j].key = "code" => j = i
      BY <1>1, <3>1, Zenon
    <3>3. FlatCode(f) = f[i].value
      BY <3>1, <3>2, FlatOnly, Zenon
    <3>4. f[i].key \in {"code"} /\ \A j \in DOMAIN f : f[j].key \in {"code"} => j = i
      BY <3>1, <3>2, Zenon
    <3>5. DOMAIN f \subseteq Nat
      BY <1>1
    <3>6. PickField(f, {"code"}) = f[i].value
      BY <3>4, <3>5, PickOnly, Zenon
    <3> QED BY <3>3, <3>6, Zenon
  <2>2. CASE \A i \in DOMAIN f : f[i].key # "code"
    <3>1. \A i \in DOMAIN f : f[i].key \notin {"code"}
      BY <2>2, Zenon
    <3>2. PickField(f, {"code"}) = Empty
      BY <3>1, PickNone, Zenon
    <3> QED BY <2>2, <3>2, FlatNone, Zenon
  <2> QED BY <2>1, <2>2, Zenon
<1> QED BY <1>2, <1>3, Zenon

LEMMA StatusSeen ==
  ASSUME NEW form \in Forms, NEW body \in Body, SoundBody(body)
  PROVE  Seen(form, body, StatusKeys, PickField(Fields(form, body), StatusKeys))
<1> PICK f : f = Fields(form, body)
  OBVIOUS
<1>1. \A i, j \in DOMAIN f : (f[i].key = "code" <=> f[j].key = "code") => i = j
  BY FieldsEntries
<1>2. "code" \notin StatusKeys
  BY DEF StatusKeys
<1>3. \A i, j \in DOMAIN f : f[i].key \in StatusKeys /\ f[j].key \in StatusKeys => i = j
  BY <1>1, <1>2, Zenon
<1> QED BY <1>3, PickSeen, Zenon
-----------------------------------------------------------------------------
(* The three readers, by what they make of the code and the status. *)
Words == CodeWords \cup StatusWords \cup {NoWord, Null}
ValueSet == [word : Words, blanks : BOOLEAN]

LEMMA NoWordIsNoCode == NoWord \notin {"0", "1"} /\ Null \notin {"0", "1"}
BY Zenon DEF NoWord, Null

LEMMA SeenValue ==
  ASSUME NEW form \in Forms, NEW body \in Body, NEW keys, NEW value, Seen(form, body, keys, value)
  PROVE  value \in ValueSet
<1>1. Empty \in ValueSet
  BY DEF Empty, ValueSet, Words
<1>2. ASSUME NEW f \in Field
      PROVE  EntryOf(form, f).value \in ValueSet
  <2>1. f.word \in Words /\ f.blanks \in BOOLEAN
    BY DEF Field, Words
  <2> QED BY <1>1, <2>1 DEF EntryOf, Value, Trim, ValueSet
<1>3. \A j \in DOMAIN body : body[j] \in Field
  BY KeysKnown
<1> QED BY <1>1, <1>2, <1>3, Zenon DEF Seen

LEMMA Trimmed ==
  ASSUME NEW v \in ValueSet
  PROVE  /\ Trim(v) = [word |-> v.word, blanks |-> FALSE]
         /\ Trim(v) \in ValueSet
         /\ Trim(Trim(v)) = Trim(v)
         /\ v.blanks = FALSE => Trim(v) = v
         /\ Trim(v).word = v.word
<1>1. \A x \in ValueSet : x = [word |-> x.word, blanks |-> x.blanks]
  BY DEF ValueSet
<1>2. ASSUME NEW x \in ValueSet
      PROVE  /\ Trim(x) \in ValueSet
             /\ Trim(x) = [word |-> x.word, blanks |-> FALSE]
  <2>1. PICK t : t = [x EXCEPT !.blanks = FALSE]
    OBVIOUS
  <2>2. t.word = x.word /\ t.blanks = FALSE /\ t \in ValueSet
    BY <2>1 DEF ValueSet
  <2>3. Trim(x) = t
    BY <2>1, Zenon DEF Trim
  <2> QED BY <2>2, <2>3, <1>1, Zenon
<1>3. Trim(v).word = v.word
  BY <1>2
<1> QED BY <1>1, <1>2, <1>3, Zenon

LEMMA CodeIs ==
  ASSUME NEW v \in ValueSet
  PROVE  OfCode(v) = IF ~v.blanks /\ v.word = "0" THEN "success"
                     ELSE IF ~v.blanks /\ v.word = "1" THEN "failed" ELSE "undecided"
<1>1. v = [word |-> "0", blanks |-> FALSE] <=> ~v.blanks /\ v.word = "0"
  BY DEF ValueSet
<1>2. v = [word |-> "1", blanks |-> FALSE] <=> ~v.blanks /\ v.word = "1"
  BY DEF ValueSet
<1>3. "0" # "1"
  OBVIOUS
<1>4. CASE ~v.blanks /\ v.word = "0"
  BY <1>1, <1>2, <1>3, <1>4, Zenon DEF OfCode
<1>5. CASE ~v.blanks /\ v.word = "1"
  BY <1>1, <1>2, <1>3, <1>5, Zenon DEF OfCode
<1>6. CASE ~(~v.blanks /\ v.word = "0") /\ ~(~v.blanks /\ v.word = "1")
  BY <1>1, <1>2, <1>6, Zenon DEF OfCode
<1> QED BY <1>4, <1>5, <1>6, Zenon

LEMMA StatusIs == \A u : OfStatus(u) \in {"success", "failed", "unknown"}
<1> TAKE u
<1>1. CASE FailureWord(u)
  BY <1>1, Zenon DEF OfStatus
<1>2. CASE ~FailureWord(u) /\ ~PendingWord(u) /\ SuccessWord(u)
  BY <1>2, Zenon DEF OfStatus
<1>3. CASE ~FailureWord(u) /\ ~(~FailureWord(u) /\ ~PendingWord(u) /\ SuccessWord(u))
  BY <1>3, Zenon DEF OfStatus
<1> QED BY <1>1, <1>2, <1>3, Zenon

(* The code without its blanks decides; if it does not, the status does. *)
Reading(c, s) == IF OfCode(Trim(c)) # "undecided" THEN OfCode(Trim(c)) ELSE OfStatus(s.word)

LEMMA ReadersRead ==
  ASSUME NEW form \in Forms, NEW body \in Body, SoundBody(body)
  PROVE  LET f == Fields(form, body)
             r == Reading(FlatCode(f), PickField(f, StatusKeys)) IN
         /\ Resolve(f) = r
         /\ VerifyBranch(f) = r
         /\ InferKelpayCheckOutcome(f) = r
         /\ OfCode(GetKelpayCode(f)) = OfCode(Trim(FlatCode(f)))
<1> PICK f : f = Fields(form, body)
  OBVIOUS
<1> PICK c : c = FlatCode(f)
  OBVIOUS
<1> PICK s : s = PickField(f, StatusKeys)
  OBVIOUS
<1>1. PickField(f, {"code"}) = c /\ c \in ValueSet
  BY CodeSeen, SeenValue, Zenon
<1>2. GetKelpayCode(f) = Trim(c)
  BY <1>1, Zenon DEF GetKelpayCode
<1>3. InferKelpayCheckOutcome(f) = Reading(c, s)
  BY <1>2, Zenon DEF InferKelpayCheckOutcome, Reading
<1>4. Resolve(f) = Reading(c, s)
  BY <1>3, Zenon DEF Resolve, Reading
<1>5. OfCode(c) # "undecided" => Trim(c) = c
  <2>1. OfCode(c) # "undecided" => ~c.blanks
    BY <1>1, CodeIs, Zenon
  <2>2. c.blanks \in BOOLEAN
    BY <1>1 DEF ValueSet
  <2> QED BY <1>1, <2>1, <2>2, Trimmed
<1>6. VerifyBranch(f) = Reading(c, s)
  BY <1>3, <1>5, Zenon DEF VerifyBranch, Reading
<1> QED BY <1>2, <1>3, <1>4, <1>6, Zenon

(* What a value is, in terms of the word that was written. *)
LEMMA EntryWord ==
  ASSUME NEW form \in Forms, NEW f \in Field, Kept(form, f)
  PROVE  /\ form # "broken"
         /\ Trim(EntryOf(form, f).value) =
              IF f.word = Null THEN Empty ELSE [word |-> f.word, blanks |-> FALSE]
         /\ EntryOf(form, f).value.word = IF f.word = Null THEN NoWord ELSE f.word
<1>1. /\ "json" # "form" /\ "json" # "broken" /\ "form" # "broken"
      /\ f.word \in Words /\ f.blanks \in BOOLEAN
  BY DEF Field, Words
<1>2. /\ Value(f) \in ValueSet /\ Value(f).word = f.word
      /\ Empty \in ValueSet /\ Empty.word = NoWord /\ Empty.blanks = FALSE
      /\ Empty = [word |-> NoWord, blanks |-> FALSE]
  BY <1>1 DEF Value, ValueSet, Empty, Words
<1>3. CASE form = "json" /\ f.word # Null
  <2>1. EntryOf(form, f).value = Value(f)
    BY <1>3, Zenon DEF EntryOf
  <2> QED BY <1>1, <1>2, <1>3, <2>1, Trimmed, Zenon
<1>4. CASE form = "form" /\ f.word = Null
  <2>1. EntryOf(form, f).value = Empty
    BY <1>1, <1>4 DEF EntryOf
  <2> QED BY <1>1, <1>2, <1>4, <2>1, Trimmed, Zenon
<1>5. CASE form = "form" /\ f.word # Null
  <2>1. EntryOf(form, f).value = Trim(Value(f))
    BY <1>1, <1>5 DEF EntryOf
  <2>2. Trim(Value(f)) = [word |-> f.word, blanks |-> FALSE]
    BY <1>2, Trimmed, Zenon
  <2>3. Trim(Trim(Value(f))) = Trim(Value(f))
    BY <1>2, Trimmed, Zenon
  <2> QED BY <1>1, <1>5, <2>1, <2>2, <2>3
<1>6. Kept(form, f) => form = "form" \/ (form = "json" /\ f.word # Null)
  BY Zenon DEF Kept
<1> QED BY <1>3, <1>4, <1>5, <1>6, Zenon

(* Blanks, nulls and empty values do not show: JSON and form give the same. *)
LEMMA SameValue ==
  ASSUME NEW body \in Body, NEW keys, NEW a, NEW b,
         \A i, j \in DOMAIN body : body[i].key \in keys /\ body[j].key \in keys => i = j,
         Seen("json", body, keys, a), Seen("form", body, keys, b)
  PROVE  Trim(a) = Trim(b) /\ a.word = b.word
<1>1. Trim(a) = Trim(b)
  <2>1. \A j \in DOMAIN body : body[j] \in Field /\ Kept("form", body[j])
    BY KeysKnown, Zenon DEF Kept
  <2>2. Empty \in ValueSet /\ Trim(Empty) = Empty
    <3>1. Empty \in ValueSet /\ Empty.blanks = FALSE
      BY DEF Empty, ValueSet, Words
    <3> QED BY <3>1, Trimmed
  <2>3. {"json", "form"} \subseteq Forms
    BY DEF Forms
  <2>4. CASE \E j \in DOMAIN body : body[j].key \in keys /\ body[j].word # Null
    <3>1. PICK j \in DOMAIN body : body[j].key \in keys /\ body[j].word # Null
      BY <2>4
    <3>2. Kept("json", body[j])
      BY <3>1, Zenon DEF Kept
    <3>3. a = EntryOf("json", body[j]).value
      BY <3>1, <3>2, Zenon DEF Seen
    <3>4. b = EntryOf("form", body[j]).value
      BY <2>1, <3>1, Zenon DEF Seen
    <3>5. /\ Trim(a) = [word |-> body[j].word, blanks |-> FALSE]
          /\ Trim(b) = [word |-> body[j].word, blanks |-> FALSE]
      BY <2>1, <2>3, <3>1, <3>2, <3>3, <3>4, EntryWord
    <3> QED BY <3>5, Zenon
  <2>5. CASE \A j \in DOMAIN body : body[j].key \in keys => body[j].word = Null
    <3>1. \A j \in DOMAIN body : body[j].key \in keys => ~Kept("json", body[j])
      <4>1. "json" # "form"
        OBVIOUS
      <4> QED BY <2>5, <4>1, Zenon DEF Kept
    <3>2. a = Empty
      BY <3>1, Zenon DEF Seen
    <3>3. Trim(b) = Empty
      <4>1. ASSUME NEW j \in DOMAIN body, body[j].key \in keys, b = EntryOf("form", body[j]).value
            PROVE  Trim(b) = Empty
        BY <2>1, <2>3, <2>5, <4>1, EntryWord
      <4> QED BY <2>2, <4>1, Zenon DEF Seen
    <3> QED BY <2>2, <3>2, <3>3, Zenon
  <2> QED BY <2>4, <2>5, Zenon
<1>2. a \in ValueSet /\ b \in ValueSet
  BY SeenValue, Zenon DEF Forms
<1>3. Trim(a).word = a.word /\ Trim(b).word = b.word
  BY <1>2, Trimmed
<1> QED BY <1>1, <1>3, Zenon

LEMMA OneEach ==
  ASSUME NEW body \in Body, SoundBody(body)
  PROVE  /\ \A i, j \in DOMAIN body : body[i].key \in {"code"} /\ body[j].key \in {"code"} => i = j
         /\ \A i, j \in DOMAIN body : body[i].key \in StatusKeys /\ body[j].key \in StatusKeys => i = j
<1>1. \A i, j \in DOMAIN body : (body[i].key = "code" <=> body[j].key = "code") => i = j
  BY Zenon DEF SoundBody
<1>2. "code" \notin StatusKeys
  BY DEF StatusKeys
<1> QED BY <1>1, <1>2, Zenon

LEMMA FormatHidden ==
  ASSUME NEW body \in Body, SoundBody(body)
  PROVE  /\ Resolve(Fields("json", body)) = Resolve(Fields("form", body))
         /\ VerifyBranch(Fields("json", body)) = VerifyBranch(Fields("form", body))
<1> PICK f, g : f = Fields("json", body) /\ g = Fields("form", body)
  OBVIOUS
<1>1. "json" \in Forms /\ "form" \in Forms
  BY DEF Forms
<1>2. Seen("json", body, {"code"}, FlatCode(f)) /\ Seen("form", body, {"code"}, FlatCode(g))
  BY <1>1, CodeSeen
<1>3. /\ Seen("json", body, StatusKeys, PickField(f, StatusKeys))
      /\ Seen("form", body, StatusKeys, PickField(g, StatusKeys))
  BY <1>1, StatusSeen
<1>4. Trim(FlatCode(f)) = Trim(FlatCode(g))
  BY <1>2, OneEach, SameValue
<1>5. PickField(f, StatusKeys).word = PickField(g, StatusKeys).word
  BY <1>3, OneEach, SameValue
<1>6. Reading(FlatCode(f), PickField(f, StatusKeys)) = Reading(FlatCode(g), PickField(g, StatusKeys))
  BY <1>4, <1>5, Zenon DEF Reading
<1> QED BY <1>1, <1>6, ReadersRead, Zenon

(* A code that decides was written; if none does, none was. *)
LEMMA CodeStated ==
  ASSUME NEW form \in Forms, NEW body \in Body, SoundBody(body),
         NEW c, c = FlatCode(Fields(form, body))
  PROVE  /\ OfCode(Trim(c)) \in {"success", "failed", "undecided"}
         /\ OfCode(Trim(c)) = "success" =>
              \E j \in DOMAIN body : body[j].key = "code" /\ body[j].word = "0"
         /\ OfCode(Trim(c)) = "failed" =>
              \E j \in DOMAIN body : body[j].key = "code" /\ body[j].word = "1"
         /\ OfCode(Trim(c)) = "undecided" /\ form # "broken" =>
              \A j \in DOMAIN body : body[j].key = "code" => body[j].word \notin {"0", "1"}
         /\ Trim(c).word = "0" =>
              \E j \in DOMAIN body : body[j].key = "code" /\ body[j].word = "0"
<1>1. Seen(form, body, {"code"}, c)
  BY CodeSeen
<1>2. c \in ValueSet
  BY <1>1, SeenValue, Zenon
<1>3. /\ Trim(c) \in ValueSet /\ Trim(c) = [word |-> c.word, blanks |-> FALSE]
      /\ Trim(c).word = c.word
  BY <1>2, Trimmed, Zenon
<1>4. OfCode(Trim(c)) = IF c.word = "0" THEN "success" ELSE IF c.word = "1" THEN "failed" ELSE "undecided"
  <2>1. ~Trim(c).blanks /\ Trim(c).word = c.word
    BY <1>3
  <2> QED BY <1>3, <2>1, CodeIs, Zenon
<1>5. "success" # "failed" /\ "failed" # "undecided" /\ "success" # "undecided" /\ "0" # "1"
  OBVIOUS
<1>6. \A j \in DOMAIN body : body[j] \in Field
  BY KeysKnown
<1>7. ASSUME NEW u \in {"0", "1"}, c.word = u
      PROVE  \E j \in DOMAIN body : body[j].key = "code" /\ body[j].word = u
  <2>1. c # Empty
    BY <1>7, NoWordIsNoCode DEF Empty
  <2>2. PICK j \in DOMAIN body : /\ body[j].key \in {"code"} /\ Kept(form, body[j])
                                /\ c = EntryOf(form, body[j]).value
    BY <1>1, <2>1, Zenon DEF Seen
  <2>3. c.word = IF body[j].word = Null THEN NoWord ELSE body[j].word
    BY <1>6, <2>2, EntryWord, Zenon
  <2> QED BY <1>7, <2>2, <2>3, NoWordIsNoCode, Zenon
<1>8. ASSUME form # "broken", c.word \notin {"0", "1"}, NEW j \in DOMAIN body, body[j].key = "code"
      PROVE  body[j].word \notin {"0", "1"}
  <2>1. CASE body[j].word = Null
    BY <2>1, NoWordIsNoCode, Zenon
  <2>2. CASE body[j].word # Null
    <3>1. Kept(form, body[j])
      BY <1>8, <2>2 DEF Kept, Forms
    <3>2. c = EntryOf(form, body[j]).value
      BY <1>1, <1>8, <3>1, OneEach, Zenon DEF Seen
    <3>3. c.word = body[j].word
      BY <1>6, <1>8, <2>2, <3>1, <3>2, EntryWord, Zenon
    <3> QED BY <1>8, <3>3, Zenon
  <2> QED BY <2>1, <2>2, Zenon
<1>9. /\ c.word = "0" => \E j \in DOMAIN body : body[j].key = "code" /\ body[j].word = "0"
      /\ c.word = "1" => \E j \in DOMAIN body : body[j].key = "code" /\ body[j].word = "1"
  BY <1>7, Zenon
<1>10. c.word = "0" \/ c.word = "1" \/ c.word \notin {"0", "1"}
  BY Zenon
<1> QED BY <1>3, <1>4, <1>5, <1>8, <1>9, <1>10, Zenon

(* A status that decides was written, and Kelpay means by it what it says. *)
LEMMA StatusStated ==
  ASSUME NEW form \in Forms, NEW body \in Body, SoundBody(body),
         NEW s, s = PickField(Fields(form, body), StatusKeys), OfStatus(s.word) # "unknown"
  PROVE  \E j \in DOMAIN body :
           body[j].key \in StatusKeys /\ body[j].word = s.word /\ body[j].word # Null
<1>1. Seen(form, body, StatusKeys, s)
  BY StatusSeen
<1>2. OfStatus(NoWord) = "unknown"
  BY StatusIs, ClientAssumption, WordsAssumption DEF ClientAssumption, WordsAssumption
<1>3. s # Empty
  BY <1>2 DEF Empty
<1>4. PICK j \in DOMAIN body : /\ body[j].key \in StatusKeys /\ Kept(form, body[j])
                              /\ s = EntryOf(form, body[j]).value
  BY <1>1, <1>3, Zenon DEF Seen
<1>5. s.word = IF body[j].word = Null THEN NoWord ELSE body[j].word
  BY <1>4, KeysKnown, EntryWord, Zenon
<1> QED BY <1>2, <1>4, <1>5, Zenon

LEMMA BrokenIsEmpty ==
  ASSUME NEW body \in Body, SoundBody(body)
  PROVE  /\ FlatCode(Fields("broken", body)) = Empty
         /\ Resolve(Fields("broken", body)) = "unknown"
         /\ VerifyBranch(Fields("broken", body)) = "unknown"
<1>1. "broken" \in Forms /\ \A f : ~Kept("broken", f)
  BY DEF Forms, Kept
<1> PICK c, s : c = FlatCode(Fields("broken", body)) /\ s = PickField(Fields("broken", body), StatusKeys)
  OBVIOUS
<1>2. c = Empty /\ s = Empty
  BY <1>1, CodeSeen, StatusSeen, Zenon DEF Seen
<1>3. OfStatus(s.word) = "unknown"
  <2>1. OfStatus(NoWord) = "unknown"
    BY StatusIs, ClientAssumption, WordsAssumption DEF ClientAssumption, WordsAssumption
  <2> QED BY <1>2, <2>1 DEF Empty
<1>4. OfCode(Trim(c)) = "undecided"
  <2>1. Empty \in ValueSet /\ Empty.blanks = FALSE /\ Empty.word = NoWord
    BY DEF Empty, ValueSet, Words
  <2>2. Trim(Empty) = Empty
    BY <2>1, Trimmed, Zenon
  <2> QED BY <1>2, <2>1, <2>2, CodeIs, NoWordIsNoCode, Zenon
<1>5. Reading(c, s) = "unknown"
  BY <1>3, <1>4, Zenon DEF Reading
<1> QED BY <1>1, <1>2, <1>5, ReadersRead, Zenon
-----------------------------------------------------------------------------
(* What holds of every body that is typed and has one code and one status. *)
LEMMA AnswersRight ==
  ASSUME TypeOK, SoundBody(written)
  PROVE  FormatIrrelevant /\ ReadersAgree /\ OutcomeIsStated
<1>1. written \in Body
  BY DEF TypeOK
<1>2. FormatIrrelevant
  BY <1>1, FormatHidden, Zenon DEF FormatIrrelevant
<1>3. ReadersAgree
  BY <1>1, ReadersRead, Zenon DEF ReadersAgree
<1>4. OutcomeIsStated
  <2> PICK f : f = Fields("json", written)
    OBVIOUS
  <2> PICK c, s : c = FlatCode(f) /\ s = PickField(f, StatusKeys)
    OBVIOUS
  <2>1. "json" \in Forms
    BY DEF Forms
  <2>2. Outcome = Reading(c, s)
    BY <1>1, <2>1, ReadersRead, Zenon DEF Outcome
  <2>3. /\ OfCode(Trim(c)) = "success" =>
             \E j \in DOMAIN written : written[j].key \in {"code"} /\ written[j].word = "0"
        /\ OfCode(Trim(c)) = "failed" =>
             \E j \in DOMAIN written : written[j].key \in {"code"} /\ written[j].word = "1"
    BY <1>1, <2>1, CodeStated
  <2>4. OfStatus(s.word) # "unknown" =>
          \E j \in DOMAIN written : written[j].key \in StatusKeys /\ written[j].word = s.word
    BY <1>1, <2>1, StatusStated, Zenon
  <2>5. "success" # "failed" /\ "success" # "unknown" /\ "failed" # "unknown"
    OBVIOUS
  <2>6. /\ OfStatus(s.word) = "success" => SuccessWord(s.word)
        /\ OfStatus(s.word) = "failed" => FailureWord(s.word)
    <3>1. CASE FailureWord(s.word)
      BY <2>5, <3>1, Zenon DEF OfStatus
    <3>2. CASE ~FailureWord(s.word) /\ ~PendingWord(s.word) /\ SuccessWord(s.word)
      BY <2>5, <3>2, Zenon DEF OfStatus
    <3>3. CASE /\ ~FailureWord(s.word)
               /\ ~(~FailureWord(s.word) /\ ~PendingWord(s.word) /\ SuccessWord(s.word))
      <4>1. OfStatus(s.word) = "unknown"
        BY <3>3, Zenon DEF OfStatus
      <4> QED BY <2>5, <4>1, Zenon
    <3> QED BY <3>1, <3>2, <3>3, Zenon
  <2>7. Outcome = "success" =>
          \/ \E j \in DOMAIN written : written[j].key \in {"code"} /\ written[j].word = "0"
          \/ \E j \in DOMAIN written : written[j].key \in StatusKeys /\ SuccessWord(written[j].word)
    BY <2>2, <2>3, <2>4, <2>5, <2>6, Zenon DEF Reading
  <2>8. Outcome = "failed" =>
          \/ \E j \in DOMAIN written : written[j].key \in {"code"} /\ written[j].word = "1"
          \/ \E j \in DOMAIN written : written[j].key \in StatusKeys /\ FailureWord(written[j].word)
    BY <2>2, <2>3, <2>4, <2>5, <2>6, Zenon DEF Reading
  <2>9. Resolve(Fields("broken", written)) = "unknown"
    BY <1>1, BrokenIsEmpty, Zenon
  <2> QED BY <2>7, <2>8, <2>9, Zenon DEF OutcomeIsStated
<1> QED BY <1>2, <1>3, <1>4
-----------------------------------------------------------------------------
(* The invariant of one call, action by action. *)
LEMMA InitSound == ClientInit => ClientInv
<1> SUFFICES ASSUME ClientInit PROVE ClientInv
  OBVIOUS
<1>1. written \in Body /\ SoundBody(written)
  <2>1. <<>> \in Seq(Field) /\ Len(<<>>) <= 2 /\ DOMAIN <<>> = {}
    OBVIOUS
  <2> QED BY <2>1, Zenon DEF ClientInit, Body, SoundBody
<1>2. configured \in BOOLEAN
  BY DEF ClientInit, Configured
<1>3. /\ call = "none" /\ pc = "idle" /\ attempt = 0 /\ result = "idle"
      /\ reference = None /\ transactionId = FALSE
      /\ copies = {} /\ replying = FALSE
      /\ gateway = [r \in References |-> "none"]
  BY DEF ClientInit
<1>4. ClientTypeOK
  <2>1. attempt \in 0..KELPAY_HTTP_RETRY
    BY <1>3 DEF KELPAY_HTTP_RETRY
  <2>2. gateway \in [References -> {"none", "refused", "pushed", "charged", "declined"}]
    BY <1>3
  <2> QED BY <1>1, <1>2, <1>3, <2>1, <2>2, Zenon DEF ClientTypeOK, TypeOK
<1>5. CallSound
  BY <1>3 DEF CallSound
<1>6. ReferenceSound
  BY <1>3 DEF ReferenceSound
<1> QED BY <1>1, <1>4, <1>5, <1>6, Zenon DEF ClientInv

(* Steps that write no field keep the body or drop it. *)
LEMMA BodyKept ==
  ASSUME ClientInv, written' = written \/ written' = <<>>
  PROVE  TypeOK' /\ SoundBody(written)'
<1>1. <<>> \in Seq(Field) /\ Len(<<>>) <= 2 /\ DOMAIN <<>> = {}
  OBVIOUS
<1> QED BY <1>1, Zenon DEF ClientInv, ClientTypeOK, TypeOK, Body, SoundBody

LEMMA WriteSound ==
  ASSUME ClientInv, NEW f \in Field, Write(f)
  PROVE  TypeOK' /\ SoundBody(written)'
<1> PICK w : w = written
  OBVIOUS
<1>1. /\ w \in Seq(Field) /\ Len(w) <= 2 /\ SoundBody(w)
      /\ Len(w) \in Nat /\ DOMAIN w = 1..Len(w)
  <2>1. w \in Seq(Field) /\ Len(w) <= 2 /\ SoundBody(w)
    BY Zenon DEF ClientInv, ClientTypeOK, TypeOK, Body
  <2> QED BY <2>1, LenProperties, Zenon
<1>2. \A i \in DOMAIN w : w[i].key = "code" <=> f.key # "code"
  BY Zenon DEF Write
<1>3. Len(w) <= 1
  <2>1. \A i, j \in DOMAIN w : i = j
    BY <1>1, <1>2, Zenon DEF SoundBody
  <2>2. CASE Len(w) = 2
    <3>1. 1 \in DOMAIN w /\ 2 \in DOMAIN w /\ 1 # 2
      BY <1>1, <2>2
    <3> QED BY <2>1, <3>1, Zenon
  <2> QED BY <1>1, <2>2
<1>4. PICK v : v = Append(w, f)
  OBVIOUS
<1>5. /\ v \in Seq(Field) /\ Len(v) = Len(w) + 1 /\ v[Len(w) + 1] = f
      /\ \A i \in 1..Len(w) : v[i] = w[i]
  BY <1>1, <1>4, AppendProperties
<1>6. DOMAIN v = 1..(Len(w) + 1) /\ v \in Body
  <2>1. DOMAIN v = 1..Len(v)
    BY <1>5, LenProperties, Zenon
  <2> QED BY <1>1, <1>3, <1>5, <2>1 DEF Body
<1>7. \A i \in DOMAIN v : (i \in DOMAIN w /\ v[i] = w[i]) \/ (i = Len(w) + 1 /\ v[i] = f)
  BY <1>1, <1>5, <1>6
<1>8. f.key # "code" => f.word \in StatusWords \cup {NoWord, Null}
  BY Zenon DEF Write
<1>9. SoundBody(v)
  <2>1. ASSUME NEW i \in DOMAIN v, NEW j \in DOMAIN v, v[i].key = "code" <=> v[j].key = "code"
        PROVE  i = j
    <3>1. \A h, k \in DOMAIN w : (w[h].key = "code" <=> w[k].key = "code") => h = k
      BY <1>1, Zenon DEF SoundBody
    <3>2. CASE i \in DOMAIN w /\ j \in DOMAIN w /\ v[i] = w[i] /\ v[j] = w[j]
      BY <2>1, <3>1, <3>2, Zenon
    <3>3. CASE i \in DOMAIN w /\ v[i] = w[i] /\ j = Len(w) + 1 /\ v[j] = f
      BY <1>2, <2>1, <3>3, Zenon
    <3>4. CASE j \in DOMAIN w /\ v[j] = w[j] /\ i = Len(w) + 1 /\ v[i] = f
      BY <1>2, <2>1, <3>4, Zenon
    <3>5. i = Len(w) + 1 \/ (i \in DOMAIN w /\ v[i] = w[i])
      BY <1>7
    <3>6. j = Len(w) + 1 \/ (j \in DOMAIN w /\ v[j] = w[j])
      BY <1>7
    <3>7. v[Len(w) + 1] = f
      BY <1>5
    <3> QED BY <3>2, <3>3, <3>4, <3>5, <3>6, <3>7, Zenon
  <2>2. \A i \in DOMAIN v : v[i].key # "code" => v[i].word \in StatusWords \cup {NoWord, Null}
    BY <1>1, <1>7, <1>8, Zenon DEF SoundBody
  <2> QED BY <2>1, <2>2, Zenon DEF SoundBody
<1>10. written' = v
  BY <1>4, Zenon DEF Write
<1> QED BY <1>6, <1>9, <1>10, Zenon DEF TypeOK

LEMMA StartPaymentSound ==
  ASSUME ClientInv, StartPayment
  PROVE  ClientInv'
<1>1. TypeOK' /\ SoundBody(written)'
  BY BodyKept DEF StartPayment
<1>2. ClientTypeOK'
  BY <1>1 DEF ClientInv, ClientTypeOK, CallSound, KELPAY_HTTP_RETRY, StartPayment
<1>3. CallSound'
  <2>1. /\ call = "none" /\ call' = "payment" /\ pc' = "post" /\ attempt' = 0
        /\ UNCHANGED <<transactionId, replying, gateway>>
    BY DEF StartPayment
  <2>2. ~transactionId /\ ~replying
    BY <2>1 DEF ClientInv, CallSound
  <2> QED BY <2>1, <2>2 DEF CallSound, KELPAY_HTTP_RETRY
<1>4. ReferenceSound'
  <2>1. call = "none" /\ call' = "payment" /\ UNCHANGED <<copies, gateway>>
    BY DEF StartPayment
  <2>2. reference' \in References
    <3>1. reference' = CHOOSE r \in References : TRUE
      BY DEF StartPayment
    <3>2. \E r \in References : TRUE
      BY ClientAssumption DEF ClientAssumption
    <3> QED BY <3>1, <3>2, Zenon
  <2>3. copies = {} /\ \A r \in References : gateway[r] = "none"
    BY <2>1 DEF ClientInv, ReferenceSound
  <2> QED BY <2>1, <2>2, <2>3 DEF ReferenceSound
<1> QED BY <1>1, <1>2, <1>3, <1>4, Zenon DEF ClientInv

LEMMA StartCheckSound ==
  ASSUME ClientInv, StartCheck
  PROVE  ClientInv'
<1>1. TypeOK' /\ SoundBody(written)'
  BY BodyKept DEF StartCheck
<1>2. ClientTypeOK'
  BY <1>1 DEF ClientInv, ClientTypeOK, CallSound, KELPAY_HTTP_RETRY, StartCheck
<1>3. CallSound'
  BY DEF ClientInv, ClientTypeOK, CallSound, ReferenceSound, KELPAY_HTTP_RETRY, StartCheck
<1>4. ReferenceSound'
  BY DEF ClientInv, ClientTypeOK, CallSound, ReferenceSound, StartCheck
<1> QED BY <1>1, <1>2, <1>3, <1>4, Zenon DEF ClientInv

LEMMA NotConfiguredSound ==
  ASSUME ClientInv, NotConfigured
  PROVE  ClientInv'
<1>1. TypeOK' /\ SoundBody(written)'
  BY BodyKept DEF NotConfigured, Throw
<1>2. ClientTypeOK'
  BY <1>1 DEF ClientInv, ClientTypeOK, CallSound, KELPAY_HTTP_RETRY, NotConfigured, Throw
<1>3. CallSound'
  BY DEF ClientInv, ClientTypeOK, CallSound, ReferenceSound, KELPAY_HTTP_RETRY, NotConfigured, Throw
<1>4. ReferenceSound'
  BY DEF ClientInv, ClientTypeOK, CallSound, ReferenceSound, NotConfigured, Throw
<1> QED BY <1>1, <1>2, <1>3, <1>4, Zenon DEF ClientInv

LEMMA PostSound ==
  ASSUME ClientInv, Post
  PROVE  ClientInv'
<1>1. TypeOK' /\ SoundBody(written)'
  BY BodyKept DEF Post
<1>2. ClientTypeOK'
  <2>1. call \in {"payment", "check"} /\ reference \in References
    BY DEF ClientInv, ClientTypeOK, CallSound, ReferenceSound, Post
  <2>2. attempt + 1 \in 1..KELPAY_HTTP_RETRY
    BY DEF ClientInv, ClientTypeOK, CallSound, KELPAY_HTTP_RETRY, Post
  <2>3. copies' \subseteq Copy
    BY <2>1, <2>2 DEF ClientInv, ClientTypeOK, Post, Copy
  <2>4. attempt' \in 0..KELPAY_HTTP_RETRY
    BY <2>2 DEF Post
  <2> QED BY <1>1, <2>3, <2>4 DEF ClientInv, ClientTypeOK, Post
<1>3. CallSound'
  BY DEF ClientInv, ClientTypeOK, CallSound, ReferenceSound, KELPAY_HTTP_RETRY, Post
<1>4. ReferenceSound'
  BY DEF ClientInv, ClientTypeOK, CallSound, ReferenceSound, Post
<1> QED BY <1>1, <1>2, <1>3, <1>4, Zenon DEF ClientInv

LEMMA AttemptFailsSound ==
  ASSUME ClientInv, AttemptFails
  PROVE  ClientInv'
<1>1. TypeOK' /\ SoundBody(written)'
  BY BodyKept DEF AttemptFails, GiveUpOrSleep, Throw
<1>2. ClientTypeOK'
  BY <1>1 DEF ClientInv, ClientTypeOK, CallSound, KELPAY_HTTP_RETRY, AttemptFails, GiveUpOrSleep, Throw
<1>3. CallSound'
  BY DEF ClientInv, ClientTypeOK, CallSound, ReferenceSound, KELPAY_HTTP_RETRY, AttemptFails, GiveUpOrSleep, Throw
<1>4. ReferenceSound'
  BY DEF ClientInv, ClientTypeOK, CallSound, ReferenceSound, AttemptFails, GiveUpOrSleep, Throw
<1> QED BY <1>1, <1>2, <1>3, <1>4, Zenon DEF ClientInv

LEMMA WakeSound ==
  ASSUME ClientInv, Wake
  PROVE  ClientInv'
<1>1. TypeOK' /\ SoundBody(written)'
  BY BodyKept DEF Wake
<1>2. ClientTypeOK'
  BY <1>1 DEF ClientInv, ClientTypeOK, CallSound, KELPAY_HTTP_RETRY, Wake
<1>3. CallSound'
  BY DEF ClientInv, ClientTypeOK, CallSound, ReferenceSound, KELPAY_HTTP_RETRY, Wake
<1>4. ReferenceSound'
  BY DEF ClientInv, ClientTypeOK, CallSound, ReferenceSound, Wake
<1> QED BY <1>1, <1>2, <1>3, <1>4, Zenon DEF ClientInv

LEMMA PersistSound ==
  ASSUME ClientInv, Persist
  PROVE  ClientInv'
<1>1. TypeOK' /\ SoundBody(written)'
  BY BodyKept DEF Persist
<1>2. ClientTypeOK'
  BY <1>1 DEF ClientInv, ClientTypeOK, CallSound, KELPAY_HTTP_RETRY, Persist
<1>3. CallSound'
  BY DEF ClientInv, ClientTypeOK, CallSound, ReferenceSound, KELPAY_HTTP_RETRY, Persist
<1>4. ReferenceSound'
  BY DEF ClientInv, ClientTypeOK, CallSound, ReferenceSound, Persist
<1> QED BY <1>1, <1>2, <1>3, <1>4, Zenon DEF ClientInv

LEMMA TakesSound ==
  ASSUME ClientInv, NEW c \in Copy, KelpayTakes(c)
  PROVE  ClientInv'
<1>1. TypeOK' /\ SoundBody(written)'
  BY BodyKept DEF KelpayTakes
<1>2. ClientTypeOK'
  BY <1>1 DEF ClientInv, ClientTypeOK, CallSound, KELPAY_HTTP_RETRY, KelpayTakes
<1>3. CallSound'
  BY DEF ClientInv, ClientTypeOK, CallSound, ReferenceSound, KELPAY_HTTP_RETRY, KelpayTakes
<1>4. ReferenceSound'
  BY DEF ClientInv, ClientTypeOK, CallSound, ReferenceSound, KelpayTakes
<1> QED BY <1>1, <1>2, <1>3, <1>4, Zenon DEF ClientInv

LEMMA LoseSound ==
  ASSUME ClientInv, NEW c \in Copy, LoseCopy(c)
  PROVE  ClientInv'
<1>1. TypeOK' /\ SoundBody(written)'
  BY BodyKept DEF LoseCopy
<1>2. ClientTypeOK'
  BY <1>1 DEF ClientInv, ClientTypeOK, CallSound, KELPAY_HTTP_RETRY, LoseCopy
<1>3. CallSound'
  BY DEF ClientInv, ClientTypeOK, CallSound, ReferenceSound, KELPAY_HTTP_RETRY, LoseCopy
<1>4. ReferenceSound'
  BY DEF ClientInv, ClientTypeOK, CallSound, ReferenceSound, LoseCopy
<1> QED BY <1>1, <1>2, <1>3, <1>4, Zenon DEF ClientInv

LEMMA AnswersSound ==
  ASSUME ClientInv, NEW r \in References, CustomerAnswers(r)
  PROVE  ClientInv'
<1>1. TypeOK' /\ SoundBody(written)'
  BY BodyKept DEF CustomerAnswers
<1>2. ClientTypeOK'
  BY <1>1 DEF ClientInv, ClientTypeOK, CallSound, KELPAY_HTTP_RETRY, CustomerAnswers
<1>3. CallSound'
  BY DEF ClientInv, ClientTypeOK, CallSound, ReferenceSound, KELPAY_HTTP_RETRY, CustomerAnswers
<1>4. ReferenceSound'
  BY DEF ClientInv, ClientTypeOK, CallSound, ReferenceSound, CustomerAnswers
<1> QED BY <1>1, <1>2, <1>3, <1>4, Zenon DEF ClientInv

LEMMA WriteFieldSound ==
  ASSUME ClientInv, NEW f \in Field, WriteField(f)
  PROVE  ClientInv'
<1>1. TypeOK' /\ SoundBody(written)'
  BY WriteSound DEF WriteField
<1>2. ClientTypeOK'
  BY <1>1 DEF ClientInv, ClientTypeOK, WriteField
<1>3. CallSound'
  BY DEF ClientInv, CallSound, WriteField
<1>4. ReferenceSound'
  BY DEF ClientInv, ReferenceSound, WriteField
<1> QED BY <1>1, <1>2, <1>3, <1>4, Zenon DEF ClientInv

(* Where a reading leads: verify's three outcomes and the handler of each. *)
LEMMA HandlerOf ==
  /\ Handler("success") = "finalizeSuccess"
  /\ Handler("failed") = "finalizeFailure"
  /\ Handler("unknown") = "idle"
<1>1. "success" # "failed" /\ "success" # "unknown" /\ "failed" # "unknown"
  OBVIOUS
<1>2. Handler("success") = "finalizeSuccess"
  BY <1>1, Zenon DEF Handler
<1>3. Handler("failed") = "finalizeFailure"
  BY <1>1, Zenon DEF Handler
<1>4. Handler("unknown") = "idle"
  BY <1>1, Zenon DEF Handler
<1> QED BY <1>2, <1>3, <1>4

LEMMA WrittenIs ==
  \A keys, u : u \in Written(keys) <=>
    \E j \in DOMAIN written : written[j].key \in keys /\ written[j].word = u
BY DEF Written

(* What a body says and Kelpay may say agree: paid means charged, failed    *)
(* means declined.                                                          *)
LEMMA VerifyStated ==
  ASSUME ClientInv, NEW form \in Forms
  PROVE  LET v == VerifyBranch(Fields(form, written)) IN
         /\ v \in {"success", "failed", "unknown"}
         /\ call = "check" /\ (Truthful \/ form = "broken") =>
              /\ v = "success" => gateway[reference] = "charged"
              /\ v = "failed" => gateway[reference] = "declined"
<1> PICK v : v = VerifyBranch(Fields(form, written))
  OBVIOUS
<1> PICK c, s : /\ c = FlatCode(Fields(form, written))
                /\ s = PickField(Fields(form, written), StatusKeys)
  OBVIOUS
<1>1. written \in Body /\ SoundBody(written)
  BY Zenon DEF ClientInv, ClientTypeOK, TypeOK
<1>2. v = Reading(c, s)
  BY <1>1, ReadersRead, Zenon
<1>3. /\ OfCode(Trim(c)) \in {"success", "failed", "undecided"}
      /\ OfCode(Trim(c)) = "success" => "0" \in Written({"code"})
      /\ OfCode(Trim(c)) = "failed" => "1" \in Written({"code"})
      /\ OfCode(Trim(c)) = "undecided" /\ form # "broken" =>
           "0" \notin Written({"code"}) /\ "1" \notin Written({"code"})
  BY <1>1, CodeStated, WrittenIs
<1>4. v \in {"success", "failed", "unknown"}
  BY <1>2, <1>3, StatusIs, Zenon DEF Reading
<1>5. ASSUME call = "check", Truthful, form # "broken", v \in {"success", "failed"}
      PROVE  /\ v = "success" => gateway[reference] = "charged"
             /\ v = "failed" => gateway[reference] = "declined"
  <2>1. "0" \in Written({"code"}) => "1" \notin Written({"code"})
    BY <1>1, OneEach, WrittenIs
  <2>2. call # "payment"
    BY <1>5
  <2>3. /\ "0" \in Written({"code"}) => gateway[reference] = "charged"
        /\ "1" \in Written({"code"}) => gateway[reference] = "declined"
        /\ "0" \notin Written({"code"}) /\ "1" \notin Written({"code"}) =>
             gateway[reference] =
               IF Written(StatusKeys) \cap PaidWords # {} THEN "charged"
               ELSE IF Written(StatusKeys) \cap FailedWords # {} THEN "declined" ELSE "pushed"
    BY <1>5, <2>1, <2>2, Zenon DEF Truthful
  <2>4. CASE OfCode(Trim(c)) # "undecided"
    <3>1. v = OfCode(Trim(c))
      BY <1>2, <2>4, Zenon DEF Reading
    <3> QED BY <1>3, <2>3, <2>4, <3>1, Zenon
  <2>5. CASE OfCode(Trim(c)) = "undecided"
    <3>1. v = OfStatus(s.word)
      BY <1>2, <2>5, Zenon DEF Reading
    <3>2. OfStatus(s.word) # "unknown"
      BY <1>5, <3>1
    <3>3. PICK j \in DOMAIN written : /\ written[j].key \in StatusKeys
                                     /\ written[j].word = s.word /\ written[j].word # Null
      BY <1>1, <3>2, StatusStated, Zenon
    <3>4. s.word \in StatusWords \cup {NoWord}
      <4>1. written[j].key # "code"
        BY <3>3 DEF StatusKeys
      <4>2. written[j].word \in StatusWords \cup {NoWord, Null}
        BY <1>1, <4>1, Zenon DEF SoundBody
      <4> QED BY <3>3, <4>2, Zenon
    <3>5. /\ v = "success" => s.word \in PaidWords
          /\ v = "failed" => s.word \in FailedWords
      BY <3>1, <3>4, WordsAssumption DEF WordsAssumption
    <3>6. \A u : u \in Written(StatusKeys) <=> u = s.word
      BY <1>1, <3>3, OneEach, WrittenIs
    <3>7. PaidWords \cap FailedWords = {}
      BY ClientAssumption DEF ClientAssumption
    <3>8. /\ v = "success" => Written(StatusKeys) \cap PaidWords # {}
          /\ v = "failed" => /\ Written(StatusKeys) \cap PaidWords = {}
                             /\ Written(StatusKeys) \cap FailedWords # {}
      BY <3>5, <3>6, <3>7
    <3> QED BY <1>3, <1>5, <2>3, <2>5, <3>8, Zenon
  <2> QED BY <2>4, <2>5, Zenon
<1>6. form = "broken" => v = "unknown"
  BY <1>1, BrokenIsEmpty, Zenon
<1> QED BY <1>4, <1>5, <1>6

(* An acceptance means that Kelpay took the payment and did not refuse it. *)
LEMMA AcceptedIsTaken ==
  ASSUME ClientInv, NEW form \in Forms, call = "payment", replying,
         Truthful \/ form = "broken", Accepted(Fields(form, written))
  PROVE  gateway[reference] \notin {"none", "refused"}
<1> PICK c : c = FlatCode(Fields(form, written))
  OBVIOUS
<1>1. written \in Body /\ SoundBody(written)
  BY Zenon DEF ClientInv, ClientTypeOK, TypeOK
<1>2. Trim(c).word = "0"
  BY Zenon DEF Accepted
<1>3. \E j \in DOMAIN written : written[j].key = "code" /\ written[j].word = "0"
  <2>1. Trim(c).word = "0" =>
          \E j \in DOMAIN written : written[j].key = "code" /\ written[j].word = "0"
    BY <1>1, CodeStated
  <2> QED BY <1>2, <2>1
<1>4. "0" \in Written({"code"})
  BY <1>3, WrittenIs
<1>5. form # "broken"
  <2>1. Empty \in ValueSet /\ Empty.word = NoWord
    BY DEF Empty, ValueSet, Words
  <2>2. Trim(Empty).word = NoWord
    BY <2>1, Trimmed, Zenon
  <2> QED BY <1>1, <1>2, <2>2, BrokenIsEmpty, NoWordIsNoCode, Zenon
<1>6. gateway[reference] # "refused"
  BY <1>4, <1>5, Zenon DEF Truthful
<1>7. gateway[reference] # "none"
  BY DEF ClientInv, CallSound
<1> QED BY <1>6, <1>7

LEMMA ReceiveSound ==
  ASSUME ClientInv, NEW form \in Forms, Receive(form)
  PROVE  ClientInv'
<1>1. TypeOK' /\ SoundBody(written)'
  BY BodyKept DEF Receive
<1>2. /\ pc = "wait" /\ replying /\ replying' = FALSE
      /\ UNCHANGED <<written, configured, call, attempt, reference, transactionId, copies, gateway>>
  BY DEF Receive
<1>3. call \in {"payment", "check"}
  BY <1>2 DEF ClientInv, ClientTypeOK, CallSound
<1>4. \/ call = "payment" /\ pc' = "persist" /\ result' \in {"idle", "finalizeFailure"}
      \/ call = "payment" /\ pc' = "done" /\ result' = "finalizeFailure"
      \/ call = "check" /\ pc' = "done" /\ result' = Handler(VerifyBranch(Fields(form, written)))
  BY <1>3, Zenon DEF Receive
<1>5. Handler(VerifyBranch(Fields(form, written))) \in {"idle", "finalizeSuccess", "finalizeFailure"}
  BY VerifyStated, HandlerOf, Zenon
<1>6. ClientTypeOK'
  BY <1>1, <1>2, <1>4, <1>5 DEF ClientInv, ClientTypeOK
<1>7. CallSound'
  BY <1>2, <1>3, <1>4 DEF ClientInv, CallSound
<1>8. ReferenceSound'
  BY <1>2 DEF ClientInv, ReferenceSound
<1> QED BY <1>1, <1>6, <1>7, <1>8, Zenon DEF ClientInv

LEMMA StepSound == ClientInv /\ [ClientNext]_clientVars => ClientInv'
<1> SUFFICES ASSUME ClientInv, [ClientNext]_clientVars PROVE ClientInv'
  OBVIOUS
<1>1. CASE UNCHANGED clientVars
  <2>1. TypeOK' /\ SoundBody(written)'
    BY <1>1, BodyKept DEF clientVars
  <2>2. ClientTypeOK' /\ CallSound' /\ ReferenceSound'
    BY <1>1, <2>1 DEF clientVars, ClientInv, ClientTypeOK, CallSound, ReferenceSound
  <2> QED BY <2>1, <2>2, Zenon DEF ClientInv
<1>2. CASE ClientStep
  BY <1>2, NotConfiguredSound, PostSound, AttemptFailsSound, WakeSound, PersistSound,
     ReceiveSound, Zenon DEF ClientStep
<1>3. CASE Kelpay
  BY <1>3, TakesSound, LoseSound, AnswersSound, WriteFieldSound, Zenon DEF Kelpay
<1> QED
  BY <1>1, <1>2, <1>3, StartPaymentSound, StartCheckSound, Zenon DEF ClientNext
-----------------------------------------------------------------------------
(* What the call, the network and Kelpay know of a sale agrees throughout,   *)
(* for any references to draw from, any words Kelpay uses and any body of a  *)
(* code and a status, in any order of POSTs and answers.                     *)
THEOREM ClientInvariant == ClientSpec => []ClientInv
BY InitSound, StepSound, PTL DEF ClientSpec

(* The body, the copies on the network and the state of postJson have their *)
(* types.                                                                   *)
THEOREM ClientTyped == ClientSpec => []ClientTypeOK
<1>1. ClientInv => ClientTypeOK
  BY DEF ClientInv
<1> QED BY <1>1, ClientInvariant, PTL

(* postJson charges one reference at most, however often and late its POSTs *)
(* are taken.                                                               *)
THEOREM OneReferenceCharged == ClientSpec => []OneChargePerSale
<1>1. ASSUME ClientInv PROVE OneChargePerSale
  <2> DEFINE charged == {r \in References : gateway[r] = "charged"}
  <2>1. charged \subseteq {reference}
    BY <1>1 DEF ClientInv, ReferenceSound
  <2>2. IsFiniteSet({reference}) /\ Cardinality({reference}) = 1
    BY FS_Singleton
  <2>3. Cardinality(charged) <= 1
    BY <2>1, <2>2, FS_Subset
  <2> QED BY <2>3 DEF OneChargePerSale
<1> QED BY <1>1, ClientInvariant, PTL

(* parseKelpayResponse hides whether a body came as JSON or as a form from   *)
(* every reader of its outcome.                                              *)
THEOREM FormatNeverShows == ClientSpec => []FormatIrrelevant
<1>1. ClientInv => FormatIrrelevant
  BY AnswersRight DEF ClientInv, ClientTypeOK
<1> QED BY <1>1, ClientInvariant, PTL

(* verify and resolveKelpayCheckTerminal read every body alike. *)
THEOREM ReadersNeverDiffer == ClientSpec => []ReadersAgree
<1>1. ClientInv => ReadersAgree
  BY AnswersRight DEF ClientInv, ClientTypeOK
<1> QED BY <1>1, ClientInvariant, PTL

(* No payment is closed by an answer that does not say so. *)
THEOREM OutcomesAreStated == ClientSpec => []OutcomeIsStated
<1>1. ClientInv => OutcomeIsStated
  BY AnswersRight DEF ClientInv, ClientTypeOK
<1> QED BY <1>1, ClientInvariant, PTL

(* inferKelpayCheckOutcome looks at the code first: a status that Kelpay     *)
(* adds to a code that decides changes nothing.                              *)
THEOREM CodeIsFirst == ClientSpec => CodeOutranksStatus
<1>1. ASSUME ClientInv, ClientInv', NEW f \in Field,
             written' = Append(written, f), f.key # "code",
             OfCode(GetKelpayCode(Fields("json", written))) # "undecided"
      PROVE  Outcome' = Outcome
  <2>1. PICK w, v : w = written /\ v = written'
    OBVIOUS
  <2>2. w \in Body /\ SoundBody(w) /\ v \in Body /\ SoundBody(v)
    BY <1>1, <2>1, Zenon DEF ClientInv, ClientTypeOK, TypeOK
  <2>3. /\ "json" \in Forms /\ "json" # "broken"
        /\ Outcome = Resolve(Fields("json", w)) /\ Outcome' = Resolve(Fields("json", v))
    BY <2>1 DEF Forms, Outcome
  <2>4. \A j \in DOMAIN w : j \in DOMAIN v /\ v[j] = w[j]
    <3>1. w \in Seq(Field)
      BY <2>2, Zenon DEF Body
    <3>2. /\ v \in Seq(Field) /\ Len(v) = Len(w) + 1 /\ Len(w) \in Nat
          /\ \A i \in 1..Len(w) : v[i] = w[i]
      BY <1>1, <2>1, <3>1, AppendProperties, LenProperties
    <3>3. DOMAIN v = 1..Len(v) /\ DOMAIN w = 1..Len(w)
      BY <3>1, <3>2, LenProperties, Zenon
    <3> QED BY <3>2, <3>3
  <2>5. PICK c, d, s, t :
          /\ c = FlatCode(Fields("json", w)) /\ s = PickField(Fields("json", w), StatusKeys)
          /\ d = FlatCode(Fields("json", v)) /\ t = PickField(Fields("json", v), StatusKeys)
    OBVIOUS
  <2>6. /\ Outcome = Reading(c, s) /\ Outcome' = Reading(d, t)
        /\ OfCode(Trim(c)) # "undecided"
    BY <1>1, <2>1, <2>2, <2>3, <2>5, ReadersRead, Zenon
  <2>7. /\ OfCode(Trim(c)) \in {"success", "failed", "undecided"}
        /\ OfCode(Trim(c)) = "success" =>
             \E j \in DOMAIN w : w[j].key = "code" /\ w[j].word = "0"
        /\ OfCode(Trim(c)) = "failed" =>
             \E j \in DOMAIN w : w[j].key = "code" /\ w[j].word = "1"
    BY <2>2, <2>3, <2>5, CodeStated
  <2>8. /\ OfCode(Trim(d)) \in {"success", "failed", "undecided"}
        /\ OfCode(Trim(d)) = "success" =>
             \E j \in DOMAIN v : v[j].key = "code" /\ v[j].word = "0"
        /\ OfCode(Trim(d)) = "failed" =>
             \E j \in DOMAIN v : v[j].key = "code" /\ v[j].word = "1"
        /\ OfCode(Trim(d)) = "undecided" =>
             \A j \in DOMAIN v : v[j].key = "code" => v[j].word \notin {"0", "1"}
    BY <2>2, <2>3, <2>5, CodeStated
  <2>9. \A i, j \in DOMAIN v : v[i].key = "code" /\ v[j].key = "code" => i = j
    BY <2>2, Zenon DEF SoundBody
  <2>10. "0" # "1"
    OBVIOUS
  <2>11. OfCode(Trim(d)) = OfCode(Trim(c))
    BY <2>4, <2>6, <2>7, <2>8, <2>9, <2>10
  <2> QED BY <2>6, <2>11, Zenon DEF Reading
<1>2. ASSUME ClientInv, [ClientNext]_clientVars
      PROVE  [\A f \in Field :
                /\ written' = Append(written, f) /\ f.key # "code"
                /\ OfCode(GetKelpayCode(Fields("json", written))) # "undecided"
                => Outcome' = Outcome]_written
  BY <1>1, <1>2, StepSound, Zenon
<1> QED BY <1>2, ClientInvariant, PTL DEF ClientSpec, CodeOutranksStatus
-----------------------------------------------------------------------------
(* Where the request of a call is in KelpayFlow, by its place in the call. *)
TaskCases ==
  /\ pc = "idle" => TaskOfFlow = Flow!Idle
  /\ pc = "persist" => TaskOfFlow = At("initiatePersist", result)
  /\ pc = "done" /\ call = "payment" => TaskOfFlow = At(result, "idle")
  /\ pc = "done" /\ call = "check" => TaskOfFlow = At("checkRead", result)
  /\ pc \in {"post", "wait", "sleep"} /\ call = "payment" => TaskOfFlow = At("initiateHttp", "idle")
  /\ pc \in {"post", "wait", "sleep"} /\ call = "check" => TaskOfFlow = At("checkHttp", "idle")

LEMMA AtIs ==
  ASSUME NEW label, NEW next
  PROVE  /\ At(label, next).pc = label
         /\ At(label, next).p = Payment
         /\ At(label, next).then = next
         /\ At(label, "idle") = Flow!Handling(label, Payment)
         /\ At(label, next) = [Flow!Handling(label, Payment) EXCEPT !.then = next]
<1> PICK a, b : a = Flow!NoPayment /\ b = Flow!NoTicket
  OBVIOUS
<1>1. \A n : At(label, n) =
        [pc |-> label, p |-> Payment, k |-> None, then |-> n, paymentRow |-> a, ticketRow |-> b]
  BY Zenon DEF At, Flow!NoPayment, Flow!NoTicket
<1>2. Flow!Handling(label, Payment) =
        [pc |-> label, p |-> Payment, k |-> None, then |-> "idle", paymentRow |-> a, ticketRow |-> b]
  BY Zenon DEF Flow!Handling
<1>3. [Flow!Handling(label, Payment) EXCEPT !.then = next] =
        [pc |-> label, p |-> Payment, k |-> None, then |-> next, paymentRow |-> a, ticketRow |-> b]
  BY <1>2
<1>4. At(label, next).pc = label /\ At(label, next).p = Payment /\ At(label, next).then = next
  BY <1>1
<1> QED BY <1>1, <1>2, <1>3, <1>4, Zenon

LEMMA IdleIs ==
  /\ Flow!Idle = [At("idle", "idle") EXCEPT !.p = None]
  /\ Flow!Idle.pc = "idle"
<1> PICK a, b : a = Flow!NoPayment /\ b = Flow!NoTicket
  OBVIOUS
<1>1. At("idle", "idle") = [pc |-> "idle", p |-> Payment, k |-> None, then |-> "idle",
                            paymentRow |-> a, ticketRow |-> b]
  BY Zenon DEF At, Flow!NoPayment, Flow!NoTicket
<1>2. Flow!Idle = [pc |-> "idle", p |-> None, k |-> None, then |-> "idle",
                   paymentRow |-> a, ticketRow |-> b]
  BY Zenon DEF Flow!Idle, Flow!Handling
<1>3. [At("idle", "idle") EXCEPT !.p = None] =
        [pc |-> "idle", p |-> None, k |-> None, then |-> "idle", paymentRow |-> a, ticketRow |-> b]
  BY <1>1
<1> QED BY <1>2, <1>3

LEMMA TaskIs == TaskCases
<1>1. /\ "idle" # "persist" /\ "idle" # "done" /\ "persist" # "done"
      /\ "check" # "payment"
      /\ {"post", "wait", "sleep"} \cap {"idle", "persist", "done"} = {}
  OBVIOUS
<1>2. pc = "idle" => TaskOfFlow = Flow!Idle
  BY <1>1, IdleIs, Zenon DEF TaskOfFlow
<1>3. pc = "persist" => TaskOfFlow = At("initiatePersist", result)
  BY <1>1, Zenon DEF TaskOfFlow
<1>4. pc = "done" /\ call = "payment" => TaskOfFlow = At(result, "idle")
  BY <1>1, Zenon DEF TaskOfFlow
<1>5. pc = "done" /\ call = "check" => TaskOfFlow = At("checkRead", result)
  BY <1>1, Zenon DEF TaskOfFlow
<1>6. ASSUME pc \in {"post", "wait", "sleep"}
      PROVE  TaskOfFlow = At(IF call = "payment" THEN "initiateHttp" ELSE "checkHttp", "idle")
  <2>1. pc # "idle" /\ pc # "persist" /\ pc # "done"
    BY <1>6
  <2> QED BY <2>1, Zenon DEF TaskOfFlow
<1> QED BY <1>1, <1>2, <1>3, <1>4, <1>5, <1>6, Zenon DEF TaskCases

LEMMA TaskBecomes == TaskCases'
BY TaskIs, PTL

LEMMA Moves ==
  ASSUME NEW r, TaskOfFlow' = r
  PROVE  Flow!Become(Request, r)
BY DEF Flow!Become, TasksOfFlow

LEMMA TaskAt == TasksOfFlow[Request] = TaskOfFlow
BY DEF TasksOfFlow

(* Only a call, Kelpay's decision and the transaction id show in the tables. *)
LEMMA TablesKept ==
  ASSUME (call = "none") <=> (call' = "none"), UNCHANGED <<reference, transactionId, gateway>>
  PROVE  UNCHANGED <<TicketsOfFlow, PaymentsOfFlow, GatewaysOfFlow, CallbacksOfFlow>>
BY DEF TicketsOfFlow, PaymentsOfFlow, GatewaysOfFlow, GatewayOfFlow, CallbacksOfFlow, At

LEMMA Stutters ==
  ASSUME UNCHANGED <<TicketsOfFlow, PaymentsOfFlow, GatewaysOfFlow, CallbacksOfFlow>>,
         TaskOfFlow' = TaskOfFlow
  PROVE  UNCHANGED Flow!vars
BY DEF Flow!vars, TasksOfFlow

LEMMA TablesAt ==
  /\ TicketsOfFlow[Ticket].status = "available"
  /\ GatewaysOfFlow[Payment] = GatewayOfFlow
  /\ call = "none" => PaymentsOfFlow[Payment].status = "absent"
  /\ call # "none" => PaymentsOfFlow[Payment] =
       [status |-> "pending", ticketId |-> Ticket,
        method |-> "mobile_money", transactionId |-> transactionId]
BY DEF TicketsOfFlow, GatewaysOfFlow, PaymentsOfFlow, At

(* initiate: the payment is inserted and its first POST is on its way. *)
LEMMA StartPaymentMaps ==
  ASSUME ClientInv, StartPayment
  PROVE  Flow!Next
<1>1. /\ call = "none" /\ call' = "payment" /\ pc = "idle" /\ pc' = "post"
      /\ ~transactionId /\ transactionId' = FALSE /\ gateway' = gateway
      /\ reference' \in References /\ \A r \in References : gateway[r] = "none"
  BY StartPaymentSound DEF ClientInv, ClientTypeOK, CallSound, ReferenceSound, StartPayment
<1>2. Flow!Free(Request, "initiate")
  BY <1>1, TaskIs, TaskAt, IdleIs DEF TaskCases, Flow!Free
<1>3. Flow!CatalogAvailable(Ticket)
  BY <1>1, TablesAt DEF Flow!CatalogAvailable, Flow!OpenKelpay, Flow!OPEN
<1>4. PaymentsOfFlow' = [PaymentsOfFlow EXCEPT ![Payment] =
        [status |-> "pending", ticketId |-> Ticket,
         method |-> "mobile_money", transactionId |-> FALSE]]
  BY <1>1 DEF PaymentsOfFlow
<1>5. GatewayOfFlow = "none" /\ GatewayOfFlow' = "sent"
  BY <1>1 DEF GatewayOfFlow
<1>6. GatewaysOfFlow' = [GatewaysOfFlow EXCEPT ![Payment] = "sent"]
  BY <1>5 DEF GatewaysOfFlow
<1>7. UNCHANGED <<TicketsOfFlow, CallbacksOfFlow>>
  BY <1>5 DEF TicketsOfFlow, CallbacksOfFlow
<1>8. TaskOfFlow' = Flow!Handling("initiateHttp", Payment)
  BY <1>1, TaskBecomes, AtIs DEF TaskCases
<1>9. Flow!Become(Request, Flow!Handling("initiateHttp", Payment))
  BY <1>8, Moves, Zenon
<1>10. PaymentsOfFlow[Payment].status = "absent"
  BY <1>1, TablesAt
<1>11. Flow!Initiate(Request, Ticket, Payment)
  BY <1>2, <1>3, <1>4, <1>6, <1>7, <1>9, <1>10, Zenon DEF Flow!Initiate
<1> QED BY <1>11, Zenon DEF Flow!Next, Flow!KelpayStart

(* verify or confirm asks Kelpay again. *)
LEMMA StartCheckMaps ==
  ASSUME ClientInv, StartCheck
  PROVE  Flow!Next
<1>1. /\ call \in {"payment", "check"} /\ call' = "check" /\ pc = "idle" /\ pc' = "post"
      /\ transactionId /\ UNCHANGED <<reference, transactionId, gateway>>
  BY DEF ClientInv, ClientTypeOK, CallSound, StartCheck
<1>2. Flow!Free(Request, "verify")
  BY <1>1, TaskIs, TaskAt, IdleIs DEF TaskCases, Flow!Free
<1>3. Flow!Checkable(Payment)
  BY <1>1, TablesAt DEF Flow!Checkable
<1>4. UNCHANGED <<TicketsOfFlow, PaymentsOfFlow, GatewaysOfFlow, CallbacksOfFlow>>
  BY <1>1, TablesKept
<1>5. TaskOfFlow' = Flow!Handling("checkHttp", Payment)
  BY <1>1, TaskBecomes, AtIs DEF TaskCases
<1>6. Flow!Become(Request, Flow!Handling("checkHttp", Payment))
  BY <1>5, Moves, Zenon
<1>7. Flow!StartVerify(Request, Payment)
  BY <1>2, <1>3, <1>4, <1>6, Zenon DEF Flow!StartVerify
<1> QED BY <1>7, Zenon DEF Flow!Next, Flow!KelpayStart

(* The exception of the last attempt, or of missing settings. *)
LEMMA ThrowMaps ==
  ASSUME ClientInv, pc \in {"post", "wait"}, Throw,
         UNCHANGED <<call, reference, transactionId, gateway>>
  PROVE  Flow!Next
<1>1. UNCHANGED <<TicketsOfFlow, PaymentsOfFlow, GatewaysOfFlow, CallbacksOfFlow>>
  BY TablesKept
<1>2. call \in {"payment", "check"}
  BY DEF ClientInv, ClientTypeOK, CallSound
<1>3. CASE call = "payment"
  <2>1. TaskOfFlow = At("initiateHttp", "idle")
    BY <1>3, TaskIs DEF TaskCases
  <2>2. TaskOfFlow' = Flow!Handling("rollbackRead", Payment)
    <3>1. call' = "payment" /\ pc' = "done" /\ result' = "rollbackRead"
      BY <1>3 DEF Throw
    <3> QED BY <3>1, TaskBecomes, AtIs DEF TaskCases
  <2>3. TasksOfFlow[Request].pc = "initiateHttp" /\ TasksOfFlow[Request].p = Payment
    BY <2>1, TaskAt, AtIs
  <2>4. Flow!Become(Request, Flow!Handling("rollbackRead", TasksOfFlow[Request].p))
    BY <2>2, <2>3, Moves, Zenon
  <2>5. Flow!InitiateHttpError(Request)
    BY <1>1, <2>3, <2>4, Zenon DEF Flow!InitiateHttpError
  <2> QED BY <2>5, Zenon DEF Flow!Next, Flow!KelpayStep
<1>4. CASE call = "check"
  <2>1. TaskOfFlow = At("checkHttp", "idle")
    BY <1>4, TaskIs DEF TaskCases
  <2>2. TaskOfFlow' = Flow!Idle
    <3>1. call' = "check" /\ pc' = "idle"
      BY <1>4 DEF Throw
    <3> QED BY <3>1, TaskBecomes DEF TaskCases
  <2>3. TasksOfFlow[Request].pc = "checkHttp"
    BY <2>1, TaskAt, AtIs
  <2>4. Flow!Finish(Request)
    BY <2>2, Moves, Zenon DEF Flow!Finish
  <2>5. Flow!CheckHttpError(Request)
    BY <1>1, <2>3, <2>4, Zenon DEF Flow!CheckHttpError
  <2> QED BY <2>5, Zenon DEF Flow!Next, Flow!KelpayStep
<1> QED BY <1>2, <1>3, <1>4

(* An attempt more or less does not show: the call is still the same call. *)
LEMMA AttemptsHidden ==
  ASSUME ClientInv, pc \in {"post", "wait", "sleep"}, pc' \in {"post", "wait", "sleep"},
         UNCHANGED <<call, reference, transactionId, gateway>>
  PROVE  UNCHANGED Flow!vars
<1>1. UNCHANGED <<TicketsOfFlow, PaymentsOfFlow, GatewaysOfFlow, CallbacksOfFlow>>
  BY TablesKept
<1>2. call \in {"payment", "check"} /\ call' = call
  BY DEF ClientInv, ClientTypeOK, CallSound
<1>3. TaskOfFlow' = TaskOfFlow
  BY <1>2, TaskIs, TaskBecomes DEF TaskCases
<1> QED BY <1>1, <1>3, Stutters

(* What leaves the call where it is and Kelpay's decision alone. *)
LEMMA CallKept ==
  ASSUME ClientInv, UNCHANGED <<call, pc, result, reference, transactionId, gateway>>
  PROVE  UNCHANGED Flow!vars
<1>1. UNCHANGED <<TicketsOfFlow, PaymentsOfFlow, GatewaysOfFlow, CallbacksOfFlow>>
  BY TablesKept
<1>2. TaskOfFlow' = TaskOfFlow
  BY Zenon DEF TaskOfFlow, At
<1> QED BY <1>1, <1>2, Stutters

LEMMA AttemptFailsMaps ==
  ASSUME ClientInv, AttemptFails
  PROVE  Flow!Next \/ UNCHANGED Flow!vars
<1>1. pc = "wait" /\ UNCHANGED <<call, reference, transactionId, gateway>>
  BY DEF AttemptFails
<1>2. CASE pc' = "sleep"
  BY <1>1, <1>2, AttemptsHidden
<1>3. CASE Throw
  BY <1>1, <1>3, ThrowMaps
<1> QED BY <1>2, <1>3 DEF AttemptFails, GiveUpOrSleep

(* What is known of a call in progress at Kelpay. *)
LEMMA CallKnown ==
  ASSUME ClientInv
  PROVE  /\ pc # "idle" => call \in {"payment", "check"}
         /\ call # "none" => reference \in References
         /\ call # "none" => GatewayOfFlow =
              IF gateway[reference] = "none" THEN "sent" ELSE gateway[reference]
         /\ call = "none" => GatewayOfFlow = "none"
BY DEF ClientInv, ClientTypeOK, CallSound, ReferenceSound, GatewayOfFlow

(* Kelpay takes the first POST of the payment; the others change nothing. *)
LEMMA KelpayTakesMaps ==
  ASSUME ClientInv, NEW c \in Copy, KelpayTakes(c)
  PROVE  Flow!Next \/ UNCHANGED Flow!vars
<1>1. /\ UNCHANGED <<call, pc, result, reference, transactionId>>
      /\ c \in copies
  BY DEF KelpayTakes
<1>2. CASE ~(c.call = "payment" /\ gateway[c.reference] = "none")
  BY <1>1, <1>2, CallKept DEF KelpayTakes
<1>3. CASE c.call = "payment" /\ gateway[c.reference] = "none"
  <2>1. call # "none" /\ c.reference = reference /\ reference \in References
    BY <1>1 DEF ClientInv, ReferenceSound
  <2>2. PICK g \in {"pushed", "refused"} : gateway' = [gateway EXCEPT ![reference] = g]
    BY <1>3, <2>1 DEF KelpayTakes
  <2>3. gateway[reference] = "none" /\ gateway'[reference] = g
    BY <1>3, <2>1, <2>2 DEF ClientInv, ClientTypeOK
  <2>4. GatewayOfFlow = "sent" /\ GatewayOfFlow' = g
    BY <1>1, <2>1, <2>2, <2>3 DEF GatewayOfFlow
  <2>5. /\ GatewaysOfFlow[Payment] = "sent"
        /\ GatewaysOfFlow' = [GatewaysOfFlow EXCEPT ![Payment] = g]
    BY <2>4 DEF GatewaysOfFlow
  <2>6. UNCHANGED <<TicketsOfFlow, PaymentsOfFlow, CallbacksOfFlow>>
    BY <1>1, <2>4 DEF TicketsOfFlow, PaymentsOfFlow, CallbacksOfFlow, At
  <2>7. UNCHANGED TasksOfFlow
    BY <1>1, Zenon DEF TasksOfFlow, TaskOfFlow, At
  <2>8. Flow!GatewayTakesPush(Payment)
    BY <2>5, <2>6, <2>7, Zenon DEF Flow!GatewayTakesPush
  <2> QED BY <2>8, Zenon DEF Flow!Next, Flow!Gateway
<1> QED BY <1>2, <1>3

(* The customer decides, and Kelpay will notify the backend. *)
LEMMA CustomerAnswersMaps ==
  ASSUME ClientInv, NEW r \in References, CustomerAnswers(r)
  PROVE  Flow!Next
<1>1. UNCHANGED <<call, pc, result, reference, transactionId>> /\ gateway[r] = "pushed"
  BY DEF CustomerAnswers
<1>2. call # "none" /\ r = reference
  BY <1>1 DEF ClientInv, ReferenceSound
<1>3. PICK g \in {"charged", "declined"} : gateway' = [gateway EXCEPT ![r] = g]
  BY DEF CustomerAnswers
<1>4. gateway'[reference] = g
  BY <1>2, <1>3 DEF ClientInv, ClientTypeOK
<1>5. GatewayOfFlow = "pushed" /\ GatewayOfFlow' = g
  BY <1>1, <1>2, <1>4 DEF GatewayOfFlow
<1>6. /\ GatewaysOfFlow[Payment] = "pushed"
      /\ GatewaysOfFlow' = [GatewaysOfFlow EXCEPT ![Payment] = g]
  BY <1>5 DEF GatewaysOfFlow
<1>7. CallbacksOfFlow' = CallbacksOfFlow \cup {Payment}
  BY <1>5 DEF CallbacksOfFlow
<1>8. UNCHANGED <<TicketsOfFlow, PaymentsOfFlow>>
  BY <1>1 DEF TicketsOfFlow, PaymentsOfFlow, At
<1>9. UNCHANGED TasksOfFlow
  BY <1>1, Zenon DEF TasksOfFlow, TaskOfFlow, At
<1>10. Flow!GatewaySettles(Payment)
  BY <1>6, <1>7, <1>8, <1>9, Zenon DEF Flow!GatewaySettles
<1> QED BY <1>10, Zenon DEF Flow!Next, Flow!Gateway

(* The labels a check may go to, from what its answer is read as. *)
LEMMA ReadingsHold ==
  ASSUME NEW next,
         \/ next = "idle"
         \/ next = "finalizeSuccess" /\ GatewaysOfFlow[Payment] = "charged"
         \/ next = "finalizeFailure" /\ GatewaysOfFlow[Payment] = "declined"
  PROVE  next \in Flow!Readings(Payment)
<1>1. "httpError" \in {"httpError"} /\ "charged" # "declined"
  OBVIOUS
<1>2. GatewaysOfFlow[Payment] = "charged" => Flow!Outcomes(Payment) = {"finalizeSuccess"}
  BY <1>1, Zenon DEF Flow!Outcomes
<1>3. GatewaysOfFlow[Payment] = "declined" => Flow!Outcomes(Payment) = {"finalizeFailure"}
  BY <1>1, Zenon DEF Flow!Outcomes
<1>4. Flow!Readings(Payment) = Flow!Outcomes(Payment) \cup {"idle"}
  BY <1>1, Zenon DEF Flow!Readings
<1> QED BY <1>2, <1>3, <1>4, Zenon

(* A body that can be read ends the call: initiate is accepted or refused, a *)
(* check goes on with what it was told.                                      *)
LEMMA ReceiveMaps ==
  ASSUME ClientInv, NEW form \in Forms, Receive(form)
  PROVE  Flow!Next
<1>1. /\ pc = "wait" /\ replying /\ (Truthful \/ form = "broken")
      /\ UNCHANGED <<call, reference, transactionId, gateway>>
  BY DEF Receive
<1>2. call \in {"payment", "check"}
  BY <1>1, CallKnown
<1>3. UNCHANGED <<TicketsOfFlow, PaymentsOfFlow, GatewaysOfFlow, CallbacksOfFlow>>
  BY <1>1, TablesKept
<1>4. ASSUME call = "payment"
      PROVE  TasksOfFlow[Request].pc = "initiateHttp" /\ TasksOfFlow[Request].p = Payment
  BY <1>1, <1>4, TaskIs, TaskAt, AtIs DEF TaskCases
<1>5. CASE call = "payment" /\ Accepted(Fields(form, written))
  <2>1. pc' = "persist" /\ result' \in {"idle", "finalizeFailure"}
    BY <1>5, Zenon DEF Receive
  <2>2. GatewaysOfFlow[Payment] \in {"pushed", "charged", "declined"}
    <3>1. gateway[reference] \notin {"none", "refused"}
      BY <1>1, <1>5, AcceptedIsTaken
    <3>2. reference \in References /\ GatewayOfFlow = gateway[reference]
      BY <1>5, <3>1, CallKnown
    <3> QED BY <3>1, <3>2, TablesAt DEF ClientInv, ClientTypeOK
  <2>3. TaskOfFlow' = [Flow!Handling("initiatePersist", Payment) EXCEPT !.then = result']
    BY <2>1, TaskBecomes, AtIs DEF TaskCases
  <2>4. Flow!Become(Request, [Flow!Handling("initiatePersist", Payment) EXCEPT !.then = result'])
    BY <2>3, Moves, Zenon
  <2>5. Flow!InitiateAccepted(Request)
    BY <1>3, <1>4, <1>5, <2>1, <2>2, <2>4, Zenon DEF Flow!InitiateAccepted
  <2> QED BY <2>5, Zenon DEF Flow!Next, Flow!KelpayStep
<1>6. CASE call = "payment" /\ ~Accepted(Fields(form, written))
  <2>1. pc' = "done" /\ result' = "finalizeFailure" /\ call' = "payment"
    BY <1>1, <1>6, Zenon DEF Receive
  <2>2. TaskOfFlow' = Flow!Handling("finalizeFailure", Payment)
    BY <2>1, TaskBecomes, AtIs DEF TaskCases
  <2>3. Flow!Become(Request, Flow!Handling("finalizeFailure", TasksOfFlow[Request].p))
    BY <1>4, <1>6, <2>2, Moves, Zenon
  <2>4. "httpError" \in {"httpError"}
    OBVIOUS
  <2>5. Flow!InitiateRefused(Request)
    BY <1>3, <1>4, <1>6, <2>3, <2>4, Zenon DEF Flow!InitiateRefused
  <2> QED BY <2>5, Zenon DEF Flow!Next, Flow!KelpayStep
<1>7. CASE call = "check"
  <2> PICK v : v = VerifyBranch(Fields(form, written))
    OBVIOUS
  <2>1. "check" # "payment" /\ pc' = "done" /\ result' = Handler(v) /\ call' = "check"
    <3>1. "check" # "payment"
      OBVIOUS
    <3> QED BY <1>1, <1>7, <3>1, Zenon DEF Receive
  <2>2. /\ v \in {"success", "failed", "unknown"}
        /\ v = "success" => gateway[reference] = "charged"
        /\ v = "failed" => gateway[reference] = "declined"
    BY <1>1, <1>7, VerifyStated
  <2>3. /\ v = "success" => GatewaysOfFlow[Payment] = "charged"
        /\ v = "failed" => GatewaysOfFlow[Payment] = "declined"
    BY <1>7, <2>2, CallKnown, TablesAt
  <2>4. result' \in Flow!Readings(Payment)
    BY <2>1, <2>2, <2>3, HandlerOf, ReadingsHold
  <2>5. TaskOfFlow' = [Flow!Handling("checkRead", Payment) EXCEPT !.then = result']
    BY <2>1, TaskBecomes, AtIs DEF TaskCases
  <2>6. Flow!Become(Request, [Flow!Handling("checkRead", Payment) EXCEPT !.then = result'])
    BY <2>5, Moves, Zenon
  <2>7. TasksOfFlow[Request].pc = "checkHttp" /\ TasksOfFlow[Request].p = Payment
    BY <1>1, <1>7, TaskIs, TaskAt, AtIs DEF TaskCases
  <2>8. Flow!CheckAnswered(Request)
    BY <1>3, <2>4, <2>6, <2>7, Zenon DEF Flow!CheckAnswered
  <2> QED BY <2>8, Zenon DEF Flow!Next, Flow!KelpayStep
<1> QED BY <1>2, <1>5, <1>6, <1>7

(* initiate stores the transaction id, or goes on to fail without one. *)
LEMMA PersistMaps ==
  ASSUME ClientInv, Persist
  PROVE  Flow!Next
<1>1. /\ pc = "persist" /\ call = "payment" /\ result \in {"idle", "finalizeFailure"}
      /\ transactionId = FALSE /\ transactionId' \in BOOLEAN
      /\ transactionId' <=> result = "idle"
      /\ UNCHANGED <<call, result, reference, gateway>>
      /\ pc' = IF result = "idle" THEN "idle" ELSE "done"
  BY DEF ClientInv, ClientTypeOK, CallSound, Persist
<1>2. /\ TasksOfFlow[Request].pc = "initiatePersist" /\ TasksOfFlow[Request].p = Payment
      /\ TasksOfFlow[Request].then = result
  BY <1>1, TaskIs, TaskAt, AtIs DEF TaskCases
<1>3. PaymentsOfFlow' = [PaymentsOfFlow EXCEPT ![Payment].transactionId =
                           @ \/ TasksOfFlow[Request].then = "idle"]
  <2>1. /\ PaymentsOfFlow = [p \in {Payment} |->
             [status |-> "pending", ticketId |-> Ticket,
              method |-> "mobile_money", transactionId |-> transactionId]]
        /\ PaymentsOfFlow' = [p \in {Payment} |->
             [status |-> "pending", ticketId |-> Ticket,
              method |-> "mobile_money", transactionId |-> transactionId']]
    BY <1>1 DEF PaymentsOfFlow
  <2>2. transactionId' = (transactionId \/ result = "idle")
    BY DEF ClientInv, CallSound, Persist
  <2> QED BY <1>2, <2>1, <2>2
<1>4. UNCHANGED <<TicketsOfFlow, GatewaysOfFlow, CallbacksOfFlow>>
  BY <1>1, Zenon DEF TicketsOfFlow, GatewaysOfFlow, CallbacksOfFlow, GatewayOfFlow
<1>5. Flow!Continue(Request)
  <2>1. CASE result = "idle"
    <3>1. TaskOfFlow' = Flow!Idle
      BY <1>1, <2>1, TaskBecomes DEF TaskCases
    <3> QED BY <1>2, <2>1, <3>1, Moves, Zenon DEF Flow!Continue, Flow!Finish
  <2>2. CASE result = "finalizeFailure"
    <3>1. result # "idle"
      BY <2>2
    <3>2. TaskOfFlow' = Flow!Handling(result, Payment)
      BY <1>1, <3>1, TaskBecomes, AtIs DEF TaskCases
    <3> QED BY <1>2, <3>1, <3>2, Moves, Zenon DEF Flow!Continue
  <2> QED BY <1>1, <2>1, <2>2
<1>6. Flow!InitiatePersist(Request)
  BY <1>2, <1>3, <1>4, <1>5, Zenon DEF Flow!InitiatePersist
<1> QED BY <1>6, Zenon DEF Flow!Next, Flow!KelpayStep

LEMMA InitMaps == ClientInit => Flow!Init
<1> SUFFICES ASSUME ClientInit PROVE Flow!Init
  OBVIOUS
<1>1. call = "none" /\ pc = "idle"
  BY DEF ClientInit
<1>2. TasksOfFlow = [t \in {Request} |-> Flow!Idle]
  BY <1>1, TaskIs DEF TaskCases, TasksOfFlow
<1>3. PaymentsOfFlow = [p \in {Payment} |-> Flow!NoPayment]
  BY <1>1 DEF PaymentsOfFlow, At, Flow!NoPayment
<1>4. GatewaysOfFlow = [p \in {Payment} |-> "none"] /\ CallbacksOfFlow = {}
  BY <1>1 DEF GatewaysOfFlow, GatewayOfFlow, CallbacksOfFlow
<1> QED BY <1>2, <1>3, <1>4, Zenon DEF Flow!Init, TicketsOfFlow

LEMMA StepMaps ==
  ClientInv /\ [ClientNext]_clientVars => [Flow!Next]_(Flow!vars)
<1> SUFFICES ASSUME ClientInv, [ClientNext]_clientVars
             PROVE  Flow!Next \/ UNCHANGED Flow!vars
  OBVIOUS
<1>1. CASE UNCHANGED clientVars
  BY <1>1, CallKept DEF clientVars
<1>2. CASE ClientStep
  <2>1. CASE NotConfigured
    BY <2>1, ThrowMaps DEF NotConfigured
  <2>2. CASE Post
    BY <2>2, AttemptsHidden DEF Post
  <2>3. CASE Wake
    BY <2>3, AttemptsHidden DEF Wake
  <2> QED BY <1>2, <2>1, <2>2, <2>3, AttemptFailsMaps, PersistMaps, ReceiveMaps, Zenon
          DEF ClientStep
<1>3. CASE Kelpay
  <2>1. ASSUME NEW c \in Copy, LoseCopy(c)
        PROVE  UNCHANGED Flow!vars
    BY <2>1, CallKept DEF LoseCopy
  <2>2. ASSUME NEW f \in Field, WriteField(f)
        PROVE  UNCHANGED Flow!vars
    BY <2>2, CallKept DEF WriteField
  <2> QED BY <1>3, <2>1, <2>2, KelpayTakesMaps, CustomerAnswersMaps, Zenon DEF Kelpay
<1> QED BY <1>1, <1>2, <1>3, StartPaymentMaps, StartCheckMaps, Zenon DEF ClientNext

(* Retries, late and lost POSTs and every form of answer are no more than    *)
(* KelpayFlow says of one request: what is proved of the payments there      *)
(* holds with postJson and the parser in place.                              *)
THEOREM ClientIsFlow == ClientSpec => ImplementsFlow
BY InitMaps, StepMaps, ClientInvariant, PTL DEF ClientSpec, ImplementsFlow, Flow!Spec
=============================================================================
