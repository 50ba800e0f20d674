---------------------- MODULE ModificationApplierProofs ----------------------
(***************************************************************************)
(* Proofs about ModificationApplier, for every request, every list of      *)
(* modifications and every validation.  The argument: a write replaces one *)
(* node by a scalar and cuts off what is below, so the copy stays a dump;  *)
(* unless it touches an identifier or a container, every path still leads  *)
(* where it led in the original.                                           *)
(***************************************************************************)
EXTENDS ModificationApplier, SumsProofs

-----------------------------------------------------------------------------
\* Places.

\* Under is a comparison key by key.
LEMMA UnderIsPointwise ==
  ASSUME NEW S, NEW s \in Seq(S), NEW t \in Seq(S)
  PROVE  Under(s, t) <=> Len(s) <= Len(t) /\ \A k \in 1..Len(s) : s[k] = t[k]
<1>1. CASE Len(s) <= Len(t)
  <2> DEFINE a == SubSeq(s, 1, Len(s))
             b == SubSeq(t, 1, Len(s))
  <2>1. /\ Len(a) = Len(s) /\ \A k \in 1..Len(s) : a[k] = s[k]
        /\ Len(b) = Len(s) /\ \A k \in 1..Len(s) : b[k] = t[k]
        /\ a \in Seq(S) /\ b \in Seq(S) /\ Len(s) \in Nat
    BY <1>1
  <2>2. a = b <=> \A k \in 1..Len(s) : a[k] = b[k]
    <3> HIDE DEF a, b
    <3> QED
      BY <2>1
  <2>3. Under(s, t) <=> a = b
    BY <1>1 DEF Under, IsPrefix
  <2> QED
    BY <1>1, <2>1, <2>2, <2>3
<1>2. CASE ~(Len(s) <= Len(t))
  BY <1>2 DEF Under, IsPrefix
<1> QED
  BY <1>1, <1>2

\* A place is what leads to it and its key.
LEMMA FrontAndLast ==
  ASSUME NEW S, NEW p \in Seq(S), p # <<>>
  PROVE  Front(p) \in Seq(S) /\ Last(p) \in S /\ p = Append(Front(p), Last(p))
BY DEF Front, Last

LEMMA KeyOfAppend ==
  ASSUME NEW S, NEW p \in Seq(S), NEW x \in S
  PROVE  /\ Append(p, x) \in Seq(S) /\ Append(p, x) # <<>>
         /\ Front(Append(p, x)) = p /\ Last(Append(p, x)) = x
BY DEF Front, Last

\* What is under a place s, one key further.
LEMMA UnderAppended ==
  ASSUME NEW S, NEW s \in Seq(S), NEW p \in Seq(S), NEW x \in S
  PROVE  Under(s, Append(p, x)) <=> s = Append(p, x) \/ Under(s, p)
<1> DEFINE t == Append(p, x)
<1>1. /\ t \in Seq(S) /\ Len(t) = Len(p) + 1 /\ t[Len(p) + 1] = x
      /\ \A k \in 1..Len(p) : t[k] = p[k]
      /\ Len(p) \in Nat /\ Len(s) \in Nat
  OBVIOUS
<1> SUFFICES Under(s, t) <=> s = t \/ Under(s, p)
  OBVIOUS
<1> HIDE DEF t
<1>2. Under(s, t) <=> Len(s) <= Len(t) /\ \A k \in 1..Len(s) : s[k] = t[k]
  BY <1>1, UnderIsPointwise
<1>3. Under(s, p) <=> Len(s) <= Len(p) /\ \A k \in 1..Len(s) : s[k] = p[k]
  BY UnderIsPointwise
<1>4. s = t <=> Len(s) = Len(t) /\ \A k \in 1..Len(s) : s[k] = t[k]
  BY <1>1
<1>5. CASE Len(s) <= Len(p)
  BY <1>1, <1>2, <1>3, <1>4, <1>5
<1>6. CASE ~(Len(s) <= Len(p))
  <2>1. ~Under(s, p)
    BY <1>3, <1>6
  <2>2. Under(s, t) <=> s = t
    BY <1>1, <1>2, <1>4, <1>6
  <2> QED
    BY <2>1, <2>2
<1> QED
  BY <1>5, <1>6

\* Nothing longer leads to a place; every place leads to itself.
LEMMA UnderIsNoLonger ==
  ASSUME NEW S, NEW p \in Seq(S)
  PROVE  /\ Under(p, p)
         /\ \A x \in S : ~Under(Append(p, x), p) /\ ~Under(Append(p, x), <<>>)
<1>1. Under(p, p)
  BY UnderIsPointwise
<1>2. ASSUME NEW x \in S PROVE ~Under(Append(p, x), p) /\ ~Under(Append(p, x), <<>>)
  <2>1. Len(Append(p, x)) = Len(p) + 1 /\ Len(p) \in Nat /\ Len(<<>>) = 0
    OBVIOUS
  <2> QED
    BY <2>1 DEF Under, IsPrefix
<1> QED
  BY <1>1, <1>2

-----------------------------------------------------------------------------
\* Values and writes.

\* A coercion keeps the kind of a flag or a number, makes a string of anything else,
\* or raises one of two errors; done again it gives the same.
LEMMA CoerceKeepsKinds ==
  ASSUME NEW raw, NEW kind
  PROVE  /\ Coerce(raw, kind).kind \in {"bool", "int", "float", "str", "error"}
         /\ kind \in {"bool", "int", "float"} /\ Coerce(raw, kind).kind # "error" =>
              Coerce(raw, kind).kind = kind
         /\ Coerce(raw, kind).kind # "error" =>
              Coerce(raw, Coerce(raw, kind).kind) = Coerce(raw, kind)
         /\ Coerce(raw, kind).kind = "error" =>
              Coerce(raw, kind).value \in {"InvalidModificationError", "OverflowError"}
<1>1. Invalid.kind = "error" /\ Invalid.value = "InvalidModificationError"
  BY DEF Invalid, Error, Node
<1>2. CoerceBool(raw).kind = "bool" \/ CoerceBool(raw) = Invalid
  BY DEF CoerceBool, Node
<1>3. \/ CoerceInt(raw).kind = "int"
      \/ CoerceInt(raw) = Invalid
      \/ CoerceInt(raw).kind = "error" /\ CoerceInt(raw).value = "OverflowError"
  BY DEF CoerceInt, Error, Node
<1>4. CoerceFloat(raw).kind = "float" \/ CoerceFloat(raw) = Invalid
  BY DEF CoerceFloat, Node
<1>5. Node("str", raw).kind = "str"
  BY DEF Node
<1>6. /\ Coerce(raw, "bool") = CoerceBool(raw)
      /\ Coerce(raw, "int") = CoerceInt(raw)
      /\ Coerce(raw, "float") = CoerceFloat(raw)
      /\ kind \notin {"bool", "int", "float"} => Coerce(raw, kind) = Node("str", raw)
      /\ Coerce(raw, "str") = Node("str", raw)
  BY DEF Coerce
<1>7. CASE kind \in {"bool", "int", "float"}
  BY <1>1, <1>2, <1>3, <1>4, <1>6, <1>7
<1>8. CASE kind \notin {"bool", "int", "float"}
  BY <1>5, <1>6, <1>8
<1> QED
  BY <1>7, <1>8

\* What a dump is after a scalar was written to a place t of it.
Written(d, t, node) ==
  [p \in {q \in DOMAIN d : Under(t, q) => q = t} |-> IF p = t THEN node ELSE d[p]]

\* It is a dump: what a list or a dictionary needs is cut off only below t.
LEMMA WriteKeepsDump ==
  ASSUME NEW d, IsDump(d), NEW t \in DOMAIN d, t # <<>>, NEW node, node.kind \notin {"dict", "list"}
  PROVE  IsDump(Written(d, t, node))
<1> DEFINE e == Written(d, t, node)
<1>1. /\ DOMAIN e = {q \in DOMAIN d : Under(t, q) => q = t}
      /\ e[t] = node /\ t \in DOMAIN e
      /\ \A p \in DOMAIN e : p # t => e[p] = d[p]
  BY DEF Written
<1>2. /\ DOMAIN d \subseteq Seq(STRING)
      /\ <<>> \in DOMAIN d /\ d[<<>>].kind = "dict"
      /\ \A p \in DOMAIN d \ {<<>>} :
           /\ Front(p) \in DOMAIN d
           /\ \/ d[Front(p)].kind = "dict"
              \/ d[Front(p)].kind = "list" /\ \E n \in 1..d[Front(p)].value : Last(p) = Numerals[n]
      /\ \A p \in DOMAIN d : d[p].kind = "list" =>
           /\ d[p].value \in 0..Len(Numerals)
           /\ \A n \in 1..d[p].value : Append(p, Numerals[n]) \in DOMAIN d
  BY DEF IsDump
<1> HIDE DEF e
<1>3. t \in Seq(STRING)
  BY <1>2
\* What leads to a place of e is a place of e, and not t.
<1>4. ASSUME NEW p \in DOMAIN e, p # <<>>
      PROVE  Front(p) \in DOMAIN e /\ Front(p) # t
  <2> DEFINE f == Front(p)
             x == Last(p)
  <2>1. p \in Seq(STRING) /\ f \in DOMAIN d /\ f \in Seq(STRING)
    BY <1>1, <1>2, <1>4
  <2>2. f \in Seq(STRING) /\ x \in STRING /\ p = Append(f, x)
    BY <1>4, <2>1, FrontAndLast
  <2> HIDE DEF f, x
  <2>3. Under(t, p) <=> t = p \/ Under(t, f)
    BY <1>3, <2>2, UnderAppended
  <2>4. Under(t, p) => p = t
    BY <1>1
  <2>5. ~Under(t, f)
    <3>1. ASSUME Under(t, f) PROVE FALSE
      <4>1. t = Append(f, x)
        BY <2>2, <2>3, <2>4, <3>1
      <4>2. ~Under(Append(f, x), f)
        BY <2>2, UnderIsNoLonger
      <4> QED
        BY <3>1, <4>1, <4>2
    <3> QED
      BY <3>1
  <2>6. f # t
    BY <1>3, <2>5, UnderIsNoLonger
  <2> QED
    BY <1>1, <2>1, <2>5, <2>6 DEF f
<1>5. DOMAIN e \subseteq Seq(STRING)
  BY <1>1, <1>2
<1>6. <<>> \in DOMAIN e /\ e[<<>>].kind = "dict"
  <2>1. ~Under(t, <<>>)
    <3>1. Front(t) \in Seq(STRING) /\ Last(t) \in STRING /\ t = Append(Front(t), Last(t))
      BY <1>3, FrontAndLast
    <3> QED
      BY <3>1, UnderIsNoLonger
  <2> QED
    BY <1>1, <1>2, <2>1
<1>7. ASSUME NEW p \in DOMAIN e \ {<<>>}
      PROVE  /\ Front(p) \in DOMAIN e
             /\ \/ e[Front(p)].kind = "dict"
                \/ e[Front(p)].kind = "list" /\ \E n \in 1..e[Front(p)].value : Last(p) = Numerals[n]
  <2>1. Front(p) \in DOMAIN e /\ e[Front(p)] = d[Front(p)] /\ p \in DOMAIN d
    BY <1>1, <1>4, <1>7
  <2> QED
    BY <1>2, <1>7, <2>1
<1>8. ASSUME NEW p \in DOMAIN e, e[p].kind = "list"
      PROVE  /\ e[p].value \in 0..Len(Numerals)
             /\ \A n \in 1..e[p].value : Append(p, Numerals[n]) \in DOMAIN e
  <2>1. p # t /\ e[p] = d[p] /\ p \in DOMAIN d /\ p \in Seq(STRING)
    BY <1>1, <1>2, <1>8
  <2>2. d[p].value \in 0..Len(Numerals) /\ \A n \in 1..d[p].value : Append(p, Numerals[n]) \in DOMAIN d
    BY <1>2, <1>8, <2>1
  <2>3. ASSUME NEW n \in 1..d[p].value PROVE Append(p, Numerals[n]) \in DOMAIN e
    <3>1. Numerals[n] \in STRING
      <4>1. Numerals \in Seq(STRING) /\ n \in 1..Len(Numerals)
        BY <2>2, NumeralsAssumption
      <4> QED
        BY <4>1
    <3>2. Under(t, Append(p, Numerals[n])) <=> t = Append(p, Numerals[n]) \/ Under(t, p)
      BY <1>3, <2>1, <3>1, UnderAppended
    <3>3. ~Under(t, p)
      BY <1>1, <2>1
    <3> QED
      BY <1>1, <2>2, <3>2, <3>3
  <2> QED
    BY <2>1, <2>2, <2>3
<1> QED
  BY <1>5, <1>6, <1>7, <1>8 DEF IsDump, e

-----------------------------------------------------------------------------
\* The walk.

\* The segments of a modification are what ModListsAssumption says.
LEMMA SegmentTyped ==
  ASSUME TypeOK, Walking
  PROVE  /\ turn \in 1..Len(mods) /\ turn \in DOMAIN mods /\ Len(mods) \in Nat
         /\ Mod \in WhatIfModification
         /\ step \in 1..Len(Mod.path) /\ Len(Mod.path) \in Nat
         /\ Segment \in Segments
<1>1. mods \in Seq(WhatIfModification) /\ turn \in 1..Len(mods) + 1 /\ turn <= Len(mods)
  BY DEF TypeOK, Walking
<1>2. Len(mods) \in Nat /\ turn \in 1..Len(mods) /\ DOMAIN mods = 1..Len(mods)
  BY <1>1
<1>3. mods[turn] \in WhatIfModification
  BY <1>1, <1>2
<1>4. Mod.path \in Seq(Segments)
  BY <1>3 DEF Mod, WhatIfModification
<1>5. step \in DOMAIN Mod.path
  BY <1>2 DEF TypeOK
<1>6. step \in 1..Len(Mod.path) /\ Len(Mod.path) \in Nat /\ Mod.path[step] \in Segments
  BY <1>4, <1>5
<1> QED
  BY <1>2, <1>3, <1>6 DEF Mod, Segment

\* What a segment that resolves leads to is there.
LEMMA TargetIsThere ==
  ASSUME TypeOK, Walking, Resolves(data, cursor, Segment, IsLast)
  PROVE  /\ Segment.key \in STRING /\ cursor \in Seq(STRING)
         /\ Target = Append(cursor, Segment.key)
         /\ Target \in DOMAIN data /\ Target \in Seq(STRING) /\ Target # <<>>
         /\ data[cursor].kind = "dict"
         /\ Segment.index # None => data[Target].kind = "list" /\ ~IsLast
<1>1. Segment \in Segments /\ Segment # Malformed
  BY SegmentTyped DEF Resolves
<1>2. Segment.key \in STRING
  BY <1>1 DEF Segments
<1>3. cursor \in DOMAIN data /\ DOMAIN data \subseteq Seq(STRING)
  BY DEF TypeOK, IsDump
<1>4. data[cursor].kind = "dict" /\ Append(cursor, Segment.key) \in DOMAIN data
  BY DEF Resolves, Has
<1>5. Segment.index # None => data[Target].kind = "list" /\ ~IsLast
  BY DEF Resolves, Target
<1> QED
  BY <1>2, <1>3, <1>4, <1>5, KeyOfAppend DEF Target

\* At most one item is found, and it is there.
LEMMA ItemFound ==
  ASSUME NEW d, IsDump(d), NEW list \in DOMAIN d, d[list].kind = "list", NEW key,
         NEW n \in FindListItem(d, list, key)
  PROVE  /\ FindListItem(d, list, key) = {n}
         /\ Min(FindListItem(d, list, key)) = n
         /\ n \in 1..d[list].value
         /\ Item(list, n) \in DOMAIN d
<1>1. /\ d[list].value \in 0..Len(Numerals)
      /\ \A k \in 1..d[list].value : Append(list, Numerals[k]) \in DOMAIN d
  BY DEF IsDump
<1>2. \A k \in 1..d[list].value : k \in DOMAIN Numerals /\ k \in Int
  BY <1>1, NumeralsAssumption
<1>3. n \in 1..d[list].value /\ \A k \in FindListItem(d, list, key) : k = n
  <2>1. CASE key \in DOMAIN Digits
    BY <1>2, <2>1, NumeralsAssumption DEF FindListItem
  <2>2. CASE key \notin DOMAIN Digits
    <3> DEFINE found == {k \in 1..d[list].value : Identified(d, Item(list, k), key)}
    <3>1. FindListItem(d, list, key) = {k \in found : \A j \in found : k <= j}
      BY <2>2 DEF FindListItem
    <3>2. \A k \in found : k \in 1..d[list].value /\ k \in Int
      BY <1>2
    <3> HIDE DEF found
    <3> QED
      BY <3>1, <3>2
  <2> QED
    BY <2>1, <2>2
<1>4. FindListItem(d, list, key) = {n}
  BY <1>3
<1>5. Min({n}) = n
  <2>1. {n} \subseteq Int /\ \A y \in {n} : n <= y
    BY <1>2, <1>3
  <2> QED
    BY <2>1, MinIs
<1> QED
  BY <1>1, <1>3, <1>4, <1>5 DEF Item

\* The places on the way, one by one.
LEMMA WalkGoesOn ==
  ASSUME NEW d, NEW path, Len(path) \in Nat
  PROVE  /\ Walk(d, path)[0] = <<>>
         /\ \A i \in 1..Len(path) : Walk(d, path)[i] = Beyond(d, Walk(d, path)[i - 1], path[i])
<1> DEFINE n == Len(path)
           IsWalk(at, m) ==
             at = [i \in 0..m |-> IF i = 0 THEN <<>> ELSE Beyond(d, at[i - 1], path[i])]
           P == {m \in 0..n : \E at : IsWalk(at, m)}
<1> HIDE DEF n
<1>0. n \in Nat
  BY DEF n
<1>1. 0 \in P
  <2> DEFINE at == [i \in 0..0 |-> <<>>]
  <2>1. \A i \in 0..0 : i = 0 /\ at[i] = <<>>
    OBVIOUS
  <2>2. at = [i \in 0..0 |-> at[i]]
    OBVIOUS
  <2>3. IsWalk(at, 0)
    <3> HIDE DEF at
    <3> QED
      BY <2>1, <2>2
  <2>4. \E g : IsWalk(g, 0)
    <3> HIDE DEF at, IsWalk
    <3> QED
      BY <2>3
  <2>5. 0 \in 0..n
    BY <1>0
  <2> QED
    BY <2>4, <2>5
<1>2. ASSUME NEW m \in 0..n - 1, m \in P PROVE m + 1 \in P
  <2>1. PICK at : IsWalk(at, m)
    BY <1>2
  <2> DEFINE further == [i \in 0..m + 1 |-> IF i = m + 1 THEN Beyond(d, at[m], path[m + 1]) ELSE at[i]]
  <2>2. \A i \in 0..m : at[i] = IF i = 0 THEN <<>> ELSE Beyond(d, at[i - 1], path[i])
    BY <2>1
  <2>3. \A i \in 0..m + 1 :
          further[i] = IF i = 0 THEN <<>> ELSE Beyond(d, further[i - 1], path[i])
    <3> SUFFICES ASSUME NEW i \in 0..m + 1
                 PROVE  further[i] = IF i = 0 THEN <<>> ELSE Beyond(d, further[i - 1], path[i])
      OBVIOUS
    <3>1. CASE i = m + 1
      <4>1. further[i] = Beyond(d, at[m], path[m + 1]) /\ i # 0 /\ i - 1 = m
        BY <3>1
      <4>2. further[m] = at[m]
        OBVIOUS
      <4> QED
        BY <3>1, <4>1, <4>2
    <3>2. CASE i # m + 1
      <4>1. i \in 0..m /\ further[i] = at[i]
        BY <3>2
      <4>2. i # 0 => i - 1 \in 0..m + 1 /\ further[i - 1] = at[i - 1]
        BY <3>2
      <4> HIDE DEF further
      <4> QED
        BY <2>2, <4>1, <4>2
    <3> QED
      BY <3>1, <3>2
  <2>4. further = [i \in 0..m + 1 |-> further[i]]
    OBVIOUS
  <2>5. IsWalk(further, m + 1)
    <3> HIDE DEF further
    <3> QED
      BY <2>3, <2>4
  <2>6. m + 1 \in 0..n
    BY <1>0
  <2> QED
    BY <2>5, <2>6
<1>3. n \in P
  <2> HIDE DEF P
  <2>1. \A m \in 0..n : m \in P
    BY <1>0, <1>1, <1>2, RangeInduction
  <2> QED
    BY <1>0, <2>1
<1>4. IsWalk(CHOOSE at : IsWalk(at, n), n)
  BY <1>3
<1>5. Walk(d, path) = CHOOSE at : IsWalk(at, n)
  BY DEF Walk, n
<1>6. Walk(d, path) = [i \in 0..n |-> IF i = 0 THEN <<>> ELSE Beyond(d, Walk(d, path)[i - 1], path[i])]
  BY <1>4, <1>5
<1> DEFINE w == Walk(d, path)
<1> HIDE DEF w
<1>7. w = [i \in 0..n |-> IF i = 0 THEN <<>> ELSE Beyond(d, w[i - 1], path[i])]
  BY <1>6 DEF w
<1>8. w[0] = <<>> /\ \A i \in 1..n : w[i] = Beyond(d, w[i - 1], path[i])
  BY <1>0, <1>7
<1> QED
  BY <1>8 DEF w, n

\* Nothing is below a node that is neither a dictionary nor a list.
LEMMA ScalarIsALeaf ==
  ASSUME NEW d, IsDump(d), NEW t \in DOMAIN d, d[t].kind \notin {"dict", "list"},
         NEW q \in DOMAIN d, Under(t, q)
  PROVE  q = t
<1>1. /\ DOMAIN d \subseteq Seq(STRING)
      /\ \A p \in DOMAIN d \ {<<>>} : Front(p) \in DOMAIN d /\ d[Front(p)].kind \in {"dict", "list"}
      /\ d[<<>>].kind = "dict"
  BY DEF IsDump
<1> DEFINE n == Len(q)
           P == {k \in 0..n : \A p \in DOMAIN d : Len(p) = k /\ Under(t, p) => p = t}
<1>2. n \in Nat /\ t \in Seq(STRING) /\ t # <<>>
  BY <1>1
<1>3. 0 \in P
  <2>1. ASSUME NEW p \in DOMAIN d, Len(p) = 0, Under(t, p) PROVE p = t
    <3>1. p = <<>>
      BY <1>1, <2>1
    <3>2. Front(t) \in Seq(STRING) /\ Last(t) \in STRING /\ t = Append(Front(t), Last(t))
      BY <1>2, FrontAndLast
    <3>3. ~Under(t, <<>>)
      BY <3>2, UnderIsNoLonger
    <3> QED
      BY <2>1, <3>1, <3>3
  <2> QED
    BY <1>2, <2>1
<1>4. ASSUME NEW k \in 0..n - 1, k \in P PROVE k + 1 \in P
  <2>1. ASSUME NEW p \in DOMAIN d, Len(p) = k + 1, Under(t, p) PROVE p = t
    <3> DEFINE f == Front(p)
               x == Last(p)
    <3>0. p \in Seq(STRING) /\ p # <<>>
      BY <1>1, <2>1
    <3>1. f \in Seq(STRING) /\ x \in STRING /\ p = Append(f, x)
      BY <3>0, FrontAndLast
    <3>2. f \in DOMAIN d /\ d[f].kind \in {"dict", "list"}
      BY <1>1, <3>0
    <3> HIDE DEF f, x
    <3>3. Len(f) = k
      <4>1. Len(p) = Len(f) + 1 /\ Len(f) \in Nat
        BY <3>1
      <4> QED
        BY <2>1, <4>1
    <3>4. t = p \/ Under(t, f)
      BY <1>2, <2>1, <3>1, UnderAppended
    <3>5. Under(t, f) => f = t
      BY <1>4, <3>2, <3>3
    <3> QED
      BY <3>2, <3>4, <3>5
  <2> QED
    BY <1>2, <2>1
<1>5. n \in P
  <2> HIDE DEF P, n
  <2>1. \A k \in 0..n : k \in P
    BY <1>2, <1>3, <1>4, RangeInduction
  <2> QED
    BY <1>2, <2>1
<1> QED
  BY <1>5

-----------------------------------------------------------------------------
\* The copy resolves like the original, as long as no write redirects.

NoneRedirects == \A j \in DOMAIN writes : ~Redirects(writes[j])

LEMMA FoundAlike ==
  ASSUME IsDump(data), DOMAIN data = DOMAIN original,
         \A p \in DOMAIN data : data[p].kind \in {"dict", "list"} => data[p] = original[p],
         \A p \in DOMAIN data : Resolving(p) => data[p] = original[p],
         NEW list \in DOMAIN data, data[list].kind = "list", NEW key
  PROVE  FindListItem(data, list, key) = FindListItem(original, list, key)
<1>1. data[list] = original[list]
  OBVIOUS
<1>2. ASSUME NEW n \in 1..data[list].value
      PROVE  Identified(data, Item(list, n), key) <=> Identified(original, Item(list, n), key)
  <2> DEFINE item == Item(list, n)
  <2>1. item \in DOMAIN data /\ item \in Seq(STRING)
    BY DEF IsDump, Item
  <2> HIDE DEF item
  <2>2. data[item].kind = "dict" <=> original[item].kind = "dict"
    BY <2>1 DEF Resolving
  <2>3. ASSUME NEW f \in IdFields, Append(item, f) \in DOMAIN data
        PROVE  data[Append(item, f)] = original[Append(item, f)]
    <3>1. f \in STRING \cup IdFields /\ item \in Seq(STRING \cup IdFields)
      BY <2>1
    <3>2. Last(Append(item, f)) = f
      BY <3>1, KeyOfAppend
    <3> QED
      BY <2>3, <3>2 DEF Resolving
  <2>4. \A f \in IdFields :
          /\ Has(data, item, f) <=> Has(original, item, f)
          /\ Has(data, item, f) => data[Append(item, f)] = original[Append(item, f)]
    BY <2>1, <2>2, <2>3 DEF Has
  <2> QED
    BY <2>4 DEF Identified, item
<1>3. {n \in 1..data[list].value : Identified(data, Item(list, n), key)}
        = {n \in 1..original[list].value : Identified(original, Item(list, n), key)}
  BY <1>1, <1>2
<1>4. CASE key \in DOMAIN Digits
  BY <1>1, <1>4 DEF FindListItem
<1>5. CASE key \notin DOMAIN Digits
  BY <1>3, <1>5 DEF FindListItem
<1> QED
  BY <1>4, <1>5

\* A segment that resolves in the copy leads where it led in the original.
LEMMA LeadsAlike ==
  ASSUME TypeOK, PathsResolveAlike, NoneRedirects, Walking,
         Resolves(data, cursor, Segment, IsLast)
  PROVE  /\ cursor = Walk(original, Mod.path)[step - 1]
         /\ Segment.index = None => Target = Walk(original, Mod.path)[step]
         /\ Segment.index # None =>
              \A n \in FindListItem(data, Target, Segment.index) :
                Item(Target, n) = Walk(original, Mod.path)[step]
<1>1. /\ DOMAIN data = DOMAIN original
      /\ \A p \in DOMAIN data : data[p].kind \in {"dict", "list"} => data[p] = original[p]
      /\ \A p \in DOMAIN data : Resolving(p) => data[p] = original[p]
      /\ cursor = Walk(original, Mod.path)[step - 1]
  BY DEF PathsResolveAlike, NoneRedirects, Walking
<1>2. Len(Mod.path) \in Nat /\ step \in 1..Len(Mod.path)
  BY SegmentTyped
<1>3. Walk(original, Mod.path)[step] = Beyond(original, cursor, Segment)
  BY <1>1, <1>2, WalkGoesOn DEF Segment
<1>4. ASSUME Segment.index # None, NEW n \in FindListItem(data, Target, Segment.index)
      PROVE  Item(Target, n) = Beyond(original, cursor, Segment)
  <2>1. Target \in DOMAIN data /\ data[Target].kind = "list" /\ Target = Append(cursor, Segment.key)
    BY <1>4, TargetIsThere
  <2>2. IsDump(data)
    BY DEF TypeOK
  <2>3. FindListItem(data, Target, Segment.index) = FindListItem(original, Target, Segment.index)
    BY <1>1, <2>1, <2>2, FoundAlike
  <2>4. Min(FindListItem(data, Target, Segment.index)) = n
    BY <1>4, <2>1, <2>2, ItemFound
  <2> QED
    BY <1>4, <2>1, <2>3, <2>4 DEF Beyond
<1> QED
  BY <1>1, <1>3, <1>4, TargetIsThere DEF Beyond

-----------------------------------------------------------------------------
\* The invariant, step by step.

LEMMA InitInvariant == Init => IInv
<1> SUFFICES ASSUME Init PROVE IInv
  OBVIOUS
<1>1. /\ original \in Originals /\ mods \in ModLists
      /\ data = original /\ turn = 1 /\ step = 1 /\ cursor = <<>>
      /\ writes = <<>> /\ outcome = "none"
  BY DEF Init
<1>2. IsDump(original) /\ IsDump(data) /\ <<>> \in DOMAIN data
  BY <1>1, OriginalsAssumption DEF IsDump
<1>3. mods \in Seq(WhatIfModification) /\ Len(mods) \in Nat
  BY <1>1, ModListsAssumption
<1>4. turn <= Len(mods) => Mod.path \in Seq(Segments) \ {<<>>}
  <2>1. turn <= Len(mods) => mods[turn] \in WhatIfModification
    BY <1>1, <1>3
  <2> QED
    BY <2>1 DEF Mod, WhatIfModification
<1>5. turn <= Len(mods) => step \in DOMAIN Mod.path /\ Len(Mod.path) \in Nat
  BY <1>1, <1>4
<1>6. TypeOK
  <2>1. turn \in 1..Len(mods) + 1
    BY <1>1, <1>3
  <2>2. writes \in Seq(Write)
    BY <1>1
  <2> QED
    BY <1>1, <1>2, <1>3, <1>5, <2>1, <2>2 DEF TypeOK
<1>7. KindsAreKept
  BY <1>1 DEF KindsAreKept
<1>8. DOMAIN writes = {}
  BY <1>1
<1>9. WritesAreKept
  BY <1>1, <1>8 DEF WritesAreKept
<1>10. PathsResolveAlike
  <2>1. turn <= Len(mods) => Walk(original, Mod.path)[step - 1] = <<>>
    BY <1>1, <1>5, WalkGoesOn
  <2> QED
    BY <1>1, <2>1 DEF PathsResolveAlike
<1>11. ReachesWhatItNames
  BY <1>8 DEF ReachesWhatItNames
<1> QED
  BY <1>6, <1>7, <1>9, <1>10, <1>11 DEF IInv

\* A step of the walk moves the cursor to a place that the path denotes.
LEMMA WalkKeepsInvariant ==
  ASSUME IInv, Walking, ~IsLast, cursor' \in DOMAIN data, step' = step + 1,
         NoneRedirects => cursor' = Walk(original, Mod.path)[step],
         UNCHANGED <<original, mods, data, turn, writes, outcome>>
  PROVE  IInv'
<1>1. step \in 1..Len(Mod.path) /\ Len(Mod.path) \in Nat /\ Mod.path \in Seq(Segments)
  <2>1. TypeOK
    BY DEF IInv
  <2>2. Mod \in WhatIfModification
    BY <2>1, SegmentTyped
  <2>3. Mod.path \in Seq(Segments)
    BY <2>2 DEF WhatIfModification
  <2> QED
    BY <2>1, <2>3, SegmentTyped
<1>2. Mod' = Mod
  BY DEF Mod
<1>3. step' \in DOMAIN Mod.path /\ step' - 1 = step
  <2>1. step # Len(Mod.path)
    BY DEF IsLast
  <2> QED
    BY <1>1, <2>1
<1>4. TypeOK'
  BY <1>2, <1>3 DEF IInv, TypeOK, Write
<1>5. KindsAreKept'
  BY DEF IInv, KindsAreKept
<1>6. WritesAreKept'
  BY DEF IInv, WritesAreKept
<1>7. PathsResolveAlike'
  <2>1. PathsResolveAlike
    BY DEF IInv
  <2>2. (\A j \in DOMAIN writes' : ~Redirects(writes[j])') => NoneRedirects
    BY DEF NoneRedirects, Redirects, Resolving
  <2> QED
    BY <1>2, <1>3, <2>1, <2>2 DEF PathsResolveAlike, NoneRedirects, Redirects, Resolving
<1>8. ReachesWhatItNames'
  BY DEF IInv, ReachesWhatItNames, Redirects, Resolving
<1> QED
  BY <1>4, <1>5, <1>6, <1>7, <1>8 DEF IInv

\* A step of the outcome alone.
LEMMA OutcomeKeepsInvariant ==
  ASSUME IInv,
         UNCHANGED <<original, mods, data, turn, step, cursor, writes>>,
         outcome' \in {"none", "applied", "InvalidModificationError", "ValueError",
                       "OverflowError"},
         outcome' = "applied" => turn > Len(mods)
  PROVE  IInv'
<1>1. Mod' = Mod
  BY DEF Mod
<1>2. TypeOK'
  BY <1>1 DEF IInv, TypeOK, Write
<1>3. KindsAreKept'
  BY DEF IInv, KindsAreKept
<1>4. WritesAreKept'
  BY DEF IInv, WritesAreKept
<1>5. PathsResolveAlike'
  BY <1>1 DEF IInv, PathsResolveAlike, Redirects, Resolving
<1>6. ReachesWhatItNames'
  BY DEF IInv, ReachesWhatItNames, Redirects, Resolving
<1> QED
  BY <1>2, <1>3, <1>4, <1>5, <1>6 DEF IInv

\* A write keeps the copy a dump with the kinds of the original, does not hide an
\* earlier write but by writing over it, and reaches what its path denotes.
LEMMA WriteKeepsInvariant ==
  ASSUME IInv, SetField
  PROVE  IInv'
<1> DEFINE t == Target
           new == Coerce(Mod.value, data[Target].kind)
<1>1. /\ TypeOK /\ Walking /\ outcome = "none" /\ turn <= Len(mods)
      /\ Resolves(data, cursor, Segment, IsLast)
      /\ Segment.index = None /\ IsLast
      /\ new.kind # "error"
      /\ data' = Written(data, t, new)
      /\ writes' = Append(writes, [turn |-> turn, place |-> t, kind |-> new.kind])
      /\ turn' = turn + 1 /\ step' = 1 /\ cursor' = <<>>
      /\ original' = original /\ mods' = mods /\ outcome' = outcome
  BY DEF IInv, SetField, AtField, Walking, Written
<1>2. t \in DOMAIN data /\ t # <<>> /\ t \in Seq(STRING)
  BY <1>1, TargetIsThere
<1>3. /\ new.kind \in {"bool", "int", "float", "str"}
      /\ data[t].kind \in {"bool", "int", "float"} => new.kind = data[t].kind
      /\ new = Coerce(Mod.value, new.kind)
  BY <1>1, CoerceKeepsKinds
<1>4. /\ turn \in 1..Len(mods) /\ Len(mods) \in Nat /\ mods \in Seq(WhatIfModification)
      /\ Mod = mods[turn] /\ writes \in Seq(Write) /\ Len(writes) = turn - 1
      /\ DOMAIN data \subseteq DOMAIN original /\ DOMAIN original \subseteq Seq(STRING)
      /\ IsDump(data) /\ IsDump(original)
  BY <1>1, SegmentTyped DEF IInv, TypeOK, Mod, WritesAreKept, PathsResolveAlike, IsDump
<1>w. Mod' = mods[turn + 1]
  BY <1>1 DEF Mod
<1> HIDE DEF t, new
<1>5. /\ DOMAIN data' = {q \in DOMAIN data : Under(t, q) => q = t}
      /\ DOMAIN data' \subseteq DOMAIN data
      /\ t \in DOMAIN data' /\ data'[t] = new
      /\ \A p \in DOMAIN data' : p # t => data'[p] = data[p]
  BY <1>1, <1>2 DEF Written
<1>6. /\ Len(writes') = turn /\ DOMAIN writes' = 1..turn /\ DOMAIN writes = 1..turn - 1
      /\ writes'[turn] = [turn |-> turn, place |-> t, kind |-> new.kind]
      /\ \A i \in 1..turn - 1 : writes'[i] = writes[i]
      /\ writes' \in Seq(Write)
  <2>1. [turn |-> turn, place |-> t, kind |-> new.kind] \in Write
    BY <1>2, <1>3, <1>4 DEF Write, Kinds
  <2>2. Len(writes) \in Nat /\ Len(writes) + 1 = turn /\ DOMAIN writes = 1..Len(writes)
    BY <1>4
  <2> DEFINE last == [turn |-> turn, place |-> t, kind |-> new.kind]
  <2> HIDE DEF last
  <2>3. /\ Append(writes, last) \in Seq(Write)
        /\ Len(Append(writes, last)) = Len(writes) + 1
        /\ Append(writes, last)[Len(writes) + 1] = last
        /\ \A i \in 1..Len(writes) : Append(writes, last)[i] = writes[i]
    BY <1>4, <2>1 DEF last
  <2>4. writes' = Append(writes, last)
    BY <1>1 DEF last
  <2>5. Len(writes) = turn - 1
    BY <1>4
  <2>6. writes' \in Seq(Write) /\ Len(writes') = turn
    BY <2>2, <2>3, <2>4
  <2>7. DOMAIN writes' = 1..turn
    BY <2>6
  <2> QED
    BY <2>2, <2>3, <2>4, <2>5, <2>6, <2>7 DEF last
<1>7. turn + 1 <= Len(mods) => /\ Mod'.path \in Seq(Segments) \ {<<>>}
                               /\ Len(Mod'.path) \in Nat /\ 1 \in DOMAIN Mod'.path
  <2>1. turn + 1 <= Len(mods) => mods[turn + 1] \in WhatIfModification
    BY <1>4
  <2>2. turn + 1 <= Len(mods) => Mod'.path \in Seq(Segments) \ {<<>>}
    BY <1>w, <2>1 DEF WhatIfModification
  <2> QED
    BY <2>2
<1>8. TypeOK'
  <2>1. IsDump(data')
    BY <1>1, <1>2, <1>3, <1>4, WriteKeepsDump
  <2>2. IsDump(original)' /\ IsDump(data)'
    BY <1>1, <1>4, <2>1 DEF IsDump
  <2>3. <<>> \in DOMAIN data'
    BY <2>1 DEF IsDump
  <2>4. writes' \in Seq(Write')
    BY <1>1, <1>6 DEF Write
  <2>5. outcome' \in {"none", "applied", "InvalidModificationError", "ValueError",
                      "OverflowError"}
    BY <1>1
  <2> QED
    BY <1>1, <1>4, <1>7, <2>2, <2>3, <2>4, <2>5 DEF TypeOK
<1>9. KindsAreKept'
  <2>1. \A p \in DOMAIN data :
          original[p].kind \in {"bool", "int", "float"} => data[p].kind = original[p].kind
    BY DEF IInv, KindsAreKept
  <2>2. ASSUME NEW p \in DOMAIN data', original[p].kind \in {"bool", "int", "float"}
        PROVE  data'[p].kind = original[p].kind
    <3>1. p \in DOMAIN data /\ data[p].kind = original[p].kind
      BY <1>5, <2>1, <2>2
    <3>2. CASE p = t
      BY <1>3, <1>5, <2>2, <3>1, <3>2
    <3>3. CASE p # t
      BY <1>5, <2>2, <3>1, <3>3
    <3> QED
      BY <3>2, <3>3
  <2> QED
    BY <1>1, <2>2 DEF KindsAreKept
<1>10. WritesAreKept'
  <2>1. ASSUME NEW i \in 1..turn - 1
        PROVE  /\ writes[i].turn = i
               /\ \/ /\ writes[i].place \in DOMAIN data'
                     /\ data'[writes[i].place] = Coerce(mods[i].value, writes[i].kind)
                  \/ \E j \in i + 1..turn : Under(writes'[j].place, writes[i].place)
    <3> DEFINE p == writes[i].place
    <3>1. /\ writes[i].turn = i
          /\ \/ p \in DOMAIN data /\ data[p] = Coerce(mods[i].value, writes[i].kind)
             \/ \E j \in i + 1..turn - 1 : Under(writes[j].place, p)
      BY <1>4, <1>6 DEF IInv, WritesAreKept
    <3> HIDE DEF p
    <3>2. CASE p \in DOMAIN data /\ data[p] = Coerce(mods[i].value, writes[i].kind)
      <4>1. CASE Under(t, p)
        <5>1. writes'[turn].place = t /\ turn \in i + 1..turn
          BY <1>4, <1>6
        <5> QED
          BY <3>1, <4>1, <5>1 DEF p
      <4>2. CASE ~Under(t, p)
        <5>1. p # t
          BY <1>2, <4>2, UnderIsNoLonger
        <5>2. p \in DOMAIN data' /\ data'[p] = data[p]
          BY <1>5, <3>2, <4>2, <5>1
        <5> QED
          BY <3>1, <3>2, <5>2 DEF p
      <4> QED
        BY <4>1, <4>2
    <3>3. CASE \E j \in i + 1..turn - 1 : Under(writes[j].place, p)
      <4>1. PICK j \in i + 1..turn - 1 : Under(writes[j].place, p)
        BY <3>3
      <4>2. j \in i + 1..turn /\ writes'[j] = writes[j]
        BY <1>4, <1>6, <4>1
      <4> QED
        BY <3>1, <4>1, <4>2 DEF p
    <3> QED
      BY <3>1, <3>2, <3>3
  <2>2. /\ writes'[turn].turn = turn /\ writes'[turn].place = t /\ writes'[turn].kind = new.kind
        /\ t \in DOMAIN data' /\ data'[t] = Coerce(mods[turn].value, new.kind)
    <3>1. new = Coerce(mods[turn].value, new.kind)
      BY <1>3, <1>4
    <3> QED
      BY <1>5, <1>6, <3>1
  <2>3. ASSUME NEW i \in DOMAIN writes'
        PROVE  /\ writes'[i].turn = i
               /\ \/ /\ writes'[i].place \in DOMAIN data'
                     /\ data'[writes'[i].place] = Coerce(mods'[i].value, writes'[i].kind)
                  \/ \E j \in i + 1..Len(writes') : Under(writes'[j].place, writes'[i].place)
    <3>1. CASE i = turn
      BY <1>1, <2>2, <3>1
    <3>2. CASE i # turn
      <4>1. i \in 1..turn - 1 /\ writes'[i] = writes[i]
        BY <1>4, <1>6, <3>2
      <4> QED
        BY <1>1, <1>6, <2>1, <4>1
    <3> QED
      BY <3>1, <3>2
  <2>4. Len(writes') = turn' - 1 /\ ~(outcome' = "applied")
    BY <1>1, <1>4, <1>6
  <2> QED
    BY <2>3, <2>4 DEF WritesAreKept
\* As long as no write redirects: so far, and after this one.
<1>11. (\A j \in DOMAIN writes' : ~Redirects(writes[j])') => NoneRedirects /\ ~Resolving(t)
  <2>1. ASSUME \A j \in DOMAIN writes' : ~Redirects(writes[j])'
        PROVE  NoneRedirects /\ ~Resolving(t)
    <3>1. \A p : Resolving(p)' <=> Resolving(p)
      BY <1>1 DEF Resolving
    <3>2. \A j \in 1..turn : ~Resolving(writes'[j].place)
      BY <1>6, <2>1, <3>1 DEF Redirects
    <3>3. \A j \in 1..turn - 1 : ~Resolving(writes[j].place)
      <4>1. \A j \in 1..turn - 1 : j \in 1..turn /\ writes'[j] = writes[j]
        BY <1>4, <1>6
      <4> QED
        BY <3>2, <4>1
    <3>4. writes'[turn].place = t /\ turn \in 1..turn
      BY <1>4, <1>6
    <3> QED
      BY <1>6, <3>2, <3>3, <3>4 DEF NoneRedirects, Redirects
  <2> QED
    BY <2>1
<1>12. PathsResolveAlike'
  <2>1. /\ \A p \in DOMAIN data : data[p].kind \in {"dict", "list"} => data[p] = original[p]
        /\ NoneRedirects => /\ DOMAIN data = DOMAIN original
                            /\ \A p \in DOMAIN data : Resolving(p) => data[p] = original[p]
    BY DEF IInv, PathsResolveAlike, NoneRedirects
  <2>2. DOMAIN data' \subseteq DOMAIN original
    BY <1>4, <1>5
  <2>3. \A p \in DOMAIN data' : data'[p].kind \in {"dict", "list"} => data'[p] = original[p]
    <3>1. ASSUME NEW p \in DOMAIN data', data'[p].kind \in {"dict", "list"}
          PROVE  data'[p] = original[p]
      <4>1. p # t
        BY <1>3, <1>5, <3>1
      <4> QED
        BY <1>5, <2>1, <3>1, <4>1
    <3> QED
      BY <3>1
  <2>4. ASSUME NoneRedirects, ~Resolving(t)
        PROVE  DOMAIN data' = DOMAIN original
    <3>1. original[t].kind \notin {"dict", "list"} /\ DOMAIN data = DOMAIN original
      BY <2>1, <2>4 DEF Resolving
    <3>2. \A q \in DOMAIN original : Under(t, q) => q = t
      BY <1>2, <1>4, <3>1, ScalarIsALeaf
    <3> QED
      BY <1>5, <3>1, <3>2
  <2>5. ASSUME NoneRedirects, ~Resolving(t), NEW p \in DOMAIN data', Resolving(p)
        PROVE  data'[p] = original[p]
    BY <1>5, <2>1, <2>5
  <2>7. turn' <= Len(mods') => cursor' = Walk(original, Mod'.path)[step' - 1]
    <3>1. turn + 1 <= Len(mods) => Walk(original, Mod'.path)[0] = <<>>
      BY <1>7, WalkGoesOn
    <3>2. step' - 1 = 0
      BY <1>1
    <3> QED
      BY <1>1, <3>1, <3>2
  <2>8. /\ \A p : Resolving(p)' <=> Resolving(p)
        /\ Walk(original, Mod.path)' = Walk(original, Mod'.path)
    BY <1>1 DEF Resolving, Walk, Beyond, FindListItem, Identified, Has
  <2> QED
    BY <1>1, <1>11, <2>2, <2>3, <2>4, <2>5, <2>7, <2>8 DEF PathsResolveAlike
<1>13. ReachesWhatItNames'
  <2>1. \A i \in DOMAIN writes :
          (\A j \in 1..i - 1 : ~Redirects(writes[j])) =>
            writes[i].place = Denoted(original, mods[writes[i].turn].path)
    BY DEF IInv, ReachesWhatItNames
  <2>2. NoneRedirects => t = Denoted(original, mods[turn].path)
    <3>1. ASSUME NoneRedirects PROVE t = Denoted(original, mods[turn].path)
      <4>1. t = Walk(original, Mod.path)[step]
        BY <1>1, <3>1, LeadsAlike DEF IInv, t
      <4>2. step = Len(Mod.path) /\ Mod = mods[turn]
        BY <1>1, <1>4 DEF IsLast
      <4> QED
        BY <4>1, <4>2 DEF Denoted
    <3> QED
      BY <3>1
  <2>3. \A w : Redirects(w)' <=> Redirects(w)
    BY <1>1 DEF Redirects, Resolving
  <2>4. ASSUME NEW i \in 1..turn, \A j \in 1..i - 1 : ~Redirects(writes'[j])
        PROVE  writes'[i].place = Denoted(original, mods[writes'[i].turn].path)
    <3>0. \A j \in 1..i - 1 : j \in 1..turn - 1 /\ writes'[j] = writes[j]
      BY <1>4, <1>6
    <3>1. \A j \in 1..i - 1 : ~Redirects(writes[j])
      BY <2>4, <3>0
    <3>2. CASE i = turn
      <4>1. NoneRedirects
        BY <1>6, <3>1, <3>2 DEF NoneRedirects
      <4> QED
        BY <1>6, <2>2, <3>2, <4>1
    <3>3. CASE i # turn
      <4>1. i \in 1..turn - 1 /\ writes'[i] = writes[i]
        BY <1>4, <1>6, <3>3
      <4> QED
        BY <1>6, <2>1, <3>1, <4>1
    <3> QED
      BY <3>2, <3>3
  <2> QED
    BY <1>1, <1>6, <2>3, <2>4 DEF ReachesWhatItNames
<1> QED
  BY <1>8, <1>9, <1>10, <1>12, <1>13 DEF IInv

LEMMA NextKeepsInvariant == IInv /\ [Next]_vars => IInv'
<1> SUFFICES ASSUME IInv, [Next]_vars PROVE IInv'
  OBVIOUS
<1>0. TypeOK
  BY DEF IInv
<1>1. CASE Reject
  <2>1. outcome' \in {"ValueError", "InvalidModificationError"}
    BY <1>1 DEF Reject
  <2> QED
    BY <1>1, <2>1, OutcomeKeepsInvariant DEF Reject
<1>2. CASE Lookup
  <2>1. /\ Walking /\ Resolves(data, cursor, Segment, IsLast) /\ Segment.index # None
        /\ step' = step + 1
        /\ UNCHANGED <<original, mods, data, turn, writes, outcome>>
    BY <1>2 DEF Lookup
  <2>2. PICK n \in FindListItem(data, Target, Segment.index) : cursor' = Item(Target, n)
    BY <1>2 DEF Lookup
  <2>3. Target \in DOMAIN data /\ data[Target].kind = "list" /\ ~IsLast
    BY <1>0, <2>1, TargetIsThere
  <2>4. cursor' \in DOMAIN data
    <3>1. IsDump(data)
      BY <1>0 DEF TypeOK
    <3> QED
      BY <2>2, <2>3, <3>1, ItemFound
  <2>5. NoneRedirects => cursor' = Walk(original, Mod.path)[step]
    BY <1>0, <2>1, <2>2, LeadsAlike DEF IInv
  <2> QED
    BY <2>1, <2>3, <2>4, <2>5, WalkKeepsInvariant
<1>3. CASE Descend
  <2>1. /\ Walking /\ Resolves(data, cursor, Segment, IsLast)
        /\ Segment.index = None /\ ~IsLast
        /\ cursor' = Target /\ step' = step + 1
        /\ UNCHANGED <<original, mods, data, turn, writes, outcome>>
    BY <1>3 DEF Descend
  <2>2. cursor' \in DOMAIN data
    BY <1>0, <2>1, TargetIsThere
  <2>3. NoneRedirects => cursor' = Walk(original, Mod.path)[step]
    BY <1>0, <2>1, LeadsAlike DEF IInv
  <2> QED
    BY <2>1, <2>2, <2>3, WalkKeepsInvariant
<1>4. CASE SetField
  BY <1>4, WriteKeepsInvariant
<1>5. CASE RefuseValue
  <2>1. /\ Coerce(Mod.value, data[Target].kind).kind = "error"
        /\ outcome' = Coerce(Mod.value, data[Target].kind).value
        /\ UNCHANGED <<original, mods, data, turn, step, cursor, writes>>
    BY <1>5 DEF RefuseValue
  <2>2. outcome' \in {"InvalidModificationError", "OverflowError"}
    BY <2>1, CoerceKeepsKinds
  <2> QED
    BY <2>1, <2>2, OutcomeKeepsInvariant
<1>6. CASE Validate
  BY <1>6, OutcomeKeepsInvariant DEF Validate
<1>7. CASE Done \/ UNCHANGED vars
  <2>1. UNCHANGED vars
    BY <1>7 DEF Done
  <2>2. /\ outcome \in {"none", "applied", "InvalidModificationError", "ValueError",
                        "OverflowError"}
        /\ outcome = "applied" => turn > Len(mods)
    BY DEF IInv, TypeOK, WritesAreKept
  <2> QED
    BY <2>1, <2>2, OutcomeKeepsInvariant DEF vars
<1> QED
  BY <1>1, <1>2, <1>3, <1>4, <1>5, <1>6, <1>7 DEF Next

\* Whatever the request and the modifications, the inductive invariant holds.
THEOREM Invariance == Spec => []IInv
BY InitInvariant, NextKeepsInvariant, PTL DEF Spec

\* The copy stays a dump, and the walk inside it (apply_modifications).
THEOREM TypeCorrect == Spec => []TypeOK
<1>1. IInv => TypeOK
  BY DEF IInv
<1> QED
  BY <1>1, Invariance, PTL

\* No sequence of modifications turns a number or a flag into another kind
\* (_coerce_to_matching_type).
THEOREM KindsStay == Spec => []KindsAreKept
<1>1. IInv => KindsAreKept
  BY DEF IInv
<1> QED
  BY <1>1, Invariance, PTL

\* What was accepted holds every modification, unless a later one wrote over it
\* (apply_modifications).
THEOREM NothingIsDropped == Spec => []AppliedMeansAll
<1>1. IInv => AppliedMeansAll
  <2> SUFFICES ASSUME IInv, outcome = "applied" PROVE AppliedMeansAll
    BY DEF AppliedMeansAll
  <2>1. /\ turn \in 1..Len(mods) + 1 /\ mods \in Seq(WhatIfModification) /\ writes \in Seq(Write)
        /\ Len(writes) = turn - 1 /\ turn > Len(mods)
    BY DEF IInv, TypeOK, WritesAreKept
  <2>2. Len(writes) = Len(mods) /\ DOMAIN writes = DOMAIN mods
    BY <2>1
  <2> QED
    BY <2>2 DEF IInv, WritesAreKept, AppliedMeansAll
<1> QED
  BY <1>1, Invariance, PTL

\* A modification reaches the field that its path denotes in the request the user was
\* shown, unless an earlier one changed an identifier or a container
\* (_apply_single_modification, _find_list_item).
THEOREM PathsReach == Spec => []ReachesWhatItNames
<1>1. IInv => ReachesWhatItNames
  BY DEF IInv
<1> QED
  BY <1>1, Invariance, PTL
=============================================================================
