------------------------- MODULE ModificationApplier -------------------------
(***************************************************************************)
(* apply_modifications: the modifications proposed by the LLM are applied, *)
(* one after the other, to a copy of the plan's request, segment by        *)
(* segment of their paths, and the result is validated again.              *)
(*                                                                         *)
(* The dumped request is a function from places to nodes: a place is the   *)
(* sequence of keys that leads to it, an item of a list has a numeral for  *)
(* its key.  Validation by pydantic is external: Accepts.                  *)
(***************************************************************************)
EXTENDS Integers, Sequences, FiniteSets, FiniteSetsExt, SequencesExt

CONSTANTS
  Originals,     \* request.model_dump of the plans' requests
  ModLists,      \* lists of modifications, [path, value]
  Numerals,      \* <<"0", "1", ...>>, more than any list is long
  Digits,        \* int() of each index that isdigit() takes for a number
  Float,         \* float() of each raw value, in halves
  NotANumber,    \* where float() or int() raises ValueError
  NaN, Infinity, \* the floats that int() does not take
  Malformed,     \* a segment that _PATH_SEGMENT_RE does not match
  None,          \* no index in a segment
  Accepts(_)     \* model_validate

Kinds == {"dict", "list", "bool", "int", "float", "null", "str"}
Node(kind, value) == [kind |-> kind, value |-> value]
Under(place, p) == IsPrefix(place, p)

ASSUME NumeralsAssumption ==
  /\ Numerals \in Seq(STRING)
  /\ \A n \in DOMAIN Numerals : Numerals[n] \in DOMAIN Digits /\ Digits[Numerals[n]] = n - 1

\* The value of a list is its length; the key of each node's place is in a
\* dictionary or an item of a list.
IsDump(d) ==
  /\ DOMAIN d \subseteq Seq(STRING)
  /\ <<>> \in DOMAIN d /\ d[<<>>].kind = "dict"
  /\ \A p \in DOMAIN d \ {<<>>} :
       /\ Front(p) \in DOMAIN d
       /\ \/ d[Front(p)].kind = "dict"
          \/ d[Front(p)].kind = "list" /\ \E n \in 1..d[Front(p)].value : Last(p) = Numerals[n]
  /\ \A p \in DOMAIN d : d[p].kind = "list" =>
       /\ d[p].value \in 0..Len(Numerals)
       /\ \A n \in 1..d[p].value : Append(p, Numerals[n]) \in DOMAIN d
ASSUME OriginalsAssumption == \A d \in Originals : IsDump(d)

Segments == {Malformed} \cup [key : STRING, index : {None} \cup STRING]
WhatIfModification == [path : Seq(Segments) \ {<<>>}, value : DOMAIN Float]
ASSUME ModListsAssumption == ModLists \subseteq Seq(WhatIfModification)

VARIABLES
  original,   \* the dump before any modification
  mods,
  data,       \* the copy that is modified in place
  turn,       \* index of the loop over the modifications
  step,       \* index of the loop over the segments
  cursor,     \* the place that the walk has reached
  writes,     \* what each modification so far has written, and where
  outcome     \* "none", "applied" or an exception

vars == <<original, mods, data, turn, step, cursor, writes, outcome>>

-----------------------------------------------------------------------------
\* _coerce_to_matching_type

Error(name) == Node("error", name)
Invalid == Error("InvalidModificationError")

Truncated(halves) == IF halves >= 0 THEN halves \div 2 ELSE -((-halves) \div 2)

CoerceBool(raw) ==
  IF raw \in {"true", "1", "yes"} THEN Node("bool", TRUE)
  ELSE IF raw \in {"false", "0", "no"} THEN Node("bool", FALSE) ELSE Invalid

\* int(float(raw)): infinity is an OverflowError, which nobody catches.
CoerceInt(raw) ==
  IF Float[raw] \in {NotANumber, NaN} THEN Invalid
  ELSE IF Float[raw] = Infinity THEN Error("OverflowError")
  ELSE Node("int", Truncated(Float[raw]))

CoerceFloat(raw) ==
  IF Float[raw] = NotANumber THEN Invalid ELSE Node("float", Float[raw])

\* Seeded fault: bool is a subclass of int, and int is asked for first.
CoerceIntFirst(raw, kind) ==
  IF kind \in {"int", "bool"} THEN CoerceInt(raw)
  ELSE IF kind = "float" THEN CoerceFloat(raw)
  ELSE Node("str", raw)

\* The type of the current value decides; anything else takes the string.
Coerce(raw, kind) ==
  IF kind = "bool" THEN CoerceBool(raw)
  ELSE IF kind = "int" THEN CoerceInt(raw)
  ELSE IF kind = "float" THEN CoerceFloat(raw)
  ELSE Node("str", raw)

-----------------------------------------------------------------------------
\* The walk along a path in a dump d.

Has(d, place, key) == d[place].kind = "dict" /\ Append(place, key) \in DOMAIN d
Item(list, n) == Append(list, Numerals[n])

IdFields == {"warehouse_id", "vehicle_id", "sku", "location_id", "stop_id"}
Identified(d, item, key) ==
  \E f \in IdFields : Has(d, item, f) /\ d[Append(item, f)] = Node("str", key)

\* Seeded fault: an index equal to the length is let through.
FindListItemOffByOne(d, list, key) ==
  {n \in 1..d[list].value + 1 : key \in DOMAIN Digits /\ Digits[key] = n - 1}

\* Digits are an index, "01" as well as "1"; another key finds the first item that
\* has it as one of its identifiers.  The set is empty where the code raises.
FindListItem(d, list, key) ==
  IF key \in DOMAIN Digits
  THEN {n \in 1..d[list].value : Digits[key] = n - 1}
  ELSE LET found == {n \in 1..d[list].value : Identified(d, Item(list, n), key)}
       IN  {n \in found : \A k \in found : n <= k}

\* The segment leads somewhere: none of the checks of the loop's body raises.
Resolves(d, place, segment, isLast) ==
  /\ segment # Malformed
  /\ Has(d, place, segment.key)
  /\ segment.index # None =>
       LET list == Append(place, segment.key)
       IN  d[list].kind = "list" /\ FindListItem(d, list, segment.index) # {} /\ ~isLast

Mod == mods[turn]
Segment == Mod.path[step]
IsLast == step = Len(Mod.path)
Target == Append(cursor, Segment.key)

-----------------------------------------------------------------------------
Init ==
  /\ original \in Originals
  /\ mods \in ModLists
  /\ data = original
  /\ turn = 1
  /\ step = 1
  /\ cursor = <<>>
  /\ writes = <<>>
  /\ outcome = "none"

Walking == outcome = "none" /\ turn <= Len(mods)

\* Seeded fault: a modification that does not resolve is passed over.
Skip ==
  /\ Walking
  /\ ~Resolves(data, cursor, Segment, IsLast)
  /\ turn' = turn + 1
  /\ step' = 1
  /\ cursor' = <<>>
  /\ UNCHANGED <<original, mods, data, writes, outcome>>

\* The index passes isdigit(), as a superscript two does, but int() raises, which
\* nobody catches.
IndexIsNoInt ==
  /\ Segment # Malformed /\ Has(data, cursor, Segment.key)
  /\ data[Target].kind = "list"
  /\ Segment.index \in DOMAIN Digits /\ Digits[Segment.index] = NotANumber

Reject ==
  /\ Walking
  /\ ~Resolves(data, cursor, Segment, IsLast)
  /\ outcome' = IF IndexIsNoInt THEN "ValueError" ELSE "InvalidModificationError"
  /\ UNCHANGED <<original, mods, data, turn, step, cursor, writes>>

\* key[index]: the item becomes the cursor.
Lookup ==
  /\ Walking
  /\ Resolves(data, cursor, Segment, IsLast)
  /\ Segment.index # None
  /\ \E n \in FindListItem(data, Target, Segment.index) : cursor' = Item(Target, n)
  /\ step' = step + 1
  /\ UNCHANGED <<original, mods, data, turn, writes, outcome>>

Descend ==
  /\ Walking
  /\ Resolves(data, cursor, Segment, IsLast)
  /\ Segment.index = None /\ ~IsLast
  /\ cursor' = Target
  /\ step' = step + 1
  /\ UNCHANGED <<original, mods, data, turn, writes, outcome>>

AtField ==
  /\ Walking
  /\ Resolves(data, cursor, Segment, IsLast)
  /\ Segment.index = None /\ IsLast

\* Seeded fault: the walk of the next modification goes on from here.
SetFieldAndStay ==
  /\ AtField
  /\ LET new == Coerce(Mod.value, data[Target].kind)
     IN  /\ new.kind # "error"
         /\ data' = [p \in {q \in DOMAIN data : Under(Target, q) => q = Target} |->
                       IF p = Target THEN new ELSE data[p]]
         /\ writes' = Append(writes, [turn |-> turn, place |-> Target, kind |-> new.kind])
  /\ turn' = turn + 1
  /\ step' = 1
  /\ UNCHANGED <<original, mods, cursor, outcome>>

\* container[key] = parsed, which drops what was below a container.
SetField ==
  /\ AtField
  /\ LET new == Coerce(Mod.value, data[Target].kind)
     IN  /\ new.kind # "error"
         /\ data' = [p \in {q \in DOMAIN data : Under(Target, q) => q = Target} |->
                       IF p = Target THEN new ELSE data[p]]
         /\ writes' = Append(writes, [turn |-> turn, place |-> Target, kind |-> new.kind])
  /\ turn' = turn + 1
  /\ step' = 1
  /\ cursor' = <<>>
  /\ UNCHANGED <<original, mods, outcome>>

RefuseValue ==
  /\ AtField
  /\ LET new == Coerce(Mod.value, data[Target].kind)
     IN  new.kind = "error" /\ outcome' = new.value
  /\ UNCHANGED <<original, mods, data, turn, step, cursor, writes>>

Validate ==
  /\ outcome = "none" /\ turn > Len(mods)
  /\ outcome' = IF Accepts(data) THEN "applied" ELSE "InvalidModificationError"
  /\ UNCHANGED <<original, mods, data, turn, step, cursor, writes>>

Done == outcome # "none" /\ UNCHANGED vars

Next == Reject \/ Lookup \/ Descend \/ SetField \/ RefuseValue \/ Validate \/ Done

Spec == Init /\ [][Next]_vars

-----------------------------------------------------------------------------
\* What is remembered of a write: by which modification, where, and what it became.
Write == [turn : Nat, place : DOMAIN original \ {<<>>}, kind : Kinds]

\* The types of the variables: the copy stays a dump and the cursor a place in it.
TypeOK ==
  /\ IsDump(original)
  /\ mods \in Seq(WhatIfModification)
  /\ IsDump(data)
  /\ cursor \in DOMAIN data
  /\ turn \in 1..Len(mods) + 1
  /\ turn <= Len(mods) => step \in DOMAIN Mod.path
  /\ writes \in Seq(Write)
  /\ outcome \in {"none", "applied", "InvalidModificationError", "ValueError",
                  "OverflowError"}

\* Whatever the LLM writes and in whatever order, a number stays a number of its
\* kind and a flag a flag.
KindsAreKept ==
  \A p \in DOMAIN data :
    original[p].kind \in {"bool", "int", "float"} => data[p].kind = original[p].kind

\* Nothing is dropped silently: what was accepted holds every modification, each
\* with the value it asked for unless a later one wrote over it.
AppliedMeansAll ==
  outcome = "applied" =>
    /\ Len(writes) = Len(mods)
    /\ \A i \in DOMAIN mods :
         \/ data[writes[i].place] = Coerce(mods[i].value, writes[i].kind)
         \/ \E j \in i + 1..Len(mods) : Under(writes[j].place, writes[i].place)

\* Where a segment leads from a place in a dump, as the user reads it.
Beyond(d, place, segment) ==
  LET field == Append(place, segment.key)
  IN  IF segment.index = None THEN field
      ELSE Item(field, Min(FindListItem(d, field, segment.index)))

\* The places on the way along a path, and the place that the path denotes.
Walk(d, path) ==
  LET at[i \in 0..Len(path)] == IF i = 0 THEN <<>> ELSE Beyond(d, at[i - 1], path[i])
  IN  at
Denoted(d, path) == Walk(d, path)[Len(path)]

\* What paths resolve by: the identifiers and the containers.
Resolving(p) == original[p].kind \in {"dict", "list"} \/ Last(p) \in IdFields

\* A write that can change what a later path denotes.
Redirects(w) == Resolving(w.place)

\* Each modification reaches the field that its path denotes in the plan's request,
\* the one the user was shown, whatever the ones before it did; unless one of them
\* changed an identifier or a container.
ReachesWhatItNames ==
  \A i \in DOMAIN writes :
    (\A j \in 1..i - 1 : ~Redirects(writes[j])) =>
      writes[i].place = Denoted(original, mods[writes[i].turn].path)

-----------------------------------------------------------------------------
\* The inductive invariant.

\* Each modification so far wrote the value it asked for, once, and it is still
\* there unless a later one wrote over it.
WritesAreKept ==
  /\ Len(writes) = turn - 1
  /\ outcome = "applied" => turn > Len(mods)
  /\ \A i \in DOMAIN writes :
       /\ writes[i].turn = i
       /\ \/ /\ writes[i].place \in DOMAIN data
             /\ data[writes[i].place] = Coerce(mods[i].value, writes[i].kind)
          \/ \E j \in i + 1..Len(writes) : Under(writes[j].place, writes[i].place)

\* No place is added; as long as no write redirects, none is lost, what paths resolve
\* by is as it was, and the walk is where it would be in the original.
PathsResolveAlike ==
  /\ DOMAIN data \subseteq DOMAIN original
  /\ \A p \in DOMAIN data : data[p].kind \in {"dict", "list"} => data[p] = original[p]
  /\ (\A j \in DOMAIN writes : ~Redirects(writes[j])) =>
       /\ DOMAIN data = DOMAIN original
       /\ \A p \in DOMAIN data : Resolving(p) => data[p] = original[p]
       /\ turn <= Len(mods) => cursor = Walk(original, Mod.path)[step - 1]

IInv ==
  /\ TypeOK
  /\ KindsAreKept
  /\ WritesAreKept
  /\ PathsResolveAlike
  /\ ReachesWhatItNames

=============================================================================
