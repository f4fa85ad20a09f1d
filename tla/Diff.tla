--------------------------------- MODULE Diff ---------------------------------
(***************************************************************************)
(* pkg/diff/diff.go: computeFieldChanges, the comparison of one resource   *)
(* as it is with the same resource as it is wanted.  A manifest is a tree  *)
(* of maps, arrays and primitives; the result is a set of field changes,   *)
(* and what a plan is worth is whether those changes say exactly how to    *)
(* get from the one tree to the other.  (Masking and the sort of the keys  *)
(* do not matter to that and are left out; LivePlan has the masking.)      *)
(***************************************************************************)
EXTENDS Naturals, Sequences, SequencesExt

CONSTANTS Short,     \* arrays up to this length are compared as a whole
          Specs,     \* the specs a resource may have
          Tree,      \* the values in them, with everything inside them
          Height     \* how deep a value is nested

VARIABLES base, target   \* the spec of the resource in the two rendered sets

vars == <<base, target>>

-----------------------------------------------------------------------------
(* Trees.  A primitive is told by its Go type and by what %v prints of it: *)
(* the number 1 and the string "1" are different and print alike.          *)

Prim(type, print) == [type |-> type, print |-> print]
Map(f) == [map |-> f]
Array(s) == [array |-> s]
Nil == [nil |-> TRUE]

IsPrim(v) == "print" \in DOMAIN v
IsMap(v) == "map" \in DOMAIN v
IsArray(v) == "array" \in DOMAIN v

ASSUME ShortAssumption == Short \in Nat

(* A value is inside the ones it is part of, and no higher than they are.  *)
ASSUME TreeAssumption ==
  /\ Height \in [Tree -> Nat]
  /\ Map(<< >>) \in Tree
  /\ \A v \in Tree :
       /\ IsMap(v) => /\ v = Map(v.map)
                      /\ \A key \in DOMAIN v.map :
                           v.map[key] \in Tree /\ Height[v.map[key]] < Height[v]
       /\ IsArray(v) => /\ v = Array(v.array) /\ v.array \in Seq(Tree)
                        /\ \A i \in 1 .. Len(v.array) : Height[v.array[i]] < Height[v]

(* A spec is a map, and forProvider is one in it.                          *)
ASSUME SpecsAssumption ==
  \A s \in Specs :
    Map(s) \in Tree /\ ("forProvider" \in DOMAIN s => IsMap(s["forProvider"]))

Get(f, key) == IF key \in DOMAIN f THEN f[key] ELSE Nil
Sprint(v) == IF v = Nil THEN "<nil>" ELSE v.print

(* A step of a path: a map key, or the array element that key selects.     *)
Field(key) == [key |-> key]
Element(key, print) == [select |-> key, is |-> print]

(* A change of the value at hand, or of some elements of an array.         *)
Change(action, old, new) ==
  [path |-> << >>, action |-> action, old |-> old, new |-> new, of |-> "value"]
PartChange(action, old, new) ==
  [path |-> << >>, action |-> action, old |-> old, new |-> new, of |-> "elements"]

(* Changes of something inside: the prefix of their paths.                 *)
Below(step, changes) == {[c EXCEPT !.path = <<step>> \o @] : c \in changes}

-----------------------------------------------------------------------------
(* Arrays of primitives: the elements that left and those that came.       *)

Elements(s) == [elements |-> s]

NotPrintedIn(s, other) ==
  {e \in ToSet(s) : \A o \in ToSet(other) : Sprint(o) # Sprint(e)}

diffPrimitiveArrays(old, new) ==
  LET removed == NotPrintedIn(old, new)
      added == NotPrintedIn(new, old)
  IN (IF removed = {} THEN {} ELSE {PartChange("delete", Elements(removed), Elements({}))}) \cup
     (IF added = {} THEN {} ELSE {PartChange("create", Elements({}), Elements(added))})

isArrayOfPrimitives(s) == \A e \in ToSet(s) : IsPrim(e)
isArrayOfMaps(s) == s # << >> /\ \A e \in ToSet(s) : IsMap(e)

(* Arrays of maps: the elements are told apart by one key, the first of    *)
(* these that the first old element has, or else the first new one.        *)
commonKeyFields == <<"name", "id", "protocol", "type">>

KeysFound(f) == {i \in 1 .. Len(commonKeyFields) : commonKeyFields[i] \in DOMAIN f}

findMatchKey(f) ==
  IF KeysFound(f) = {} THEN "" ELSE commonKeyFields[Min(KeysFound(f))]

MatchKey(old, new) ==
  LET first == findMatchKey(old[1].map) IN
  IF first # "" THEN first ELSE findMatchKey(new[1].map)

ElementKey(e, key) == Sprint(Get(e.map, key))

(* Elements with the same key: the last one is kept.                       *)
LastWith(s, key, p) ==
  CHOOSE i \in 1 .. Len(s) :
    /\ ElementKey(s[i], key) = p
    /\ \A j \in 1 .. Len(s) : ElementKey(s[j], key) = p => j <= i

ByKey(s, key) ==
  [p \in {ElementKey(e, key) : e \in ToSet(s)} |-> s[LastWith(s, key, p)]]

(* Mutant: the keys of the new side only.                                  *)
KeysOfNew(old, new) == DOMAIN new

AllKeys(old, new) == DOMAIN old \cup DOMAIN new

(* inside[b][t]: the changes from the value b to the value t.              *)
diffMapArrays(old, new, inside) ==
  IF MatchKey(old, new) = "" THEN {}
  ELSE LET key == MatchKey(old, new)
           oldElem == ByKey(old, key)
           newElem == ByKey(new, key)
       IN UNION {
            Below(Element(key, p),
              CASE p \notin DOMAIN newElem -> {Change("delete", oldElem[p], Nil)}
                [] p \notin DOMAIN oldElem -> {Change("create", Nil, newElem[p])}
                [] OTHER -> inside[oldElem[p]][newElem[p]])
            : p \in AllKeys(oldElem, newElem)}

Update(old, new) == {Change("update", old, new)}

(* Mutant: an empty comparison of two arrays of maps is believed.          *)
diffLongArraysBelieved(old, new, inside) ==
  CASE isArrayOfPrimitives(old) /\ isArrayOfPrimitives(new) -> diffPrimitiveArrays(old, new)
    [] isArrayOfMaps(old) /\ isArrayOfMaps(new) -> diffMapArrays(old, new, inside)
    [] OTHER -> Update(Array(old), Array(new))

(* An empty comparison of two arrays of maps means that the key hid the    *)
(* difference, and the arrays are reported as a whole.                     *)
diffLongArrays(old, new, inside) ==
  CASE isArrayOfPrimitives(old) /\ isArrayOfPrimitives(new) -> diffPrimitiveArrays(old, new)
    [] isArrayOfMaps(old) /\ isArrayOfMaps(new) /\ diffMapArrays(old, new, inside) # {} ->
         diffMapArrays(old, new, inside)
    [] OTHER -> Update(Array(old), Array(new))

(* Mutant: the new value is put in both places.                            *)
diffArraysNewTwice(old, new, inside) ==
  IF old = new THEN {} ELSE Update(Array(new), Array(new))

diffArrays(old, new, inside) ==
  IF old = new THEN {}
  ELSE IF Len(old) <= Short /\ Len(new) <= Short THEN Update(Array(old), Array(new))
  ELSE diffLongArrays(old, new, inside)

diffMaps(old, new, inside) ==
  UNION {
    Below(Field(key),
      CASE key \notin DOMAIN old -> {Change("create", Nil, new[key])}
        [] key \notin DOMAIN new -> {Change("delete", old[key], Nil)}
        [] OTHER -> inside[old[key]][new[key]])
    : key \in AllKeys(old, new)}

(* Two values of a field: one level of diffMaps.                           *)
diffValues(b, t, inside) ==
  CASE IsMap(b) /\ IsMap(t) -> diffMaps(b.map, t.map, inside)
    [] IsArray(b) /\ IsArray(t) -> diffArrays(b.array, t.array, inside)
    [] OTHER -> IF b = t THEN {} ELSE Update(b, t)

differences[b \in Tree] == [t \in Tree |-> diffValues(b, t, differences)]

(* Only what the user controls: spec.forProvider if either side has it.    *)
Compared(spec, other) ==
  IF "forProvider" \in DOMAIN spec \cup DOMAIN other
    THEN Get(spec, "forProvider") ELSE Map(spec)

Fields(v) == IF v = Nil THEN << >> ELSE v.map

computeFieldChanges(b, t) == diffMaps(Fields(Compared(b, t)), Fields(Compared(t, b)), differences)

-----------------------------------------------------------------------------
(* The resource is edited in git, and the edit is applied.                 *)

Init == base \in Specs /\ target = base

Edit == target' \in Specs /\ UNCHANGED base

ApplyEdit == base' = target /\ UNCHANGED target

Next == Edit \/ ApplyEdit

Spec == Init /\ [][Next]_vars

-----------------------------------------------------------------------------
Before == Map(Fields(Compared(base, target)))
After == Map(Fields(Compared(target, base)))
Changes == computeFieldChanges(base, target)

PrintsOf(s) == {Sprint(e) : e \in ToSet(s)}

(* Equal but for arrays of primitives that print the same elements, in     *)
(* whatever order, however often and of whatever types.                    *)
alike[v \in Tree] ==
  [w \in Tree |->
     \/ v = w
     \/ /\ IsMap(v) /\ IsMap(w) /\ DOMAIN v.map = DOMAIN w.map
        /\ \A key \in DOMAIN v.map : alike[v.map[key]][w.map[key]]
     \/ /\ IsArray(v) /\ IsArray(w)
        /\ isArrayOfPrimitives(v.array) /\ isArrayOfPrimitives(w.array)
        /\ PrintsOf(v.array) = PrintsOf(w.array)]

(* A resource as it is wanted has no changes, and one with no changes is   *)
(* as it is wanted but for what arrays of primitives print: an array of    *)
(* maps is never passed over in silence, even when its key tells nothing   *)
(* apart (diff.go:200-306).                                                *)
NothingPassedOver ==
  /\ base = target => Changes = {}
  /\ Changes = {} => alike[Before][After]
=============================================================================
