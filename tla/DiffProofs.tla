------------------------------ MODULE DiffProofs ------------------------------
(***************************************************************************)
(* Proofs about the comparison of two resources: it passes nothing over,   *)
(* and its changes make the one resource of the other, and undone, the     *)
(* other of the one.                                                       *)
(***************************************************************************)
EXTENDS DiffReference, Induction

-----------------------------------------------------------------------------
(* The three kinds of value have nothing in common.                        *)
LEMMA Kinds ==
  ASSUME NEW v \in Tree
  PROVE  /\ IsMap(v) => v = Map(v.map) /\ ~IsArray(v) /\ ~IsPrim(v) /\ v # Nil
         /\ IsArray(v) => v = Array(v.array) /\ ~IsMap(v) /\ ~IsPrim(v) /\ v # Nil
<1>1. \A f : /\ ~IsArray(Map(f)) /\ ~IsPrim(Map(f)) /\ Map(f) # Nil
             /\ ~IsMap(Array(f)) /\ ~IsPrim(Array(f)) /\ Array(f) # Nil
  BY DEF Map, Array, Nil, IsArray, IsPrim, IsMap
<1>2. QED
  BY <1>1, TreeAssumption

LEMMA FieldsAreInside ==
  ASSUME NEW v \in Tree, IsMap(v), NEW key \in DOMAIN v.map
  PROVE  v.map[key] \in Tree /\ Height[v.map[key]] < Height[v]
BY TreeAssumption

LEMMA ElementsAreInside ==
  ASSUME NEW v \in Tree, IsArray(v), NEW e \in ToSet(v.array)
  PROVE  e \in Tree /\ Height[e] < Height[v]
<1>1. v.array \in Seq(Tree) /\ \A i \in 1 .. Len(v.array) : Height[v.array[i]] < Height[v]
  BY TreeAssumption
<1>2. PICK i \in DOMAIN v.array : e = v.array[i]
  BY DEF ToSet
<1>3. DOMAIN v.array = 1 .. Len(v.array)
  BY <1>1
<1>4. QED
  BY <1>1, <1>2, <1>3

(* Of the elements with a key there is a last one.                         *)
LEMMA LastIsThere ==
  ASSUME NEW v \in Tree, IsArray(v), NEW key,
         NEW p, p \in {ElementKey(e, key) : e \in ToSet(v.array)}
  PROVE  ByKey(v.array, key)[p] \in ToSet(v.array)
<1> DEFINE s == v.array
           I == {i \in 1 .. Len(s) : ElementKey(s[i], key) = p}
           Distance == {Len(s) - i : i \in I}
<1>1. s \in Seq(Tree) /\ DOMAIN s = 1 .. Len(s) /\ Len(s) \in Nat
  BY TreeAssumption
<1>2. PICK e \in ToSet(s) : ElementKey(e, key) = p
  OBVIOUS
<1>3. PICK i \in DOMAIN s : e = s[i]
  BY <1>2 DEF ToSet
<1>4. i \in I
  BY <1>1, <1>2, <1>3
<1>5. Distance \subseteq Nat /\ Distance # {}
  <2>1. ASSUME NEW j \in I PROVE Len(s) - j \in Nat
    BY <1>1
  <2> HIDE DEF I
  <2>2. QED
    BY <1>4, <2>1
<1>6. PICK d \in Distance : \A x \in Distance : d <= x
  BY ONLY <1>5, LeastNatural
<1>7. PICK last \in I : d = Len(s) - last
  BY <1>6
<1>8. \A j \in 1 .. Len(s) : ElementKey(s[j], key) = p => j <= last
  <2>1. ASSUME NEW j \in 1 .. Len(s), ElementKey(s[j], key) = p PROVE j <= last
    <3>1. j \in I
      BY <2>1
    <3>2. d <= Len(s) - j
      BY <1>6, <3>1
    <3>3. last \in Int /\ j \in Int /\ Len(s) \in Int
      BY <1>1, <1>7
    <3>4. QED
      BY <1>7, <3>2, <3>3
  <2>2. QED
    BY <2>1
<1>9. LastWith(s, key, p) \in 1 .. Len(s)
  BY <1>7, <1>8 DEF LastWith
<1>10. s[LastWith(s, key, p)] \in ToSet(s)
  BY <1>1, <1>9 DEF ToSet
<1>11. QED
  BY <1>10 DEF ByKey

-----------------------------------------------------------------------------
(* What a change may say: where, and of which values.                      *)

LEMMA MatchKeyIsCommon ==
  ASSUME NEW old, NEW new, MatchKey(old, new) # ""
  PROVE  MatchKey(old, new) \in ToSet(commonKeyFields)
<1>1. Len(commonKeyFields) = 4
  BY DEF commonKeyFields
<1>2. DOMAIN commonKeyFields = 1 .. 4
  BY ONLY TRUE DEF commonKeyFields
<1>3. ASSUME NEW f, findMatchKey(f) # "" PROVE findMatchKey(f) \in ToSet(commonKeyFields)
  <2>1. KeysFound(f) # {} /\ findMatchKey(f) = commonKeyFields[Min(KeysFound(f))]
    BY <1>3 DEF findMatchKey
  <2>2. KeysFound(f) \subseteq 1 .. 4
    BY <1>1 DEF KeysFound
  <2>3. KeysFound(f) \subseteq Nat
    BY ONLY <2>2
  <2>4. \E i \in KeysFound(f) : \A j \in KeysFound(f) : i <= j
    BY <2>1, <2>3, LeastNatural
  <2>5. Min(KeysFound(f)) \in KeysFound(f)
    BY <2>4 DEF Min
  <2>6. QED
    BY <1>2, <2>1, <2>2, <2>5 DEF ToSet
<1>4. QED
  BY <1>3 DEF MatchKey

LEMMA ElementsAreSteps ==
  ASSUME NEW k \in ToSet(commonKeyFields), NEW e \in Maps
  PROVE  Element(k, ElementKey(e, k)) \in Steps
BY SMT DEF Steps

(* What the values inside are compared by.                                 *)
Comparisons == [Tree -> [Tree -> SUBSET FieldChange]]

LEMMA ChangesAreTyped ==
  ASSUME NEW action \in {"create", "delete", "update"}, NEW old \in Worth, NEW new \in Worth
  PROVE  Change(action, old, new) \in FieldChange /\ PartChange(action, old, new) \in FieldChange
<1>1. << >> \in Seq(Steps)
  OBVIOUS
<1>2. QED
  BY <1>1 DEF Change, PartChange, FieldChange

LEMMA BelowIsTyped ==
  ASSUME NEW step \in Steps, NEW changes, changes \in SUBSET FieldChange
  PROVE  Below(step, changes) \in SUBSET FieldChange
<1>1. ASSUME NEW c \in changes PROVE [c EXCEPT !.path = <<step>> \o @] \in FieldChange
  <2>1. c \in FieldChange /\ c.path \in Seq(Steps)
    BY DEF FieldChange
  <2>2. <<step>> \o c.path \in Seq(Steps)
    BY <2>1
  <2>3. QED
    BY <2>1, <2>2 DEF FieldChange
<1>2. QED
  BY <1>1 DEF Below

LEMMA MapsAreTyped ==
  ASSUME NEW h, h \in Comparisons, NEW b \in Tree, NEW t \in Tree, IsMap(b), IsMap(t)
  PROVE  diffMaps(b.map, t.map, h) \in SUBSET FieldChange
<1> DEFINE At(key) ==
      CASE key \notin DOMAIN b.map -> {Change("create", Nil, t.map[key])}
        [] key \notin DOMAIN t.map -> {Change("delete", b.map[key], Nil)}
        [] OTHER -> h[b.map[key]][t.map[key]]
<1>1. ASSUME NEW key \in AllKeys(b.map, t.map)
      PROVE  Below(Field(key), At(key)) \in SUBSET FieldChange
  <2>1. key \in DOMAIN b.map \/ key \in DOMAIN t.map
    BY DEF AllKeys
  <2>2. Field(key) \in Steps
    <3>1. b \in Maps /\ t \in Maps
      BY DEF Maps
    <3>2. key \in UNION {DOMAIN v.map : v \in Maps}
      BY <2>1, <3>1
    <3>3. QED
      BY <3>2 DEF Steps
  <2>3. Nil \in Worth /\ Tree \subseteq Worth
    BY DEF Worth
  <2>4. CASE key \notin DOMAIN b.map
    <3>1. t.map[key] \in Worth
      BY <2>1, <2>3, <2>4, FieldsAreInside
    <3>2. Change("create", Nil, t.map[key]) \in FieldChange
      BY <2>3, <3>1, ChangesAreTyped
    <3>3. At(key) = {Change("create", Nil, t.map[key])} \/ At(key) = {Change("delete", b.map[key], Nil)}
      BY <2>4
    <3>4. At(key) = {Change("create", Nil, t.map[key])}
      BY <2>1, <2>4
    <3> HIDE DEF At
    <3>5. At(key) \in SUBSET FieldChange
      BY <3>2, <3>4
    <3>6. QED
      BY <2>2, <3>5, BelowIsTyped
  <2>5. CASE key \notin DOMAIN t.map
    <3>1. b.map[key] \in Worth
      BY <2>1, <2>3, <2>5, FieldsAreInside
    <3>2. Change("delete", b.map[key], Nil) \in FieldChange
      BY <2>3, <3>1, ChangesAreTyped
    <3>3. At(key) = {Change("delete", b.map[key], Nil)}
      BY <2>1, <2>5
    <3> HIDE DEF At
    <3>4. At(key) \in SUBSET FieldChange
      BY <3>2, <3>3
    <3>5. QED
      BY <2>2, <3>4, BelowIsTyped
  <2>6. CASE key \in DOMAIN b.map /\ key \in DOMAIN t.map
    <3>1. b.map[key] \in Tree /\ t.map[key] \in Tree
      BY <2>6, FieldsAreInside
    <3>2. h[b.map[key]][t.map[key]] \in SUBSET FieldChange
      BY <3>1 DEF Comparisons
    <3>3. At(key) = h[b.map[key]][t.map[key]]
      BY <2>6
    <3> HIDE DEF At
    <3>4. At(key) \in SUBSET FieldChange
      BY <3>2, <3>3
    <3>5. QED
      BY <2>2, <3>4, BelowIsTyped
  <2>7. QED
    BY <2>1, <2>4, <2>5, <2>6
<1>2. diffMaps(b.map, t.map, h) = UNION {Below(Field(key), At(key)) : key \in AllKeys(b.map, t.map)}
  BY DEF diffMaps
<1> HIDE DEF At
<1>3. QED
  BY <1>1, <1>2

LEMMA MapArraysAreTyped ==
  ASSUME NEW h, h \in Comparisons, NEW b \in Tree, NEW t \in Tree, IsArray(b), IsArray(t),
         isArrayOfMaps(b.array), isArrayOfMaps(t.array)
  PROVE  diffMapArrays(b.array, t.array, h) \in SUBSET FieldChange
<1> SUFFICES ASSUME MatchKey(b.array, t.array) # ""
             PROVE  diffMapArrays(b.array, t.array, h) \in SUBSET FieldChange
  BY DEF diffMapArrays
<1> DEFINE key == MatchKey(b.array, t.array)
           oldElem == ByKey(b.array, key)
           newElem == ByKey(t.array, key)
           At(p) ==
             CASE p \notin DOMAIN newElem -> {Change("delete", oldElem[p], Nil)}
               [] p \notin DOMAIN oldElem -> {Change("create", Nil, newElem[p])}
               [] OTHER -> h[oldElem[p]][newElem[p]]
<1>0. /\ DOMAIN oldElem = {ElementKey(e, key) : e \in ToSet(b.array)}
      /\ DOMAIN newElem = {ElementKey(e, key) : e \in ToSet(t.array)}
  BY DEF ByKey
<1>1. ASSUME NEW p \in AllKeys(oldElem, newElem)
      PROVE  Below(Element(key, p), At(p)) \in SUBSET FieldChange
  <2>1. p \in DOMAIN oldElem \/ p \in DOMAIN newElem
    BY DEF AllKeys
  <2>2. Element(key, p) \in Steps
    <3>1. PICK e \in ToSet(b.array) \cup ToSet(t.array) : p = ElementKey(e, key)
      BY <1>0, <2>1
    <3>2. e \in Maps
      BY <3>1, ElementsAreInside DEF Maps, isArrayOfMaps
    <3>3. key \in ToSet(commonKeyFields)
      BY MatchKeyIsCommon
    <3> HIDE DEF key
    <3>4. \A k \in ToSet(commonKeyFields), x \in Maps : Element(k, ElementKey(x, k)) \in Steps
      BY ElementsAreSteps
    <3>5. QED
      BY <3>1, <3>2, <3>3, <3>4
  <2>3. Nil \in Worth /\ Tree \subseteq Worth
    BY DEF Worth
  <2>4. p \in DOMAIN oldElem => oldElem[p] \in Tree
    BY <1>0, LastIsThere, ElementsAreInside
  <2>5. p \in DOMAIN newElem => newElem[p] \in Tree
    BY <1>0, LastIsThere, ElementsAreInside
  <2> HIDE DEF oldElem, newElem, key
  <2>6. CASE p \notin DOMAIN newElem
    <3>1. Change("delete", oldElem[p], Nil) \in FieldChange
      BY <2>1, <2>3, <2>4, <2>6, ChangesAreTyped
    <3>2. At(p) = {Change("delete", oldElem[p], Nil)}
      BY <2>1, <2>6
    <3> HIDE DEF At
    <3>3. QED
      BY <2>2, <3>1, <3>2, BelowIsTyped
  <2>7. CASE p \notin DOMAIN oldElem
    <3>1. Change("create", Nil, newElem[p]) \in FieldChange
      BY <2>1, <2>3, <2>5, <2>7, ChangesAreTyped
    <3>2. At(p) = {Change("create", Nil, newElem[p])}
      BY <2>1, <2>7
    <3> HIDE DEF At
    <3>3. QED
      BY <2>2, <3>1, <3>2, BelowIsTyped
  <2>8. CASE p \in DOMAIN oldElem /\ p \in DOMAIN newElem
    <3>1. h[oldElem[p]][newElem[p]] \in SUBSET FieldChange
      BY <2>4, <2>5, <2>8 DEF Comparisons
    <3>2. At(p) = h[oldElem[p]][newElem[p]]
      BY <2>8
    <3> HIDE DEF At
    <3>3. QED
      BY <2>2, <3>1, <3>2, BelowIsTyped
  <2>9. QED
    BY <2>1, <2>6, <2>7, <2>8
<1>2. diffMapArrays(b.array, t.array, h) =
        UNION {Below(Element(key, p), At(p)) : p \in AllKeys(oldElem, newElem)}
  BY DEF diffMapArrays
<1> HIDE DEF At, key, oldElem, newElem
<1>3. QED
  BY <1>1, <1>2

LEMMA ElementsAreTyped ==
  ASSUME NEW b \in Tree, IsArray(b), NEW other
  PROVE  Elements(NotPrintedIn(b.array, other)) \in Worth
<1>1. NotPrintedIn(b.array, other) \in SUBSET Tree
  BY ElementsAreInside DEF NotPrintedIn
<1>2. QED
  BY <1>1 DEF Elements, Worth

LEMMA ArraysAreTyped ==
  ASSUME NEW h, h \in Comparisons, NEW b \in Tree, NEW t \in Tree, IsArray(b), IsArray(t)
  PROVE  diffArrays(b.array, t.array, h) \in SUBSET FieldChange
<1>1. Elements({}) \in Worth /\ b \in Worth /\ t \in Worth
  BY DEF Worth, Elements
<1>2. diffPrimitiveArrays(b.array, t.array) \in SUBSET FieldChange
  <2>1. /\ PartChange("delete", Elements(NotPrintedIn(b.array, t.array)), Elements({})) \in FieldChange
        /\ PartChange("create", Elements({}), Elements(NotPrintedIn(t.array, b.array))) \in FieldChange
    BY <1>1, ElementsAreTyped, ChangesAreTyped
  <2>2. QED
    BY <2>1 DEF diffPrimitiveArrays
<1>3. Update(Array(b.array), Array(t.array)) \in SUBSET FieldChange
  <2>1. Array(b.array) = b /\ Array(t.array) = t
    BY Kinds
  <2>2. QED
    BY <1>1, <2>1, ChangesAreTyped DEF Update
<1>4. isArrayOfMaps(b.array) /\ isArrayOfMaps(t.array)
        => diffMapArrays(b.array, t.array, h) \in SUBSET FieldChange
  BY MapArraysAreTyped
<1>5. \/ diffLongArrays(b.array, t.array, h) \in
            {diffPrimitiveArrays(b.array, t.array), Update(Array(b.array), Array(t.array))}
      \/ /\ isArrayOfMaps(b.array) /\ isArrayOfMaps(t.array)
         /\ diffLongArrays(b.array, t.array, h) = diffMapArrays(b.array, t.array, h)
  BY DEF diffLongArrays
<1>6. diffArrays(b.array, t.array, h) \in
        {{}, Update(Array(b.array), Array(t.array)), diffLongArrays(b.array, t.array, h)}
  BY DEF diffArrays
<1>7. QED
  BY <1>2, <1>3, <1>4, <1>5, <1>6

LEMMA ValuesAreTyped ==
  ASSUME NEW h, h \in Comparisons, NEW b \in Tree, NEW t \in Tree
  PROVE  diffValues(b, t, h) \in SUBSET FieldChange
<1>1. Update(b, t) \in SUBSET FieldChange
  BY ChangesAreTyped DEF Update, Worth
<1>2. CASE IsMap(b) /\ IsMap(t)
  <2>1. diffValues(b, t, h) = diffMaps(b.map, t.map, h)
    BY <1>2, Kinds DEF diffValues
  <2>2. QED
    BY <1>2, <2>1, MapsAreTyped
<1>3. CASE IsArray(b) /\ IsArray(t)
  <2>1. diffValues(b, t, h) = diffArrays(b.array, t.array, h)
    BY <1>3, Kinds DEF diffValues
  <2>2. QED
    BY <1>3, <2>1, ArraysAreTyped
<1>4. CASE ~(IsMap(b) /\ IsMap(t)) /\ ~(IsArray(b) /\ IsArray(t))
  BY <1>1, <1>4 DEF diffValues
<1>5. QED
  BY <1>2, <1>3, <1>4

-----------------------------------------------------------------------------
(* The comparison of two values looks only at comparisons of lower ones.   *)

LEMMA MapsLookInside ==
  ASSUME NEW f, NEW g, NEW b \in Tree, NEW t \in Tree, IsMap(b), IsMap(t),
         \A y \in Tree : Height[y] < Height[b] => f[y] = g[y]
  PROVE  diffMaps(b.map, t.map, f) = diffMaps(b.map, t.map, g)
<1>1. \A key \in DOMAIN b.map : f[b.map[key]] = g[b.map[key]]
  BY FieldsAreInside
<1> DEFINE At(h, key) ==
      Below(Field(key),
        CASE key \notin DOMAIN b.map -> {Change("create", Nil, t.map[key])}
          [] key \notin DOMAIN t.map -> {Change("delete", b.map[key], Nil)}
          [] OTHER -> h[b.map[key]][t.map[key]])
<1>2. \A key \in AllKeys(b.map, t.map) : At(f, key) = At(g, key)
  BY <1>1
<1>3. /\ diffMaps(b.map, t.map, f) = UNION {At(f, key) : key \in AllKeys(b.map, t.map)}
      /\ diffMaps(b.map, t.map, g) = UNION {At(g, key) : key \in AllKeys(b.map, t.map)}
  BY DEF diffMaps
<1> HIDE DEF At
<1>4. QED
  BY <1>2, <1>3

LEMMA ArraysLookInside ==
  ASSUME NEW f, NEW g, NEW b \in Tree, NEW t \in Tree, IsArray(b), IsArray(t),
         \A y \in Tree : Height[y] < Height[b] => f[y] = g[y]
  PROVE  diffArrays(b.array, t.array, f) = diffArrays(b.array, t.array, g)
<1>1. diffMapArrays(b.array, t.array, f) = diffMapArrays(b.array, t.array, g)
  <2> DEFINE key == MatchKey(b.array, t.array)
             oldElem == ByKey(b.array, key)
  <2>1. DOMAIN oldElem = {ElementKey(e, key) : e \in ToSet(b.array)}
    BY DEF ByKey
  <2>2. \A p \in DOMAIN oldElem : f[oldElem[p]] = g[oldElem[p]]
    BY <2>1, LastIsThere, ElementsAreInside
  <2> DEFINE newElem == ByKey(t.array, key)
             At(h, p) ==
               Below(Element(key, p),
                 CASE p \notin DOMAIN newElem -> {Change("delete", oldElem[p], Nil)}
                   [] p \notin DOMAIN oldElem -> {Change("create", Nil, newElem[p])}
                   [] OTHER -> h[oldElem[p]][newElem[p]])
             All(h) == UNION {At(h, p) : p \in AllKeys(oldElem, newElem)}
  <2>3. \A p \in AllKeys(oldElem, newElem) : At(f, p) = At(g, p)
    <3> HIDE DEF key, oldElem, newElem
    <3>1. QED
      BY <2>2
  <2>4. All(f) = All(g)
    <3> HIDE DEF At
    <3>1. QED
      BY <2>3
  <2>5. \A h : diffMapArrays(b.array, t.array, h) =
               IF MatchKey(b.array, t.array) = "" THEN {} ELSE All(h)
    BY DEF diffMapArrays
  <2> HIDE DEF All
  <2>6. QED
    BY <2>4, <2>5
<1>2. QED
  BY <1>1 DEF diffArrays, diffLongArrays

LEMMA ValuesLookInside ==
  ASSUME NEW f, NEW g, NEW b \in Tree, NEW t \in Tree,
         \A y \in Tree : Height[y] < Height[b] => f[y] = g[y]
  PROVE  diffValues(b, t, f) = diffValues(b, t, g)
<1>1. CASE IsMap(b) /\ IsMap(t)
  BY <1>1, Kinds, MapsLookInside DEF diffValues
<1>2. CASE IsArray(b) /\ IsArray(t)
  BY <1>2, Kinds, ArraysLookInside DEF diffValues
<1>3. CASE ~(IsMap(b) /\ IsMap(t)) /\ ~(IsArray(b) /\ IsArray(t))
  BY <1>3 DEF diffValues
<1>4. QED
  BY <1>1, <1>2, <1>3

(* So the recursive definition of the comparison has a meaning.            *)
LEMMA DifferencesUnfold ==
  \A b, t \in Tree : differences[b][t] = diffValues(b, t, differences)
<1> DEFINE V == [Tree -> SUBSET FieldChange]
           W == [Tree -> V]
           start == [b \in Tree |-> [t \in Tree |-> {}]]
           Step(h) == [b \in Tree |-> [t \in Tree |-> diffValues(b, t, h)]]
           G == [h \in W |-> Step(h)]
<1>1. G \in [W -> W] /\ start \in W
  <2>1. ASSUME NEW h \in W PROVE Step(h) \in W
    BY ValuesAreTyped DEF Comparisons
  <2>2. QED
    BY <2>1
<1>2. ASSUME NEW f \in W, NEW g \in W, NEW b \in Tree,
             \A y \in Tree : Height[y] < Height[b] => f[y] = g[y]
      PROVE  G[f][b] = G[g][b]
  <2>1. \A t \in Tree : diffValues(b, t, f) = diffValues(b, t, g)
    BY <1>2, ValuesLookInside
  <2>2. Step(f)[b] = Step(g)[b]
    BY <2>1
  <2>3. QED
    BY <2>2
<1>3. PICK h \in W : h = G[h]
  <2>1. Height \in [Tree -> Nat]
    BY TreeAssumption
  <2>2. W = [Tree -> V]
    OBVIOUS
  <2> HIDE DEF V, W, G, start
  <2>3. Descends(G, W, Tree, Height)
    BY <1>2 DEF Descends
  <2>4. G \in [W -> W] /\ start \in W
    BY <1>1
  <2>5. HasFixedPoint(G, W)
    BY <2>1, <2>2, <2>3, <2>4, RankedRecursion
  <2>6. QED
    BY <2>5 DEF HasFixedPoint
<1>4. h = Step(h)
  BY <1>3
<1>5. differences = Step(differences)
  <2> HIDE DEF V, W, G, start
  <2>1. QED
    BY ONLY <1>4, Zenon DEF differences
<1>6. QED
  BY <1>5

LEMMA AlikeUnfolds ==
  \A v, w \in Tree : alike[v][w] <=>
     \/ v = w
     \/ /\ IsMap(v) /\ IsMap(w) /\ DOMAIN v.map = DOMAIN w.map
        /\ \A key \in DOMAIN v.map : alike[v.map[key]][w.map[key]]
     \/ /\ IsArray(v) /\ IsArray(w)
        /\ isArrayOfPrimitives(v.array) /\ isArrayOfPrimitives(w.array)
        /\ PrintsOf(v.array) = PrintsOf(w.array)
<1> DEFINE V == [Tree -> BOOLEAN]
           W == [Tree -> V]
           start == [v \in Tree |-> [w \in Tree |-> FALSE]]
           Like(h, v, w) ==
             \/ v = w
             \/ /\ IsMap(v) /\ IsMap(w) /\ DOMAIN v.map = DOMAIN w.map
                /\ \A key \in DOMAIN v.map : h[v.map[key]][w.map[key]]
             \/ /\ IsArray(v) /\ IsArray(w)
                /\ isArrayOfPrimitives(v.array) /\ isArrayOfPrimitives(w.array)
                /\ PrintsOf(v.array) = PrintsOf(w.array)
           Step(h) == [v \in Tree |-> [w \in Tree |-> Like(h, v, w)]]
           G == [h \in W |-> Step(h)]
<1>1. G \in [W -> W] /\ start \in W
  OBVIOUS
<1>2. ASSUME NEW f \in W, NEW g \in W, NEW v \in Tree,
             \A y \in Tree : Height[y] < Height[v] => f[y] = g[y]
      PROVE  G[f][v] = G[g][v]
  <2>1. IsMap(v) => \A key \in DOMAIN v.map : f[v.map[key]] = g[v.map[key]]
    BY <1>2, FieldsAreInside
  <2>2. Step(f)[v] = Step(g)[v]
    BY <2>1
  <2>3. QED
    BY <2>2
<1>3. PICK h \in W : h = G[h]
  <2>1. Height \in [Tree -> Nat]
    BY TreeAssumption
  <2>2. W = [Tree -> V]
    OBVIOUS
  <2> HIDE DEF V, W, G, start
  <2>3. Descends(G, W, Tree, Height)
    BY <1>2 DEF Descends
  <2>4. G \in [W -> W] /\ start \in W
    BY <1>1
  <2>5. HasFixedPoint(G, W)
    BY <2>1, <2>2, <2>3, <2>4, RankedRecursion
  <2>6. QED
    BY <2>5 DEF HasFixedPoint
<1>4. h = Step(h)
  BY <1>3
<1>5. alike = Step(alike)
  <2> HIDE DEF V, W, G, start
  <2>1. QED
    BY ONLY <1>4, Zenon DEF alike
<1>6. \A v, w \in Tree : alike[v][w] = Like(alike, v, w)
  <2> HIDE DEF Like
  <2>1. QED
    BY <1>5
<1>7. QED
  BY ONLY <1>6, Zenon

-----------------------------------------------------------------------------
(* A value has no differences from itself.                                 *)
LEMMA SameHasNone ==
  \A v \in Tree : differences[v][v] = {}
<1> DEFINE S == {v \in Tree : differences[v][v] = {}}
<1>1. ASSUME NEW v \in Tree, \A y \in Tree : Height[y] < Height[v] => y \in S
      PROVE  v \in S
  <2>1. CASE IsMap(v)
    <3> DEFINE At(key) ==
          CASE key \notin DOMAIN v.map -> {Change("create", Nil, v.map[key])}
            [] key \notin DOMAIN v.map -> {Change("delete", v.map[key], Nil)}
            [] OTHER -> differences[v.map[key]][v.map[key]]
    <3>1. ASSUME NEW key \in AllKeys(v.map, v.map) PROVE Below(Field(key), At(key)) = {}
      <4>1. key \in DOMAIN v.map
        BY DEF AllKeys
      <4>2. v.map[key] \in S
        BY <1>1, <2>1, <4>1, FieldsAreInside
      <4>3. At(key) = {}
        BY <4>1, <4>2
      <4> HIDE DEF At
      <4>4. QED
        BY <4>3 DEF Below
    <3>2. diffMaps(v.map, v.map, differences) =
            UNION {Below(Field(key), At(key)) : key \in AllKeys(v.map, v.map)}
      BY DEF diffMaps
    <3> HIDE DEF At
    <3>3. diffMaps(v.map, v.map, differences) = {}
      BY <3>1, <3>2
    <3>4. diffValues(v, v, differences) = diffMaps(v.map, v.map, differences)
      BY <2>1, Kinds DEF diffValues
    <3>5. QED
      BY <3>3, <3>4, DifferencesUnfold
  <2>2. CASE ~IsMap(v)
    <3>1. diffValues(v, v, differences) = {}
      BY <2>2 DEF diffValues, diffArrays
    <3>2. QED
      BY <3>1, DifferencesUnfold
  <2>3. QED
    BY <2>1, <2>2
<1> HIDE DEF S
<1>2. Height \in [Tree -> Nat]
  BY TreeAssumption
<1>3. Tree \subseteq S
  BY <1>1, <1>2, RankedInduction
<1>4. QED
  BY <1>3 DEF S

(* Arrays without differences are equal, or primitives that print alike.   *)
LEMMA ArraysPassedOver ==
  ASSUME NEW o, NEW n, NEW inside, diffArrays(o, n, inside) = {}
  PROVE  \/ o = n
         \/ isArrayOfPrimitives(o) /\ isArrayOfPrimitives(n) /\ PrintsOf(o) = PrintsOf(n)
<1>1. Update(Array(o), Array(n)) # {}
  BY DEF Update
<1>2. SUFFICES ASSUME o # n
               PROVE  isArrayOfPrimitives(o) /\ isArrayOfPrimitives(n) /\ PrintsOf(o) = PrintsOf(n)
  OBVIOUS
<1>3. diffLongArrays(o, n, inside) = {}
  BY <1>1, <1>2 DEF diffArrays
<1>4. isArrayOfPrimitives(o) /\ isArrayOfPrimitives(n) /\ diffPrimitiveArrays(o, n) = {}
  BY <1>1, <1>3 DEF diffLongArrays
<1>5. NotPrintedIn(o, n) = {} /\ NotPrintedIn(n, o) = {}
  <2>1. \A A, B : /\ (IF A = {} THEN {} ELSE {PartChange("delete", Elements(A), Elements({}))}) \cup
                       (IF B = {} THEN {} ELSE {PartChange("create", Elements({}), Elements(B))}) = {}
                     => A = {} /\ B = {}
    OBVIOUS
  <2>2. QED
    BY <1>4, <2>1 DEF diffPrimitiveArrays
<1>6. PrintsOf(o) = PrintsOf(n)
  BY <1>5 DEF NotPrintedIn, PrintsOf
<1>7. QED
  BY <1>4, <1>6

(* Values without differences are alike.                                   *)
LEMMA NoneMeansAlike ==
  \A b, t \in Tree : differences[b][t] = {} => alike[b][t]
<1> DEFINE S == {b \in Tree : \A t \in Tree : differences[b][t] = {} => alike[b][t]}
<1>1. ASSUME NEW b \in Tree, \A y \in Tree : Height[y] < Height[b] => y \in S
      PROVE  b \in S
  <2> SUFFICES ASSUME NEW t \in Tree, differences[b][t] = {}
               PROVE  alike[b][t]
    OBVIOUS
  <2>1. diffValues(b, t, differences) = {}
    BY DifferencesUnfold
  <2>2. CASE IsMap(b) /\ IsMap(t)
    <3> DEFINE At(key) ==
          CASE key \notin DOMAIN b.map -> {Change("create", Nil, t.map[key])}
            [] key \notin DOMAIN t.map -> {Change("delete", b.map[key], Nil)}
            [] OTHER -> differences[b.map[key]][t.map[key]]
    <3>1. diffMaps(b.map, t.map, differences) =
            UNION {Below(Field(key), At(key)) : key \in AllKeys(b.map, t.map)}
      BY DEF diffMaps
    <3>2. diffMaps(b.map, t.map, differences) = {}
      BY <2>1, <2>2, Kinds DEF diffValues
    <3>3. ASSUME NEW key \in AllKeys(b.map, t.map) PROVE At(key) = {}
      <4> HIDE DEF At
      <4>1. Below(Field(key), At(key)) = {}
        BY <3>1, <3>2
      <4>2. QED
        BY <4>1 DEF Below
    <3>4. DOMAIN b.map = DOMAIN t.map
      <4>1. ASSUME NEW key \in AllKeys(b.map, t.map) PROVE key \in DOMAIN b.map /\ key \in DOMAIN t.map
        BY <3>3
      <4>2. QED
        BY <4>1 DEF AllKeys
    <3>5. ASSUME NEW key \in DOMAIN b.map PROVE alike[b.map[key]][t.map[key]]
      <4>1. At(key) = {}
        BY <3>3 DEF AllKeys
      <4>2. differences[b.map[key]][t.map[key]] = {}
        BY <3>4, <4>1
      <4>3. b.map[key] \in S /\ t.map[key] \in Tree
        BY <1>1, <2>2, <3>4, FieldsAreInside
      <4>4. QED
        BY <4>2, <4>3
    <3>6. QED
      BY <2>2, <3>4, <3>5, AlikeUnfolds
  <2>3. CASE IsArray(b) /\ IsArray(t)
    <3>1. diffArrays(b.array, t.array, differences) = {}
      BY <2>1, <2>3, Kinds DEF diffValues
    <3>2. \/ b.array = t.array
          \/ /\ isArrayOfPrimitives(b.array) /\ isArrayOfPrimitives(t.array)
             /\ PrintsOf(b.array) = PrintsOf(t.array)
      BY <3>1, ArraysPassedOver
    <3>3. b.array = t.array => b = t
      BY <2>3, Kinds
    <3>4. QED
      BY <2>3, <3>2, <3>3, AlikeUnfolds
  <2>4. CASE ~(IsMap(b) /\ IsMap(t)) /\ ~(IsArray(b) /\ IsArray(t))
    <3>1. b = t
      BY <2>1, <2>4 DEF diffValues, Update
    <3>2. QED
      BY <3>1, AlikeUnfolds
  <2>5. QED
    BY <2>2, <2>3, <2>4
<1> HIDE DEF S
<1>2. Height \in [Tree -> Nat]
  BY TreeAssumption
<1>3. Tree \subseteq S
  BY <1>1, <1>2, RankedInduction
<1>4. QED
  BY <1>3 DEF S

(* Alike is so both ways.                                                  *)
LEMMA AlikeBothWays ==
  \A v, w \in Tree : alike[v][w] => alike[w][v]
<1> DEFINE S == {v \in Tree : \A w \in Tree : alike[v][w] => alike[w][v]}
<1>1. ASSUME NEW v \in Tree, \A y \in Tree : Height[y] < Height[v] => y \in S
      PROVE  v \in S
  <2> SUFFICES ASSUME NEW w \in Tree, alike[v][w] PROVE alike[w][v]
    OBVIOUS
  <2>1. CASE /\ IsMap(v) /\ IsMap(w) /\ DOMAIN v.map = DOMAIN w.map
             /\ \A key \in DOMAIN v.map : alike[v.map[key]][w.map[key]]
    <3>1. ASSUME NEW key \in DOMAIN w.map PROVE alike[w.map[key]][v.map[key]]
      <4>1. v.map[key] \in S /\ w.map[key] \in Tree
        BY <1>1, <2>1, FieldsAreInside
      <4>2. QED
        BY <2>1, <4>1
    <3>2. QED
      BY <2>1, <3>1, AlikeUnfolds
  <2>2. CASE v = w
    BY <2>2
  <2>3. CASE /\ IsArray(v) /\ IsArray(w)
             /\ isArrayOfPrimitives(v.array) /\ isArrayOfPrimitives(w.array)
             /\ PrintsOf(v.array) = PrintsOf(w.array)
    BY <2>3, AlikeUnfolds
  <2>4. QED
    BY <2>1, <2>2, <2>3, AlikeUnfolds
<1> HIDE DEF S
<1>2. Height \in [Tree -> Nat]
  BY TreeAssumption
<1>3. Tree \subseteq S
  BY <1>1, <1>2, RankedInduction
<1>4. QED
  BY <1>3 DEF S

LEMMA DistinguishedUnfolds ==
  \A v, w \in Tree : distinguished[v][w] <=>
     /\ IsMap(v) /\ IsMap(w) =>
          \A key \in DOMAIN v.map \cap DOMAIN w.map : distinguished[v.map[key]][w.map[key]]
     /\ IsArray(v) /\ IsArray(w) /\ isArrayOfMaps(v.array) /\ isArrayOfMaps(w.array)
        /\ MatchKey(v.array, w.array) # "" =>
          LET key == MatchKey(v.array, w.array)
          IN /\ Identified(v.array, key) /\ Identified(w.array, key)
             /\ \A e \in ToSet(v.array), f \in ToSet(w.array) :
                  ElementKey(e, key) = ElementKey(f, key) => distinguished[e][f]
<1> DEFINE V == [Tree -> BOOLEAN]
           W == [Tree -> V]
           start == [v \in Tree |-> [w \in Tree |-> FALSE]]
           Told(h, v, w) ==
             /\ IsMap(v) /\ IsMap(w) =>
                  \A key \in DOMAIN v.map \cap DOMAIN w.map : h[v.map[key]][w.map[key]]
             /\ IsArray(v) /\ IsArray(w) /\ isArrayOfMaps(v.array) /\ isArrayOfMaps(w.array)
                /\ MatchKey(v.array, w.array) # "" =>
                  LET key == MatchKey(v.array, w.array)
                  IN /\ Identified(v.array, key) /\ Identified(w.array, key)
                     /\ \A e \in ToSet(v.array), f \in ToSet(w.array) :
                          ElementKey(e, key) = ElementKey(f, key) => h[e][f]
           Step(h) == [v \in Tree |-> [w \in Tree |-> Told(h, v, w)]]
           G == [h \in W |-> Step(h)]
<1>1. G \in [W -> W] /\ start \in W
  <2>1. ASSUME NEW h \in W, NEW v \in Tree, NEW w \in Tree PROVE Told(h, v, w) \in BOOLEAN
    OBVIOUS
  <2> HIDE DEF Told
  <2>2. QED
    BY <2>1
<1>2. ASSUME NEW f \in W, NEW g \in W, NEW v \in Tree,
             \A y \in Tree : Height[y] < Height[v] => f[y] = g[y]
      PROVE  G[f][v] = G[g][v]
  <2>1. IsMap(v) => \A key \in DOMAIN v.map : f[v.map[key]] = g[v.map[key]]
    BY <1>2, FieldsAreInside
  <2>2. IsArray(v) => \A e \in ToSet(v.array) : f[e] = g[e]
    BY <1>2, ElementsAreInside
  <2>3. ASSUME NEW w \in Tree PROVE Told(f, v, w) = Told(g, v, w)
    BY <2>1, <2>2
  <2> HIDE DEF Told
  <2>4. Step(f)[v] = Step(g)[v]
    BY <2>3
  <2>5. QED
    BY <2>4
<1>3. PICK h \in W : h = G[h]
  <2>1. Height \in [Tree -> Nat]
    BY TreeAssumption
  <2>2. W = [Tree -> V]
    OBVIOUS
  <2> HIDE DEF V, W, G, start
  <2>3. Descends(G, W, Tree, Height)
    BY <1>2 DEF Descends
  <2>4. G \in [W -> W] /\ start \in W
    BY <1>1
  <2>5. HasFixedPoint(G, W)
    BY <2>1, <2>2, <2>3, <2>4, RankedRecursion
  <2>6. QED
    BY <2>5 DEF HasFixedPoint
<1>4. h = Step(h)
  <2> HIDE DEF Told
  <2>1. QED
    BY <1>3
<1>5. distinguished = Step(distinguished)
  <2> HIDE DEF V, W, G, start
  <2>1. QED
    BY ONLY <1>4, Zenon DEF distinguished
<1>6. \A v, w \in Tree : distinguished[v][w] = Told(distinguished, v, w)
  <2> HIDE DEF Told
  <2>1. QED
    BY <1>5
<1>7. QED
  BY ONLY <1>6, Zenon

LEMMA PlacesInside ==
  ASSUME NEW v \in Tree, IsMap(v), NEW key
  PROVE  /\ Get(v.map, key) \in Places
         /\ Get(v.map, key) # Nil => Get(v.map, key) \in Tree /\ Height[Get(v.map, key)] < Height[v]
BY FieldsAreInside DEF Get, Places

LEMMA MadeUnfolds ==
  \A v, w \in Places : made[v][w] = {changes \in SUBSET FieldChange : Makes(v, changes, w, made)}
<1> DEFINE V == [Places -> SUBSET (SUBSET FieldChange)]
           W == [Places -> V]
           start == [v \in Places |-> [w \in Places |-> {}]]
           Making(h, v, w) == {changes \in SUBSET FieldChange : Makes(v, changes, w, h)}
           Step(h) == [v \in Places |-> [w \in Places |-> Making(h, v, w)]]
           G == [h \in W |-> Step(h)]
           rank == [v \in Places |-> IF v = Nil THEN 0 ELSE Height[v] + 1]
<1>1. G \in [W -> W] /\ start \in W
  OBVIOUS
<1>0. rank \in [Places -> Nat]
  BY TreeAssumption DEF Places
<1>2. ASSUME NEW f \in W, NEW g \in W, NEW v \in Places,
             \A y \in Places : rank[y] < rank[v] => f[y] = g[y]
      PROVE  G[f][v] = G[g][v]
  <2>1. IsMap(v) \/ IsArray(v) => v \in Tree /\ v # Nil /\ rank[v] = Height[v] + 1
    BY DEF Places, Nil, IsMap, IsArray
  <2>2. ASSUME NEW y \in Tree, IsMap(v) \/ IsArray(v), Height[y] < Height[v] PROVE f[y] = g[y]
    <3>1. Height[y] \in Nat /\ Height[v] \in Nat /\ y \in Places
      BY <2>1, <2>2, TreeAssumption DEF Places
    <3>2. rank[y] < rank[v]
      BY <2>1, <2>2, <3>1
    <3>3. QED
      BY <1>2, <3>1, <3>2
  <2>3. ASSUME IsMap(v) \/ IsArray(v) PROVE f[Nil] = g[Nil]
    <3>1. rank[Nil] = 0 /\ Nil \in Places /\ Height[v] \in Nat
      BY <2>1, <2>3, TreeAssumption DEF Places
    <3>2. QED
      BY <1>2, <2>1, <2>3, <3>1
  <2> HIDE DEF rank
  <2>4. IsMap(v) => \A key : f[Get(v.map, key)] = g[Get(v.map, key)]
    BY <2>1, <2>2, <2>3, PlacesInside
  <2>5. IsArray(v) => \A e \in ToSet(v.array) : f[e] = g[e]
    BY <2>1, <2>2, ElementsAreInside
  <2>6. ASSUME NEW w \in Places, NEW changes PROVE Makes(v, changes, w, f) <=> Makes(v, changes, w, g)
    <3>1. IsMap(v) => (MadeOfMap(v.map, changes, w.map, f) <=> MadeOfMap(v.map, changes, w.map, g))
      BY <2>4 DEF MadeOfMap
    <3>2. IsArray(v) => (MadeOfArray(v.array, changes, w.array, f) <=> MadeOfArray(v.array, changes, w.array, g))
      BY <2>3, <2>5 DEF MadeOfArray
    <3>3. QED
      BY <3>1, <3>2 DEF Makes
  <2>7. Step(f)[v] = Step(g)[v]
    BY <2>6
  <2>8. QED
    BY <2>7
<1>3. PICK h \in W : h = G[h]
  <2>2. W = [Places -> V]
    OBVIOUS
  <2> HIDE DEF V, W, G, start, rank
  <2>3. Descends(G, W, Places, rank)
    BY <1>2 DEF Descends
  <2>4. G \in [W -> W] /\ start \in W
    BY <1>1
  <2>5. HasFixedPoint(G, W)
    BY <1>0, <2>2, <2>3, <2>4, RankedRecursion
  <2>6. QED
    BY <2>5 DEF HasFixedPoint
<1>4. h = Step(h)
  BY <1>3
<1>5. made = Step(made)
  <2> HIDE DEF V, W, G, start, rank
  <2>1. QED
    BY ONLY <1>4, Zenon DEF made
<1>6. \A v, w \in Places : made[v][w] = Making(made, v, w)
  <2> HIDE DEF Making
  <2>1. QED
    BY <1>5
<1>7. QED
  BY <1>6

-----------------------------------------------------------------------------
(* Changes behind several steps: those behind one step are found there,    *)
(* and undone where they are.                                              *)

Layers(P, step, A) == UNION {Below(step[p], A[p]) : p \in P}

Layered(P, step, A) ==
  /\ \A p \in P : step[p] \in Steps /\ A[p] \in SUBSET FieldChange
  /\ \A p, q \in P : step[p] = step[q] => p = q

LEMMA BelowIsBehind ==
  ASSUME NEW step, NEW changes \in SUBSET FieldChange, NEW c \in Below(step, changes)
  PROVE  /\ ~IsHere(c) /\ Head(c.path) = step
         /\ [c EXCEPT !.path = Tail(@)] \in changes
<1>1. PICK d \in changes : c = [d EXCEPT !.path = <<step>> \o @]
  BY DEF Below
<1>2. d \in FieldChange /\ d.path \in Seq(Steps)
  BY DEF FieldChange
<1>3. c.path = <<step>> \o d.path
  BY <1>1, <1>2 DEF FieldChange
<1>4. Len(c.path) # 0 /\ Head(c.path) = step /\ Tail(c.path) = d.path
  BY <1>2, <1>3
<1>5. [c EXCEPT !.path = Tail(@)] = d
  BY <1>1, <1>2, <1>4 DEF FieldChange
<1>6. c.path # << >>
  BY <1>4
<1>7. QED
  BY <1>4, <1>5, <1>6 DEF IsHere

LEMMA BelowComesBack ==
  ASSUME NEW step, NEW changes \in SUBSET FieldChange, NEW d \in changes
  PROVE  \E c \in Below(step, changes) : d = [c EXCEPT !.path = Tail(@)]
<1> DEFINE c == [d EXCEPT !.path = <<step>> \o @]
<1>1. c \in Below(step, changes)
  BY DEF Below
<1>2. d \in FieldChange /\ d.path \in Seq(Steps)
  BY DEF FieldChange
<1>3. c.path = <<step>> \o d.path
  BY <1>2 DEF FieldChange
<1>4. Tail(c.path) = d.path
  BY <1>2, <1>3
<1>5. [c EXCEPT !.path = Tail(@)] = d
  BY <1>2, <1>4 DEF FieldChange
<1>6. QED
  BY <1>1, <1>5

LEMMA LayersAreBehind ==
  ASSUME NEW P, NEW step, NEW A, Layered(P, step, A), NEW c \in Layers(P, step, A)
  PROVE  ~IsHere(c) /\ \E p \in P : Head(c.path) = step[p] /\ c \in Below(step[p], A[p])
BY BelowIsBehind DEF Layers, Layered

LEMMA LayersAreFound ==
  ASSUME NEW P, NEW step, NEW A, Layered(P, step, A), NEW p \in P
  PROVE  Inside(Layers(P, step, A), step[p]) = A[p]
<1>1. ASSUME NEW d \in A[p] PROVE d \in Inside(Layers(P, step, A), step[p])
  <2>1. PICK c \in Below(step[p], A[p]) : d = [c EXCEPT !.path = Tail(@)]
    BY BelowComesBack DEF Layered
  <2>2. c \in Layers(P, step, A)
    BY DEF Layers
  <2>3. ~IsHere(c) /\ Head(c.path) = step[p]
    BY BelowIsBehind DEF Layered
  <2>4. QED
    BY <2>1, <2>2, <2>3 DEF Inside
<1>2. ASSUME NEW d \in Inside(Layers(P, step, A), step[p]) PROVE d \in A[p]
  <2>1. PICK c \in Layers(P, step, A) : /\ ~IsHere(c) /\ Head(c.path) = step[p]
                                        /\ d = [c EXCEPT !.path = Tail(@)]
    BY DEF Inside
  <2>2. PICK q \in P : Head(c.path) = step[q] /\ c \in Below(step[q], A[q])
    BY LayersAreBehind
  <2>3. q = p
    BY <2>1, <2>2 DEF Layered
  <2>4. QED
    BY <2>1, <2>2, <2>3, BelowIsBehind DEF Layered
<1>3. QED
  BY <1>1, <1>2

LEMMA UndoneIsTyped ==
  ASSUME NEW changes \in SUBSET FieldChange
  PROVE  Undone(changes) \in SUBSET FieldChange
<1>1. ASSUME NEW c \in changes PROVE Undo(c) \in FieldChange
  BY DEF Undo, FieldChange
<1>2. QED
  BY <1>1 DEF Undone

LEMMA UndoneBelow ==
  ASSUME NEW step, NEW changes \in SUBSET FieldChange
  PROVE  Undone(Below(step, changes)) = Below(step, Undone(changes))
<1> DEFINE F(c) == [c EXCEPT !.path = <<step>> \o @]
<1>1. ASSUME NEW c \in changes PROVE Undo(F(c)) = F(Undo(c))
  <2>1. c \in FieldChange /\ Undo(c) \in FieldChange
    BY DEF Undo, FieldChange
  <2>2. ASSUME NEW d \in FieldChange
        PROVE  F(d) = [path |-> <<step>> \o d.path, action |-> d.action,
                       old |-> d.old, new |-> d.new, of |-> d.of]
    <3> DEFINE p == <<step>> \o d.path
    <3> HIDE DEF p
    <3>1. [d EXCEPT !.path = p] = [path |-> p, action |-> d.action,
                                   old |-> d.old, new |-> d.new, of |-> d.of]
      BY DEF FieldChange
    <3>2. QED
      BY <3>1 DEF p
  <2>3. Undo(c).path = c.path /\ Undo(c).of = c.of /\ Undo(c).old = c.new /\ Undo(c).new = c.old
    BY DEF Undo
  <2>4. F(Undo(c)) = [path |-> <<step>> \o c.path, action |-> Undo(c).action,
                      old |-> c.new, new |-> c.old, of |-> c.of]
    BY <2>1, <2>2, <2>3
  <2>5. F(c) = [path |-> <<step>> \o c.path, action |-> c.action,
                old |-> c.old, new |-> c.new, of |-> c.of]
    BY <2>1, <2>2
  <2> HIDE DEF F
  <2>6. QED
    BY <2>4, <2>5 DEF Undo
<1>2. /\ Undone(Below(step, changes)) = {Undo(x) : x \in {F(c) : c \in changes}}
      /\ Below(step, Undone(changes)) = {F(x) : x \in {Undo(c) : c \in changes}}
  BY DEF Undone, Below
<1> HIDE DEF F
<1>3. QED
  BY <1>1, <1>2

LEMMA LayersUndone ==
  ASSUME NEW P, NEW step, NEW A, Layered(P, step, A)
  PROVE  /\ Layered(P, step, [p \in P |-> Undone(A[p])])
         /\ Undone(Layers(P, step, A)) = Layers(P, step, [p \in P |-> Undone(A[p])])
<1>1. Layered(P, step, [p \in P |-> Undone(A[p])])
  BY UndoneIsTyped DEF Layered
<1>2. Undone(Layers(P, step, A)) = UNION {Undone(Below(step[p], A[p])) : p \in P}
  BY DEF Undone, Layers
<1>3. \A p \in P : Undone(Below(step[p], A[p])) = Below(step[p], Undone(A[p]))
  BY UndoneBelow DEF Layered
<1>4. QED
  BY <1>1, <1>2, <1>3 DEF Layers

-----------------------------------------------------------------------------
(* What changes make of a value: as a whole, ...                           *)
LEMMA WholeIsMade ==
  ASSUME NEW v \in Places, NEW w \in Places, NEW c \in FieldChange,
         c.path = << >>, c.of = "value", c.new = w
  PROVE  {c} \in made[v][w]
<1>1. {x.new : x \in {c}} = {w}
  OBVIOUS
<1>2. MadeHere(v, {c}, w)
  BY <1>1 DEF MadeHere
<1>3. Makes(v, {c}, w, made)
  BY <1>2 DEF Makes, IsHere
<1>4. QED
  BY <1>3, MadeUnfolds

LEMMA NoneMakesAlike ==
  ASSUME NEW v \in Tree, NEW w \in Tree, alike[v][w]
  PROVE  {} \in made[v][w]
<1>1. Makes(v, {}, w, made)
  BY DEF Makes
<1>2. v \in Places /\ w \in Places
  BY DEF Places
<1>3. QED
  BY <1>1, <1>2, MadeUnfolds

LEMMA LayersAreTyped ==
  ASSUME NEW P, NEW step, NEW A, Layered(P, step, A)
  PROVE  Layers(P, step, A) \in SUBSET FieldChange
BY BelowIsTyped DEF Layers, Layered

(* ... field by field, ...                                                 *)
LEMMA MapsAreMade ==
  ASSUME NEW v \in Tree, NEW w \in Tree, IsMap(v), IsMap(w),
         NEW P, P = AllKeys(v.map, w.map),
         NEW step, step = [key \in P |-> Field(key)],
         NEW A, Layered(P, step, A),
         \A key \in P : A[key] \in made[Get(v.map, key)][Get(w.map, key)],
         Layers(P, step, A) = {} => alike[v][w]
  PROVE  Layers(P, step, A) \in made[v][w]
<1> DEFINE changes == Layers(P, step, A)
<1>1. CASE changes = {}
  BY <1>1, NoneMakesAlike
<1>2. CASE changes # {}
  <2>1. \A c \in changes : ~IsHere(c)
    BY LayersAreBehind
  <2>2. FirstSteps(changes) \subseteq {Field(key) : key \in AllKeys(v.map, w.map)}
    <3>1. ASSUME NEW c \in changes PROVE Head(c.path) \in {Field(key) : key \in P}
      BY LayersAreBehind
    <3> HIDE DEF changes
    <3>2. QED
      BY <3>1 DEF FirstSteps
  <2>3. \A key \in AllKeys(v.map, w.map) :
          Inside(changes, Field(key)) \in made[Get(v.map, key)][Get(w.map, key)]
    BY LayersAreFound
  <2> HIDE DEF changes
  <2>4. MadeOfMap(v.map, changes, w.map, made)
    BY <2>2, <2>3 DEF MadeOfMap
  <2>5. Makes(v, changes, w, made)
    BY <1>2, <2>1, <2>4 DEF Makes
  <2>6. changes \in SUBSET FieldChange
    BY LayersAreTyped DEF changes
  <2>7. v \in Places /\ w \in Places
    BY DEF Places
  <2>8. QED
    BY <2>5, <2>6, <2>7, MadeUnfolds DEF changes
<1>3. QED
  BY <1>1, <1>2

(* ... and element by element.                                             *)
LEMMA ByKeyHas ==
  ASSUME NEW v \in Tree, IsArray(v), NEW key, NEW p \in DOMAIN ByKey(v.array, key)
  PROVE  /\ ByKey(v.array, key)[p] \in ToSet(v.array)
         /\ Identified(v.array, key) =>
              \A e \in ToSet(v.array) : ElementKey(e, key) = p => ByKey(v.array, key)[p] = e
<1>0. DOMAIN ByKey(v.array, key) = {ElementKey(e, key) : e \in ToSet(v.array)}
  BY DEF ByKey
<1>1. ByKey(v.array, key)[p] \in ToSet(v.array)
  BY <1>0, LastIsThere
<1>2. ASSUME Identified(v.array, key), NEW e \in ToSet(v.array), ElementKey(e, key) = p
      PROVE  ByKey(v.array, key)[p] = e
  <2>1. DOMAIN v.array = 1 .. Len(v.array) /\ Len(v.array) \in Nat
    BY TreeAssumption
  <2>2. PICK i \in 1 .. Len(v.array) : e = v.array[i]
    BY <2>1 DEF ToSet
  <2>3. \A j \in 1 .. Len(v.array) : ElementKey(v.array[j], key) = p => j = i
    BY <1>2, <2>2 DEF Identified
  <2>4. LastWith(v.array, key, p) = i
    BY <1>2, <2>1, <2>2, <2>3 DEF LastWith
  <2>5. QED
    BY <1>0, <2>2, <2>4 DEF ByKey
<1>3. QED
  BY <1>1, <1>2

LEMMA ArraysAreMade ==
  ASSUME NEW v \in Tree, NEW w \in Tree, IsArray(v), IsArray(w),
         isArrayOfMaps(v.array), isArrayOfMaps(w.array),
         NEW key \in ToSet(commonKeyFields),
         Identified(v.array, key), Identified(w.array, key),
         NEW f, f = ByKey(v.array, key), NEW g, g = ByKey(w.array, key),
         NEW P, P = AllKeys(f, g),
         NEW step, step = [p \in P |-> Element(key, p)],
         NEW A, Layered(P, step, A),
         \A p \in P : A[p] \in made[Get(f, p)][Get(g, p)],
         Layers(P, step, A) # {}
  PROVE  Layers(P, step, A) \in made[v][w]
<1> DEFINE changes == Layers(P, step, A)
<1>1. /\ DOMAIN f = {ElementKey(e, key) : e \in ToSet(v.array)}
      /\ DOMAIN g = {ElementKey(e, key) : e \in ToSet(w.array)}
  BY DEF ByKey
<1>2. \A c \in changes : ~IsHere(c)
  BY LayersAreBehind
<1>3. FirstSteps(changes) \subseteq
        {Element(key, ElementKey(e, key)) : e \in ToSet(v.array) \cup ToSet(w.array)}
  <2>1. ASSUME NEW c \in changes
        PROVE  \E e \in ToSet(v.array) \cup ToSet(w.array) : Head(c.path) = Element(key, ElementKey(e, key))
    <3>1. PICK p \in P : Head(c.path) = step[p]
      BY LayersAreBehind
    <3>2. step[p] = Element(key, p) /\ (p \in DOMAIN f \/ p \in DOMAIN g)
      BY DEF AllKeys
    <3>3. QED
      BY <1>1, <3>1, <3>2
  <2> HIDE DEF changes
  <2>2. QED
    BY <2>1 DEF FirstSteps
<1>4. \A p \in P : Inside(changes, Element(key, p)) \in made[Get(f, p)][Get(g, p)]
  BY LayersAreFound
<1>5. ASSUME NEW e \in ToSet(v.array)
      PROVE  /\ ElementKey(e, key) \in DOMAIN f /\ ElementKey(e, key) \in P
             /\ Get(f, ElementKey(e, key)) = e
  <2>1. ElementKey(e, key) \in DOMAIN f
    BY <1>1
  <2>2. QED
    BY <2>1, ByKeyHas DEF AllKeys, Get
<1>6. ASSUME NEW e \in ToSet(w.array)
      PROVE  /\ ElementKey(e, key) \in DOMAIN g /\ ElementKey(e, key) \in P
             /\ Get(g, ElementKey(e, key)) = e
  <2>1. ElementKey(e, key) \in DOMAIN g
    BY <1>1
  <2>2. QED
    BY <2>1, ByKeyHas DEF AllKeys, Get
<1> DEFINE at(e) == Inside(changes, Element(key, ElementKey(e, key)))
<1>7. ASSUME NEW e \in ToSet(v.array)
      PROVE  at(e) \in made[e][Nil] \/ \E x \in ToSet(w.array) : at(e) \in made[e][x]
  <2> DEFINE p == ElementKey(e, key)
  <2>1. p \in P /\ Get(f, p) = e
    BY <1>5
  <2>2. at(e) \in made[e][Get(g, p)]
    BY <1>4, <2>1
  <2>3. Get(g, p) = Nil \/ Get(g, p) \in ToSet(w.array)
    BY ByKeyHas DEF Get
  <2>4. QED
    BY <2>2, <2>3
<1>8. ASSUME NEW x \in ToSet(w.array)
      PROVE  \/ \E e \in ToSet(v.array) : at(e) \in made[e][x]
             \/ /\ \A e \in ToSet(v.array) : ElementKey(e, key) # ElementKey(x, key)
                /\ at(x) \in made[Nil][x]
  <2> DEFINE p == ElementKey(x, key)
  <2>1. p \in P /\ Get(g, p) = x
    BY <1>6
  <2>2. at(x) \in made[Get(f, p)][x]
    BY <1>4, <2>1
  <2>3. CASE p \in DOMAIN f
    <3>1. PICK e \in ToSet(v.array) : ElementKey(e, key) = p
      BY <1>1, <2>3
    <3>2. Get(f, p) = e /\ at(e) = at(x)
      BY <1>5, <3>1
    <3>3. QED
      BY <2>2, <3>2
  <2>4. CASE p \notin DOMAIN f
    <3>1. Get(f, p) = Nil
      BY <2>4 DEF Get
    <3>2. \A e \in ToSet(v.array) : ElementKey(e, key) # p
      BY <1>1, <2>4
    <3>3. QED
      BY <2>2, <3>1, <3>2
  <2>5. QED
    BY <2>3, <2>4
<1>9. changes \in SUBSET FieldChange /\ changes # {}
  BY LayersAreTyped
<1> HIDE DEF changes
<1>10. MadeOfArray(v.array, changes, w.array, made)
  BY <1>3, <1>7, <1>8 DEF MadeOfArray
<1>11. Makes(v, changes, w, made)
  BY <1>2, <1>9, <1>10 DEF Makes
<1>12. v \in Places /\ w \in Places
  BY DEF Places
<1>13. QED
  BY <1>9, <1>11, <1>12, MadeUnfolds DEF changes

(* Arrays of primitives are made by what they print.                       *)
LEMMA PrimitivesUndone ==
  ASSUME NEW old, NEW new
  PROVE  Undone(diffPrimitiveArrays(old, new)) = diffPrimitiveArrays(new, old)
<1> DEFINE Gone(A) == IF A = {} THEN {} ELSE {PartChange("delete", Elements(A), Elements({}))}
           Come(A) == IF A = {} THEN {} ELSE {PartChange("create", Elements({}), Elements(A))}
<1>1. \A A : Undone(Gone(A)) = Come(A) /\ Undone(Come(A)) = Gone(A)
  <2>1. \A A : /\ Undo(PartChange("delete", Elements(A), Elements({}))) =
                    PartChange("create", Elements({}), Elements(A))
               /\ Undo(PartChange("create", Elements({}), Elements(A))) =
                    PartChange("delete", Elements(A), Elements({}))
    BY DEF Undo, PartChange, Change
  <2>2. QED
    BY <2>1 DEF Undone
<1>2. \A A, B : Undone(A \cup B) = Undone(A) \cup Undone(B)
  BY DEF Undone
<1>3. \A o, n : diffPrimitiveArrays(o, n) = Gone(NotPrintedIn(o, n)) \cup Come(NotPrintedIn(n, o))
  BY DEF diffPrimitiveArrays
<1> DEFINE R == NotPrintedIn(old, new)
           N == NotPrintedIn(new, old)
<1> HIDE DEF Gone, Come, R, N
<1>4. diffPrimitiveArrays(old, new) = Gone(R) \cup Come(N)
  BY <1>3 DEF R, N
<1>5. diffPrimitiveArrays(new, old) = Gone(N) \cup Come(R)
  BY <1>3 DEF R, N
<1>6. Undone(Gone(R) \cup Come(N)) = Come(R) \cup Gone(N)
  BY <1>1, <1>2
<1>7. QED
  BY <1>4, <1>5, <1>6

LEMMA PrimitivesAreMade ==
  ASSUME NEW v \in Tree, NEW w \in Tree, IsArray(v), IsArray(w),
         isArrayOfPrimitives(v.array), isArrayOfPrimitives(w.array)
  PROVE  diffPrimitiveArrays(v.array, w.array) \in made[v][w]
<1> DEFINE R == NotPrintedIn(v.array, w.array)
           N == NotPrintedIn(w.array, v.array)
           gone == PartChange("delete", Elements(R), Elements({}))
           come == PartChange("create", Elements({}), Elements(N))
           changes == diffPrimitiveArrays(v.array, w.array)
<1>1. changes = (IF R = {} THEN {} ELSE {gone}) \cup (IF N = {} THEN {} ELSE {come})
  BY DEF diffPrimitiveArrays
<1>2. /\ R = {e \in ToSet(v.array) : Sprint(e) \notin PrintsOf(w.array)}
      /\ N = {e \in ToSet(w.array) : Sprint(e) \notin PrintsOf(v.array)}
  BY DEF NotPrintedIn, PrintsOf
<1>3. /\ gone.path = << >> /\ gone.of = "elements" /\ gone.old.elements = R /\ gone.new.elements = {}
      /\ come.path = << >> /\ come.of = "elements" /\ come.old.elements = {} /\ come.new.elements = N
  BY DEF PartChange, Change, Elements
<1>4. changes \in SUBSET FieldChange
  <2>1. Elements({}) \in Worth
    BY DEF Elements, Worth
  <2>2. gone \in FieldChange /\ come \in FieldChange
    BY <2>1, ElementsAreTyped, ChangesAreTyped
  <2> HIDE DEF gone, come, changes
  <2>3. QED
    BY <1>1, <2>2
<1> HIDE DEF R, N, gone, come, changes
<1>5. CASE changes = {}
  <2>1. R = {} /\ N = {}
    BY <1>1, <1>5
  <2>2. PrintsOf(v.array) = PrintsOf(w.array)
    BY <1>2, <2>1 DEF PrintsOf
  <2>3. QED
    BY <1>5, <2>2, AlikeUnfolds, NoneMakesAlike DEF changes
<1>6. CASE changes # {}
  <2> DEFINE kept == {e \in ToSet(v.array) : \A c \in changes : e \notin c.old.elements}
             added == UNION {c.new.elements : c \in changes}
  <2>1. kept = {e \in ToSet(v.array) : Sprint(e) \in PrintsOf(w.array)}
    <3>1. \A e \in ToSet(v.array) : (\A c \in changes : e \notin c.old.elements) <=> e \notin R
      BY <1>1, <1>3
    <3>2. QED
      BY <1>2, <3>1
  <2>2. added = N
    BY <1>1, <1>3
  <2> HIDE DEF kept, added
  <2>3. PrintsOf(w.array) = {Sprint(e) : e \in kept \cup added}
    BY <1>2, <2>1, <2>2 DEF PrintsOf
  <2>4. \A c \in changes : c.of = "elements" /\ IsHere(c)
    BY <1>1, <1>3 DEF IsHere
  <2>5. MadeHere(v, changes, w)
    BY <2>3, <2>4 DEF MadeHere, kept, added
  <2>6. Makes(v, changes, w, made)
    BY <1>6, <2>4, <2>5 DEF Makes
  <2>7. v \in Places /\ w \in Places
    BY DEF Places
  <2>8. QED
    BY <1>4, <2>6, <2>7, MadeUnfolds DEF changes
<1>7. QED
  BY <1>5, <1>6

-----------------------------------------------------------------------------
(* What two maps, or two indexes of elements, have under a key.            *)
AtKey(f, g, key) ==
  CASE key \notin DOMAIN f -> {Change("create", Nil, g[key])}
    [] key \notin DOMAIN g -> {Change("delete", f[key], Nil)}
    [] OTHER -> differences[f[key]][g[key]]

(* The differences from b to t make t of b, and undone, b of t.            *)
Both(b, t) ==
  /\ differences[b][t] \in made[b][t]
  /\ Undone(differences[b][t]) \in made[t][b]

LEMMA AtKeyIsMade ==
  ASSUME NEW f, NEW g, NEW key \in AllKeys(f, g),
         key \in DOMAIN f => f[key] \in Tree,
         key \in DOMAIN g => g[key] \in Tree,
         key \in DOMAIN f /\ key \in DOMAIN g => Both(f[key], g[key])
  PROVE  /\ AtKey(f, g, key) \in SUBSET FieldChange
         /\ AtKey(f, g, key) \in made[Get(f, key)][Get(g, key)]
         /\ Undone(AtKey(f, g, key)) \in made[Get(g, key)][Get(f, key)]
<1>1. Nil \in Worth /\ Tree \subseteq Worth /\ Nil \in Places /\ Tree \subseteq Places
  BY DEF Worth, Places
<1>2. ASSUME NEW x \in Tree
      PROVE  /\ Change("create", Nil, x) \in FieldChange /\ Change("delete", x, Nil) \in FieldChange
             /\ {Change("create", Nil, x)} \in made[Nil][x]
             /\ {Change("delete", x, Nil)} \in made[x][Nil]
             /\ Undone({Change("create", Nil, x)}) = {Change("delete", x, Nil)}
             /\ Undone({Change("delete", x, Nil)}) = {Change("create", Nil, x)}
  <2>1. Change("create", Nil, x) \in FieldChange /\ Change("delete", x, Nil) \in FieldChange
    BY <1>1, ChangesAreTyped
  <2>2. \A action, old, new : /\ Change(action, old, new).path = << >>
                              /\ Change(action, old, new).of = "value"
                              /\ Change(action, old, new).new = new
    BY DEF Change
  <2>3. /\ {Change("create", Nil, x)} \in made[Nil][x]
        /\ {Change("delete", x, Nil)} \in made[x][Nil]
    <3>1. Nil \in Places /\ x \in Places
      BY <1>1
    <3>2. {Change("create", Nil, x)} \in made[Nil][x]
      <4> DEFINE c == Change("create", Nil, x)
      <4>1. c \in FieldChange /\ c.path = << >> /\ c.of = "value" /\ c.new = x
        BY <2>1, <2>2
      <4> HIDE DEF c
      <4>2. {c} \in made[Nil][x]
        BY <3>1, <4>1, WholeIsMade
      <4>3. QED
        BY <4>2 DEF c
    <3>3. {Change("delete", x, Nil)} \in made[x][Nil]
      <4> DEFINE c == Change("delete", x, Nil)
      <4>1. c \in FieldChange /\ c.path = << >> /\ c.of = "value" /\ c.new = Nil
        BY <2>1, <2>2
      <4> HIDE DEF c
      <4>2. {c} \in made[x][Nil]
        BY <3>1, <4>1, WholeIsMade
      <4>3. QED
        BY <4>2 DEF c
    <3>4. QED
      BY <3>2, <3>3
  <2>4. /\ Undo(Change("create", Nil, x)) = Change("delete", x, Nil)
        /\ Undo(Change("delete", x, Nil)) = Change("create", Nil, x)
    BY DEF Undo, Change
  <2>5. QED
    BY <2>1, <2>3, <2>4 DEF Undone
<1>3. CASE key \notin DOMAIN f
  <2>1. g[key] \in Tree /\ Get(f, key) = Nil /\ Get(g, key) = g[key]
    BY <1>3 DEF AllKeys, Get
  <2>2. AtKey(f, g, key) = {Change("create", Nil, g[key])}
    BY <1>3 DEF AtKey, AllKeys
  <2>3. QED
    BY <1>2, <2>1, <2>2
<1>4. CASE key \notin DOMAIN g
  <2>1. f[key] \in Tree /\ Get(f, key) = f[key] /\ Get(g, key) = Nil
    BY <1>4 DEF AllKeys, Get
  <2>2. AtKey(f, g, key) = {Change("delete", f[key], Nil)}
    BY <1>4 DEF AtKey, AllKeys
  <2>3. QED
    BY <1>2, <2>1, <2>2
<1>5. CASE key \in DOMAIN f /\ key \in DOMAIN g
  <2>1. f[key] \in Places /\ g[key] \in Places
    BY <1>1, <1>5
  <2>2. AtKey(f, g, key) = differences[f[key]][g[key]]
    BY <1>5 DEF AtKey
  <2>3. Get(f, key) = f[key] /\ Get(g, key) = g[key]
    BY <1>5 DEF Get
  <2>4. differences[f[key]][g[key]] \in made[f[key]][g[key]]
    BY <1>5 DEF Both
  <2>5. differences[f[key]][g[key]] \in SUBSET FieldChange
    BY <2>1, <2>4, MadeUnfolds
  <2>6. QED
    BY <1>5, <2>2, <2>3, <2>4, <2>5 DEF Both
<1>6. QED
  BY <1>3, <1>4, <1>5

LEMMA UpdateIsMade ==
  ASSUME NEW b \in Tree, NEW t \in Tree
  PROVE  Update(b, t) \in made[b][t] /\ Undone(Update(b, t)) \in made[t][b]
<1>1. b \in Worth /\ t \in Worth /\ b \in Places /\ t \in Places
  BY DEF Worth, Places
<1>2. ASSUME NEW v \in Tree, NEW w \in Tree, v \in Worth, w \in Worth, v \in Places, w \in Places
      PROVE  {Change("update", v, w)} \in made[v][w]
  <2> DEFINE c == Change("update", v, w)
  <2>1. c \in FieldChange
    BY <1>2, ChangesAreTyped
  <2>2. c.path = << >> /\ c.of = "value" /\ c.new = w
    BY DEF Change
  <2> HIDE DEF c
  <2>3. {c} \in made[v][w]
    BY <1>2, <2>1, <2>2, WholeIsMade
  <2>4. QED
    BY <2>3 DEF c
<1>3. Undo(Change("update", b, t)) = Change("update", t, b)
  BY DEF Undo, Change
<1>4. Undone(Update(b, t)) = {Change("update", t, b)}
  BY <1>3 DEF Undone, Update
<1>5. QED
  BY <1>1, <1>2, <1>4 DEF Update

LEMMA NoneMakesSame ==
  ASSUME NEW b \in Tree, NEW t \in Tree, differences[b][t] = {}
  PROVE  Both(b, t)
<1>1. alike[b][t] /\ alike[t][b]
  BY NoneMeansAlike, AlikeBothWays
<1>2. Undone(differences[b][t]) = {}
  BY DEF Undone
<1>3. QED
  BY <1>1, <1>2, NoneMakesAlike DEF Both

LEMMA FieldByField ==
  ASSUME NEW b \in Tree, NEW t \in Tree, IsMap(b), IsMap(t),
         \A key \in DOMAIN b.map \cap DOMAIN t.map : Both(b.map[key], t.map[key])
  PROVE  Both(b, t)
<1> DEFINE P == AllKeys(b.map, t.map)
           step == [key \in P |-> Field(key)]
           A == [key \in P |-> AtKey(b.map, t.map, key)]
           undone == [key \in P |-> Undone(A[key])]
<1>1. differences[b][t] = Layers(P, step, A)
  <2>1. differences[b][t] = diffMaps(b.map, t.map, differences)
    BY DifferencesUnfold, Kinds DEF diffValues
  <2>2. diffMaps(b.map, t.map, differences) =
          UNION {Below(Field(key), AtKey(b.map, t.map, key)) : key \in P}
    BY DEF diffMaps, AtKey
  <2>3. QED
    BY <2>1, <2>2 DEF Layers
<1>2. ASSUME NEW key \in P
      PROVE  /\ AtKey(b.map, t.map, key) \in SUBSET FieldChange
             /\ AtKey(b.map, t.map, key) \in made[Get(b.map, key)][Get(t.map, key)]
             /\ Undone(AtKey(b.map, t.map, key)) \in made[Get(t.map, key)][Get(b.map, key)]
  BY FieldsAreInside, AtKeyIsMade
<1>3. Layered(P, step, A)
  <2>1. ASSUME NEW key \in P PROVE Field(key) \in Steps
    <3>1. b \in Maps /\ t \in Maps
      BY DEF Maps
    <3>2. key \in UNION {DOMAIN v.map : v \in Maps}
      BY <3>1 DEF AllKeys
    <3>3. QED
      BY <3>2 DEF Steps
  <2>2. \A p, q \in P : Field(p) = Field(q) => p = q
    BY DEF Field
  <2> HIDE DEF P
  <2>3. QED
    BY <1>2, <2>1, <2>2 DEF Layered
<1>4. Layered(P, step, undone) /\ Undone(Layers(P, step, A)) = Layers(P, step, undone)
  BY <1>3, LayersUndone
<1>5. \A key \in P : /\ A[key] \in made[Get(b.map, key)][Get(t.map, key)]
                     /\ undone[key] \in made[Get(t.map, key)][Get(b.map, key)]
  BY <1>2
<1>6. P = AllKeys(t.map, b.map)
  BY DEF AllKeys
<1>7. CASE differences[b][t] = {}
  BY <1>7, NoneMakesSame
<1>8. CASE differences[b][t] # {}
  <2>1. Layers(P, step, A) # {} /\ Layers(P, step, undone) # {}
    BY <1>1, <1>4, <1>8 DEF Undone
  <2>2. step = [key \in P |-> Field(key)] /\ P = AllKeys(b.map, t.map)
    OBVIOUS
  <2> HIDE DEF P, step, A, undone
  <2>3. Layers(P, step, A) \in made[b][t]
    BY <1>3, <1>5, <2>1, <2>2, MapsAreMade
  <2>4. Layers(P, step, undone) \in made[t][b]
    BY <1>4, <1>5, <1>6, <2>1, <2>2, MapsAreMade
  <2>5. QED
    BY <1>1, <1>4, <2>3, <2>4 DEF Both
<1>9. QED
  BY <1>7, <1>8

LEMMA ElementByElement ==
  ASSUME NEW b \in Tree, NEW t \in Tree, IsArray(b), IsArray(t),
         isArrayOfMaps(b.array), isArrayOfMaps(t.array),
         NEW key, key = MatchKey(b.array, t.array), key # "",
         Identified(b.array, key), Identified(t.array, key),
         \A e \in ToSet(b.array), x \in ToSet(t.array) :
           ElementKey(e, key) = ElementKey(x, key) => Both(e, x),
         differences[b][t] = diffMapArrays(b.array, t.array, differences)
  PROVE  Both(b, t)
<1> DEFINE f == ByKey(b.array, key)
           g == ByKey(t.array, key)
           P == AllKeys(f, g)
           step == [p \in P |-> Element(key, p)]
           A == [p \in P |-> AtKey(f, g, p)]
           undone == [p \in P |-> Undone(A[p])]
<1>1. /\ DOMAIN f = {ElementKey(e, key) : e \in ToSet(b.array)}
      /\ DOMAIN g = {ElementKey(e, key) : e \in ToSet(t.array)}
  BY DEF ByKey
<1>2. ASSUME NEW p \in DOMAIN f PROVE f[p] \in ToSet(b.array) /\ f[p] \in Tree /\ ElementKey(f[p], key) = p
  <2>1. f[p] \in ToSet(b.array)
    BY ByKeyHas
  <2>2. PICK e \in ToSet(b.array) : ElementKey(e, key) = p
    BY <1>1
  <2>3. f[p] = e
    BY <2>2, ByKeyHas
  <2>4. QED
    BY <2>1, <2>2, <2>3, ElementsAreInside
<1>3. ASSUME NEW p \in DOMAIN g PROVE g[p] \in ToSet(t.array) /\ g[p] \in Tree /\ ElementKey(g[p], key) = p
  <2>1. g[p] \in ToSet(t.array)
    BY ByKeyHas
  <2>2. PICK e \in ToSet(t.array) : ElementKey(e, key) = p
    BY <1>1
  <2>3. g[p] = e
    BY <2>2, ByKeyHas
  <2>4. QED
    BY <2>1, <2>2, <2>3, ElementsAreInside
<1>4. differences[b][t] = Layers(P, step, A)
  <2> DEFINE Found(p) ==
        CASE p \notin DOMAIN g -> {Change("delete", f[p], Nil)}
          [] p \notin DOMAIN f -> {Change("create", Nil, g[p])}
          [] OTHER -> differences[f[p]][g[p]]
  <2>1. \A p \in P : Found(p) = AtKey(f, g, p)
    <3> HIDE DEF f, g
    <3>1. QED
      BY DEF AtKey, AllKeys
  <2>2. diffMapArrays(b.array, t.array, differences) =
          UNION {Below(Element(key, p), Found(p)) : p \in P}
    BY DEF diffMapArrays
  <2> HIDE DEF f, g, P, Found
  <2>3. diffMapArrays(b.array, t.array, differences) =
          UNION {Below(Element(key, p), AtKey(f, g, p)) : p \in P}
    BY <2>1, <2>2
  <2>4. QED
    BY <2>3 DEF Layers
<1> HIDE DEF f, g
<1>5. ASSUME NEW p \in P
      PROVE  /\ AtKey(f, g, p) \in SUBSET FieldChange
             /\ AtKey(f, g, p) \in made[Get(f, p)][Get(g, p)]
             /\ Undone(AtKey(f, g, p)) \in made[Get(g, p)][Get(f, p)]
  <2>1. p \in DOMAIN f /\ p \in DOMAIN g => Both(f[p], g[p])
    BY <1>2, <1>3
  <2>2. QED
    BY <1>2, <1>3, <2>1, AtKeyIsMade
<1>6. Layered(P, step, A)
  <2>1. ASSUME NEW p \in P PROVE Element(key, p) \in Steps
    <3>1. PICK e \in ToSet(b.array) \cup ToSet(t.array) : p = ElementKey(e, key)
      BY <1>1 DEF AllKeys
    <3>2. e \in Maps
      BY <3>1, ElementsAreInside DEF Maps, isArrayOfMaps
    <3>3. QED
      BY <3>1, <3>2, ElementsAreSteps, MatchKeyIsCommon
  <2>2. \A p, q \in P : Element(key, p) = Element(key, q) => p = q
    BY DEF Element
  <2> HIDE DEF P
  <2>3. QED
    BY <1>5, <2>1, <2>2 DEF Layered
<1>7. Layered(P, step, undone) /\ Undone(Layers(P, step, A)) = Layers(P, step, undone)
  <2> HIDE DEF P, step, A
  <2>1. QED
    BY <1>6, LayersUndone
<1>8. \A p \in P : /\ A[p] \in made[Get(f, p)][Get(g, p)]
                   /\ undone[p] \in made[Get(g, p)][Get(f, p)]
  BY <1>5
<1>9. P = AllKeys(g, f)
  BY DEF AllKeys
<1>10. CASE differences[b][t] = {}
  BY <1>10, NoneMakesSame
<1>11. CASE differences[b][t] # {}
  <2>1. Layers(P, step, A) # {} /\ Layers(P, step, undone) # {}
    BY <1>4, <1>7, <1>11 DEF Undone
  <2>2. step = [p \in P |-> Element(key, p)] /\ P = AllKeys(f, g)
    OBVIOUS
  <2>3. key \in ToSet(commonKeyFields)
    BY MatchKeyIsCommon
  <2>4. f = ByKey(b.array, key) /\ g = ByKey(t.array, key)
    BY DEF f, g
  <2>5. \A p \in P : A[p] \in made[Get(f, p)][Get(g, p)]
    BY <1>8
  <2>6. \A p \in P : undone[p] \in made[Get(g, p)][Get(f, p)]
    BY <1>8
  <2> HIDE DEF P, step, A, undone
  <2>7. Layers(P, step, A) \in made[b][t]
    BY <1>6, <2>1, <2>2, <2>3, <2>4, <2>5, ArraysAreMade
  <2>8. Layers(P, step, undone) \in made[t][b]
    BY <1>7, <1>9, <2>1, <2>2, <2>3, <2>4, <2>6, ArraysAreMade
  <2>9. QED
    BY <1>4, <1>7, <2>7, <2>8 DEF Both
<1>12. QED
  BY <1>10, <1>11

(* Of any two values whose elements the keys tell apart, the differences   *)
(* make the one of the other, both ways.                                   *)
LEMMA DifferencesMakeBoth ==
  \A b, t \in Tree : distinguished[b][t] => Both(b, t)
<1> DEFINE S == {b \in Tree : \A t \in Tree : distinguished[b][t] => Both(b, t)}
<1>1. ASSUME NEW b \in Tree, \A y \in Tree : Height[y] < Height[b] => y \in S
      PROVE  b \in S
  <2> SUFFICES ASSUME NEW t \in Tree, distinguished[b][t]
               PROVE  Both(b, t)
    OBVIOUS
  <2>1. CASE IsMap(b) /\ IsMap(t)
    <3>1. ASSUME NEW key \in DOMAIN b.map \cap DOMAIN t.map PROVE Both(b.map[key], t.map[key])
      <4>1. b.map[key] \in S /\ t.map[key] \in Tree
        BY <1>1, <2>1, FieldsAreInside
      <4>2. distinguished[b.map[key]][t.map[key]]
        BY <2>1, DistinguishedUnfolds
      <4>3. QED
        BY <4>1, <4>2
    <3> HIDE DEF S
    <3>2. QED
      BY <2>1, <3>1, FieldByField
  <2>2. CASE IsArray(b) /\ IsArray(t)
    <3>1. differences[b][t] = diffArrays(b.array, t.array, differences)
      BY <2>2, DifferencesUnfold, Kinds DEF diffValues
    <3>2. Array(b.array) = b /\ Array(t.array) = t
      BY <2>2, Kinds
    <3>3. CASE differences[b][t] = {}
      BY <3>3, NoneMakesSame
    <3>4. CASE differences[b][t] = Update(b, t)
      BY <3>4, UpdateIsMade DEF Both
    <3>5. CASE /\ isArrayOfPrimitives(b.array) /\ isArrayOfPrimitives(t.array)
               /\ differences[b][t] = diffPrimitiveArrays(b.array, t.array)
      BY <2>2, <3>5, PrimitivesAreMade, PrimitivesUndone DEF Both
    <3>6. CASE /\ isArrayOfMaps(b.array) /\ isArrayOfMaps(t.array)
               /\ differences[b][t] = diffMapArrays(b.array, t.array, differences)
               /\ differences[b][t] # {}
      <4> DEFINE key == MatchKey(b.array, t.array)
      <4>1. key # ""
        BY <3>6 DEF diffMapArrays
      <4>2. /\ Identified(b.array, key) /\ Identified(t.array, key)
            /\ \A e \in ToSet(b.array), f \in ToSet(t.array) :
                 ElementKey(e, key) = ElementKey(f, key) => distinguished[e][f]
        BY <2>2, <3>6, <4>1, DistinguishedUnfolds
      <4>3. ASSUME NEW e \in ToSet(b.array), NEW f \in ToSet(t.array),
                   ElementKey(e, key) = ElementKey(f, key)
            PROVE  Both(e, f)
        <5>1. e \in S /\ f \in Tree
          BY <1>1, <2>2, ElementsAreInside
        <5>2. QED
          BY <4>2, <4>3, <5>1
      <4>4. key = MatchKey(b.array, t.array)
        OBVIOUS
      <4> HIDE DEF S, key
      <4>5. QED
        BY <2>2, <3>6, <4>1, <4>2, <4>3, <4>4, ElementByElement
    <3>7. QED
      BY <3>1, <3>2, <3>3, <3>4, <3>5, <3>6 DEF diffArrays, diffLongArrays
  <2>3. CASE ~(IsMap(b) /\ IsMap(t)) /\ ~(IsArray(b) /\ IsArray(t))
    <3>1. differences[b][t] = IF b = t THEN {} ELSE Update(b, t)
      BY <2>3, DifferencesUnfold DEF diffValues
    <3>2. QED
      BY <3>1, NoneMakesSame, UpdateIsMade DEF Both
  <2>4. QED
    BY <2>1, <2>2, <2>3
<1> HIDE DEF S
<1>2. Height \in [Tree -> Nat]
  BY TreeAssumption
<1>3. Tree \subseteq S
  BY <1>1, <1>2, RankedInduction
<1>4. QED
  BY <1>3 DEF S

-----------------------------------------------------------------------------
(* What the specs are compared by is in the tree.                          *)
LEMMA ComparedIsInTree ==
  ASSUME NEW s \in Specs, NEW other \in Specs
  PROVE  Map(Fields(Compared(s, other))) \in Tree
<1>1. Map(s) \in Tree /\ Map(s).map = s /\ IsMap(Map(s)) /\ Map(s) # Nil /\ Map(<< >>) \in Tree
  BY SpecsAssumption, TreeAssumption DEF Map, IsMap, Nil
<1>2. CASE "forProvider" \in DOMAIN s
  <2>1. s["forProvider"] \in Tree /\ IsMap(s["forProvider"])
    BY <1>1, <1>2, SpecsAssumption, FieldsAreInside
  <2>2. Compared(s, other) = s["forProvider"]
    BY <1>2 DEF Compared, Get
  <2>3. QED
    BY <2>1, <2>2, Kinds DEF Fields
<1>3. CASE "forProvider" \notin DOMAIN s
  BY <1>1, <1>3 DEF Compared, Get, Fields
<1>4. QED
  BY <1>2, <1>3

(* The specs compared are always among the specs.                          *)
SpecsInv == base \in Specs /\ target \in Specs

LEMMA SpecsStay == Spec => []SpecsInv
<1>1. Init => SpecsInv
  BY DEF Init, SpecsInv
<1>2. SpecsInv /\ [Next]_vars => SpecsInv'
  BY DEF SpecsInv, Next, Edit, ApplyEdit, vars
<1>3. QED
  BY <1>1, <1>2, PTL DEF Spec

(* The changes of a resource are the differences of what is compared.      *)
LEMMA ChangesAreDifferences ==
  ASSUME SpecsInv
  PROVE  Before \in Tree /\ After \in Tree /\ Changes = differences[Before][After]
<1>1. Before \in Tree /\ After \in Tree
  BY ComparedIsInTree DEF SpecsInv, Before, After
<1>2. IsMap(Before) /\ IsMap(After)
  BY DEF Before, After, IsMap, Map
<1>3. /\ Before.map = Fields(Compared(base, target))
      /\ After.map = Fields(Compared(target, base))
  BY DEF Before, After, Map
<1>4. Changes = diffMaps(Before.map, After.map, differences)
  BY <1>3 DEF Changes, computeFieldChanges
<1>5. diffValues(Before, After, differences) = diffMaps(Before.map, After.map, differences)
  BY <1>1, <1>2, Kinds DEF diffValues
<1>6. QED
  BY <1>1, <1>4, <1>5, DifferencesUnfold

(* However the resource is edited, whatever is in it and however deep: a   *)
(* resource as it is wanted has no changes, and one with no changes is as  *)
(* it is wanted but for what its arrays of primitives print: no field, no  *)
(* element and no array of maps is passed over in silence (computeField-   *)
(* Changes, diff.go:184-306).                                              *)
THEOREM NoDifferenceIsPassedOver == Spec => []NothingPassedOver
<1>1. SpecsInv => NothingPassedOver
  <2> SUFFICES ASSUME SpecsInv PROVE NothingPassedOver
    OBVIOUS
  <2>1. base = target => Before = After
    BY DEF Before, After
  <2>2. QED
    BY <2>1, ChangesAreDifferences, SameHasNone, NoneMeansAlike DEF NothingPassedOver
<1>2. QED
  BY <1>1, SpecsStay, PTL

(* However the resource is edited and however deep it is: where the match  *)
(* keys tell the elements apart, the changes of the plan, made to what the *)
(* resource is, give what it is to be - none is lost, misplaced or made up *)
(* on the way through maps, arrays of primitives and keyed arrays of maps  *)
(* (computeFieldChanges, diff.go:184-479).                                 *)
THEOREM ChangesMakeTheTarget == Spec => []ChangesLeadToTarget
<1>1. SpecsInv => ChangesLeadToTarget
  BY ChangesAreDifferences, DifferencesMakeBoth DEF ChangesLeadToTarget, Distinguished, Both
<1>2. QED
  BY <1>1, SpecsStay, PTL

(* And what the plan says was there was there: the same changes undone on  *)
(* the wanted resource give the present one back (diff.go:184-479).        *)
THEOREM ChangesUndoneGiveTheBase == Spec => []ChangesUndoToBase
<1>1. SpecsInv => ChangesUndoToBase
  BY ChangesAreDifferences, DifferencesMakeBoth DEF ChangesUndoToBase, Distinguished, Both
<1>2. QED
  BY <1>1, SpecsStay, PTL
=============================================================================
