----------------------------- MODULE DiffReference -----------------------------
(***************************************************************************)
(* What a set of changes means: what is made of a tree when the changes    *)
(* are made to it.  The changes that Diff finds should make the one tree   *)
(* of the other, and undone, the other of the one.                         *)
(***************************************************************************)
EXTENDS Diff

(* The changes there can be.                                               *)
Maps == {v \in Tree : IsMap(v)}

Steps ==
  {Field(key) : key \in UNION {DOMAIN v.map : v \in Maps}} \cup
  {Element(key, ElementKey(e, key)) : key \in ToSet(commonKeyFields), e \in Maps}

Worth == Tree \cup {Nil} \cup [elements : SUBSET Tree]

FieldChange ==
  [path : Seq(Steps), action : {"create", "delete", "update"},
   old : Worth, new : Worth, of : {"value", "elements"}]

Undo(c) ==
  [path |-> c.path,
   action |-> CASE c.action = "create" -> "delete"
                [] c.action = "delete" -> "create"
                [] OTHER -> "update",
   old |-> c.new, new |-> c.old, of |-> c.of]

Undone(changes) == {Undo(c) : c \in changes}

(* The changes of the value itself, and those behind a step into it.       *)
IsHere(c) == c.path = << >>

FirstSteps(changes) == {Head(c.path) : c \in changes}

Inside(changes, step) ==
  {[c EXCEPT !.path = Tail(@)] : c \in {d \in changes : ~IsHere(d) /\ Head(d.path) = step}}

-----------------------------------------------------------------------------
(* Making the changes of a value itself gives another value, or takes some *)
(* elements from an array of primitives and adds others.                   *)
MadeHere(v, changes, w) ==
  \/ /\ \A c \in changes : c.of = "value"
     /\ {c.new : c \in changes} = {w}
  \/ /\ \A c \in changes : c.of = "elements"
     /\ IsArray(v) /\ IsArray(w) /\ isArrayOfPrimitives(w.array)
     /\ LET kept == {e \in ToSet(v.array) : \A c \in changes : e \notin c.old.elements}
            added == UNION {c.new.elements : c \in changes}
        IN PrintsOf(w.array) = {Sprint(e) : e \in kept \cup added}

(* made[v][w]: the changes that make w of v, or Nil for nothing.           *)
MadeOfMap(f, changes, g, made) ==
  /\ FirstSteps(changes) \subseteq {Field(key) : key \in AllKeys(f, g)}
  /\ \A key \in AllKeys(f, g) :
       Inside(changes, Field(key)) \in made[Get(f, key)][Get(g, key)]

(* Elements are told by the key that the steps name; one that no change is *)
(* about stays, and their order is not looked at.                          *)
MadeOfArray(s, changes, t, made) ==
  \E key \in ToSet(commonKeyFields) :
    LET at(e) == Inside(changes, Element(key, ElementKey(e, key)))
        SameKey(e, f) == ElementKey(e, key) = ElementKey(f, key)
    IN /\ FirstSteps(changes) \subseteq
            {Element(key, ElementKey(e, key)) : e \in ToSet(s) \cup ToSet(t)}
       /\ \A e \in ToSet(s) :
            at(e) \in made[e][Nil] \/ \E f \in ToSet(t) : at(e) \in made[e][f]
       /\ \A f \in ToSet(t) :
            \/ \E e \in ToSet(s) : at(e) \in made[e][f]
            \/ (\A e \in ToSet(s) : ~SameKey(e, f)) /\ at(f) \in made[Nil][f]

Makes(v, changes, w, made) ==
  \/ changes = {} /\ (v = w \/ (v \in Tree /\ w \in Tree /\ alike[v][w]))
  \/ /\ changes # {} /\ \A c \in changes : IsHere(c)
     /\ MadeHere(v, changes, w)
  \/ /\ changes # {} /\ \A c \in changes : ~IsHere(c)
     /\ \/ IsMap(v) /\ IsMap(w) /\ MadeOfMap(v.map, changes, w.map, made)
        \/ /\ IsArray(v) /\ IsArray(w) /\ isArrayOfMaps(v.array) /\ isArrayOfMaps(w.array)
           /\ MadeOfArray(v.array, changes, w.array, made)

Places == Tree \cup {Nil}

made[v \in Places] ==
  [w \in Places |->
     {changes \in SUBSET FieldChange : Makes(v, changes, w, made)}]

-----------------------------------------------------------------------------
(* The match key tells the elements of every two arrays of maps apart that *)
(* are compared by it.                                                     *)
Identified(s, key) ==
  \A i, j \in 1 .. Len(s) : ElementKey(s[i], key) = ElementKey(s[j], key) => i = j

distinguished[v \in Tree] ==
  [w \in Tree |->
     /\ IsMap(v) /\ IsMap(w) =>
          \A key \in DOMAIN v.map \cap DOMAIN w.map : distinguished[v.map[key]][w.map[key]]
     /\ IsArray(v) /\ IsArray(w) /\ isArrayOfMaps(v.array) /\ isArrayOfMaps(w.array)
        /\ MatchKey(v.array, w.array) # "" =>
          LET key == MatchKey(v.array, w.array)
          IN /\ Identified(v.array, key) /\ Identified(w.array, key)
             /\ \A e \in ToSet(v.array), f \in ToSet(w.array) :
                  ElementKey(e, key) = ElementKey(f, key) => distinguished[e][f]]

Distinguished == distinguished[Before][After]

(* Make the changes of the plan and the resource is as it is wanted: no    *)
(* change is lost or misplaced on the way through maps, arrays of          *)
(* primitives and keyed arrays of maps, provided the key tells the         *)
(* elements apart (diff.go:184-479).                                       *)
ChangesLeadToTarget == Distinguished => Changes \in made[Before][After]

(* What the plan says of the old side is what was there: undo the changes  *)
(* on the wanted resource and the present one is back (diff.go:184-479).   *)
ChangesUndoToBase == Distinguished => Undone(Changes) \in made[After][Before]
=============================================================================
