-------------------------------- MODULE MCDiff --------------------------------
(* A small instance of Diff for TLC: one field f that is a primitive, a    *)
(* map, an array of primitives or an array of maps.                        *)
EXTENDS DiffReference, TLC

i1 == Prim("int64", "1")
s1 == Prim("string", "1")
s2 == Prim("string", "2")
Prims == {i1, s1, s2}

Rule(key, id, v) == Map((key :> id) @@ ("v" :> v))
Elems == {Rule("name", s1, s1), Rule("name", s1, s2), Rule("name", s2, s1),
          Rule("id", s1, s1), Map("v" :> s1)}
Named == {e \in Elems : "name" \in DOMAIN e.map}

SeqsUpTo(S, n) == UNION {[1 .. k -> S] : k \in 0 .. n}

MC_Values ==
  Prims \cup {Map(<< >>), Map("a" :> i1), Map("a" :> s2), Map(("a" :> i1) @@ ("b" :> Map("c" :> s1)))}
        \cup {Array(s) : s \in SeqsUpTo(Prims, 3)}
        \cup {Array(s) : s \in SeqsUpTo(Elems, 2)}
        \cup {Array(s) : s \in [1 .. 3 -> Named]}
        \cup {Array(<<Rule("name", s1, s1), Rule("name", s2, s2), Rule("id", s1, s2)>>)}

MC_Specs ==
  {"forProvider" :> Map("f" :> v) : v \in MC_Values} \cup
  {("forProvider" :> Map(("f" :> i1) @@ ("g" :> s1))) @@ ("deletionPolicy" :> s1),
   "deletionPolicy" :> s1, "deletionPolicy" :> s2}

(* What is in the specs, by how deep it is nested at most.                 *)
MC_Inner ==
  Elems \cup {Map("c" :> s1), Rule("name", s2, s2), Rule("id", s1, s2)}
MC_ForProvider == {s["forProvider"] : s \in {t \in MC_Specs : "forProvider" \in DOMAIN t}}
MC_Tree ==
  Prims \cup MC_Inner \cup MC_Values \cup MC_ForProvider \cup {Map(s) : s \in MC_Specs}
MC_Height ==
  [v \in MC_Tree |->
     CASE v \in Prims -> 0 [] v \in MC_Inner -> 1 [] v \in MC_Values -> 2
       [] v \in MC_ForProvider -> 3 [] OTHER -> 4]
=============================================================================
