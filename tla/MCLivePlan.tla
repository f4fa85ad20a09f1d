------------------------------ MODULE MCLivePlan ------------------------------
(* Small instances of LivePlan for TLC: a managed resource, a composite    *)
(* with two possible compositions, another one and a claim with one, all   *)
(* with a resource in common.                                              *)
EXTENDS LivePlan, TLC

Sets == INSTANCE FiniteSetsExt

CONSTANTS m, x, y, z, c, d

MC_Object == {m, x, y, z, c, d}
MC_Typed == (x :> {c, d}) @@ (y :> {c}) @@ (z :> {c})
(* The second content of x names c.                                        *)
MC_Named == [o \in {x, y, z} |-> [k \in Content1 |-> IF o = x /\ k = 2 THEN {c} ELSE {}]]
(* c keeps the name of a base, s, and makes a resource of y that is also   *)
(* proposed by itself; its second content drops a resource of x.  d        *)
(* renders to nothing (a pipeline without inline resources).               *)
MC_Key == MC_Object \cup {"p", "q", "s"}
MC_Makes(o, k) ==
  {"s"} \cup (CASE o = x -> IF k = 1 THEN {"p", "q"} ELSE {"p"}
                [] o = y -> {m}
                [] o = z -> {})
MC_Parts ==
  (c :> [k \in Content1 |-> [o \in {x, y, z} |-> [n \in Content1 |-> MC_Makes(o, k)]]]) @@
  (d :> [k \in Content1 |-> [o \in {x, y, z} |-> [n \in Content1 |-> {}]]])
MC_Broken == {<<d, 2>>}

MC_Proposals ==
  { (x :> 1) @@ (c :> 1), (x :> 2) @@ (c :> 2) @@ (m :> 1), (x :> 1) @@ (d :> 2),
    (x :> 1) @@ (c :> 1) @@ (d :> 1), (x :> 1) @@ (y :> 1) @@ (c :> 1),
    (x :> 1) @@ (z :> 1) @@ (c :> 1), (y :> 1) @@ (c :> 1) @@ (m :> 1) }

MC_FewProposals == { m :> 1, c :> 1, (x :> 1) @@ (c :> 1) }

(* How many writes the cluster sees; only one composite and the two        *)
(* compositions are updated or deleted.                                    *)
MaxWrites == 4
Rewritten == {x, c, d}
FewWrites ==
  /\ Sets!MapThenSumSet(LAMBDA o : rev[o], Object) <= MaxWrites
  /\ \A o \in Object \ Rewritten : rev[o] <= 1
=============================================================================
