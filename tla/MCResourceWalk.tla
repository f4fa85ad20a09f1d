---------------------------- MODULE MCResourceWalk ----------------------------
(* Small instances of ResourceWalk and ComposedChanges for TLC: a claim k, *)
(* two composites that can refer to each other, one of them a namesake of  *)
(* the claim, and one managed resource; and one composite with a managed   *)
(* resource n of another provider, say Object of kubernetes.crossplane.io. *)
EXTENDS ComposedChanges, TLC

CONSTANTS k, x, y, m, n

MC_Refs ==
  (k :> << <<x>>, << >> >>) @@ (x :> << <<y, m>>, <<m>> >>) @@
  (y :> << <<x>>, <<m>> >>) @@ (m :> << << >>, << >> >>)

MC_LeafRefs == (x :> << <<n>> >>) @@ (n :> << << >> >>)

(* The two composites are of one kind, and the plan changes fields of      *)
(* each; the claim and the managed resource, a Bucket each, are told apart *)
(* by the group only, of which one begins with the other.  One template    *)
(* has the name of a composite.                                            *)
Update(path) == [path |-> path, action |-> "update"]
MC_KindOf == (k :> "Bucket") @@ (x :> "XBucket") @@ (y :> "XBucket") @@ (m :> "Bucket")
MC_NameOf == (k :> "b") @@ (x :> "x") @@ (y :> "y") @@ (m :> "b")
MC_ApiOf == (k :> "app/v1") @@ (x :> "app/v1") @@ (y :> "app/v1") @@ (m :> "app.cloud/v1")
MC_Begins == (k :> {"app"}) @@ (x :> {"app"}) @@ (y :> {"app"}) @@ (m :> {"app", "app.cloud"})
MC_Nested == [name |-> "y", kind |-> "XBucket", api |-> "app/v1", group |-> "app",
              patches |-> << [from |-> <<"spec", "a">>, to |-> <<"spec", "b">>] >>]
MC_Leaf == [name |-> "leaf", kind |-> "Bucket", api |-> "app.cloud/v1", group |-> "app.cloud",
            patches |-> << [from |-> <<"spec", "b">>, to |-> <<"spec", "c">>] >>]
MC_Compositions == { <<MC_Nested, MC_Leaf>> }
MC_Plans ==
  { (k :> { Update(<<"spec", "a">>) }) @@
    (x :> { Update(<<"spec", "a", "z">>), [path |-> <<"spec", "b">>, action |-> "add"] }) @@
    (y :> { Update(<<"spec", "b">>) }) @@ (m :> { Update(<<"spec", "b">>) }) }
MC_LeafTypes == (x :> "x") @@ (n :> "n")
MC_LeafBegins == (x :> {"x"}) @@ (n :> {"n"})
=============================================================================
