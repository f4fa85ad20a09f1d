------------------------------- MODULE Rendering -------------------------------
(***************************************************************************)
(* What a plan and a drift request compute from two sets of manifests, as  *)
(* operators on snapshots: composites are rendered through compositions    *)
(* (pkg/renderer/renderer.go), a plan's live side is scoped to the         *)
(* proposal (pkg/operator/plan.go), and the rendered sets are compared     *)
(* resource by resource (pkg/diff/diff.go: Compute).                       *)
(*                                                                         *)
(* The live side comes from the cache, which is the abstract mirror of     *)
(* ClusterMirror: StateCacheProofs proves that pkg/operator/cache.go       *)
(* implements it.  An object's content is a number, the revision that has  *)
(* it; it stands for what the renderer reads and the diff compares.        *)
(***************************************************************************)
EXTENDS ClusterMirror

CONSTANTS
  Managed, Composite, Composition,  \* what classify makes of the objects
  Claim,        \* the composites that are claims
  Key,          \* what ResourceKey tells apart: the objects, and more
  Named,        \* Named[x][k]: what content k of x has as compositionRef
  Typed,        \* Typed[x]: the compositions for the type of x
  Parts,        \* Parts[c][k][x][n]: the keys of the resources that content k
                \* of c makes of content n of x
  Broken,       \* <<c, k>>: content k of c has no resources to render
  Proposals     \* the sets of manifests a request may carry

Content1 == 1 .. MaxRev
SetOf(objs) == UNION {[s -> Content1] : s \in SUBSET objs}

ASSUME ObjectAssumption ==
  /\ Object = Managed \cup Composite \cup Composition
  /\ Claim \subseteq Composite /\ Object \subseteq Key
ASSUME CompositionAssumption ==
  /\ Named \in [Composite -> [Content1 -> SUBSET Composition]]
  /\ Typed \in [Composite -> SUBSET Composition]
  /\ Parts \in [Composition -> [Content1 -> [Composite -> [Content1 -> SUBSET Key]]]]
  /\ Broken \subseteq Composition \X Content1
ASSUME ProposalAssumption == Proposals \subseteq SetOf(Object)

Empty == [o \in {} |-> 0]

-----------------------------------------------------------------------------
(* Snapshots.                                                              *)

(* cache.GetResourceSet: a copy of the map, taken under its read lock.     *)
GetResourceSet == [o \in {p \in Object : cache[p] # 0} |-> cache[o]]

(* Mutant: nothing is scoped away.                                         *)
ScopeNothing(live, proposed) == live

(* Mutant: the proposed objects that are live, with the proposed contents. *)
ScopeTheProposal(live, proposed) == [o \in DOMAIN live \cap DOMAIN proposed |-> proposed[o]]

(* Mutant: the live compositions are not kept.                             *)
ScopeWithoutCompositions(live, proposed) ==
  [o \in (DOMAIN live \cap DOMAIN proposed) \ Composition |-> live[o]]

scopeToProposed(live, proposed) == [o \in DOMAIN live \cap DOMAIN proposed |-> live[o]]

(* The live side of a request: a plan's is scoped, a drift request's not.  *)
LiveSide(kind, proposed) ==
  IF kind = "plan" THEN scopeToProposed(GetResourceSet, proposed) ELSE GetResourceSet

-----------------------------------------------------------------------------
(* Rendering.                                                              *)

CompositesIn(s) == Composite \cap DOMAIN s
CompositionsIn(s) == Composition \cap DOMAIN s

(* The orders that the objects of a snapshot can be listed in, as the set  *)
(* of pairs of which one comes before the other: that of the live side is  *)
(* the order of a Go map.                                                  *)
Orders(objs) ==
  {before \in SUBSET {p \in objs \X objs : p[1] # p[2]} :
     /\ \A a, b \in objs : a # b => (<<a, b>> \in before <=> <<b, a>> \notin before)
     /\ \A a, b, c \in objs :
          <<a, b>> \in before /\ <<b, c>> \in before => <<a, c>> \in before}

(* findComposition: the composition that x names, or else one of its type; *)
(* of several, the first in the list.                                      *)
findComposition(s, x) ==
  LET named == Named[x][s[x]] \cap DOMAIN s
  IN IF named # {} THEN named ELSE Typed[x] \cap DOMAIN s

Resolved(s) == {x \in CompositesIn(s) : findComposition(s, x) # {}}

Choices(s) ==
  {f \in [Resolved(s) -> Composition] :
     /\ \A x \in Resolved(s) : f[x] \in findComposition(s, x)
     /\ \E before \in Orders(CompositionsIn(s)) :
          \A x \in Resolved(s) : \A c \in findComposition(s, x) \ {f[x]} : <<f[x], c>> \in before}

(* One composition that has nothing to render fails the whole request.     *)
RenderFails(s, comp) == \E x \in Resolved(s) : <<comp[x], s[comp[x]]>> \in Broken

(* The keys that a composite adds to the rendered list: in either mode,    *)
(* those its composition makes, whose names are those of the bases, or     *)
(* made up from the composite's, or patched, so that two composites may    *)
(* make the same; its own without a composition.                           *)
Gives(s, comp, x) == IF x \in Resolved(s) THEN Parts[comp[x]][s[comp[x]]][x][s[x]] ELSE {x}

Givers(s, comp, k) == {x \in CompositesIn(s) : k \in Gives(s, comp, x)}
Made(s, comp) == UNION {Gives(s, comp, x) : x \in CompositesIn(s)}

(* indexByKey keeps the last resource of a key: claims are rendered after  *)
(* the other composites, and each in the order of its list.                *)
Lasts(s, comp) ==
  {last \in [Made(s, comp) -> CompositesIn(s)] :
     \E before \in Orders(CompositesIn(s)) :
       /\ \A x \in CompositesIn(s) \ Claim, y \in CompositesIn(s) \cap Claim : <<x, y>> \in before
       /\ \A k \in Made(s, comp) :
            /\ last[k] \in Givers(s, comp, k)
            /\ \A y \in Givers(s, comp, k) \ {last[k]} : <<y, last[k]>> \in before}

(* The contents that a composite's resources are made from.                *)
Sources(s, comp, x) ==
  {<<x, s[x]>>} \cup IF x \in Resolved(s) THEN {<<comp[x], s[comp[x]]>>} ELSE {}

(* The rendered set by its keys: managed resources as they are, unless a   *)
(* composite, rendered after them, makes one with the same key, and what   *)
(* becomes of the composites; compositions and everything else do not      *)
(* appear.                                                                 *)
Render(s, comp, last) ==
  [k \in (DOMAIN s \cap Managed) \cup Made(s, comp) |->
     IF k \in Made(s, comp) THEN Sources(s, comp, last[k]) ELSE {<<k, s[k]>>}]

Renderings(s, comp) == {Render(s, comp, last) : last \in Lasts(s, comp)}

-----------------------------------------------------------------------------
(* Comparison.                                                             *)

(* Mutant: an update without field changes is reported too.                *)
DiffOfEveryKey(b, t, k) ==
  CASE k \notin DOMAIN b -> {"create"}
    [] k \notin DOMAIN t -> {"delete"}
    [] OTHER -> IF b[k] # t[k] THEN {"update"} ELSE {"noop"}

DiffOf(b, t, k) ==
  CASE k \notin DOMAIN b -> {"create"}
    [] k \notin DOMAIN t -> {"delete"}
    [] OTHER -> IF b[k] # t[k] THEN {"update"} ELSE {}
=============================================================================
