----------------------------- MODULE ResourceWalk -----------------------------
(***************************************************************************)
(* pkg/operator/compose.go: the two walks from a claim or composite down   *)
(* the resourceRefs of the live objects.  ResolveAllManagedResources       *)
(* collects the managed resources at the leaves (collectManagedResources); *)
(* buildResourceTree, of ResolveComposedChanges, draws the tree.           *)
(*                                                                         *)
(* Both look up one object at a time, and the lock on the cache's map is   *)
(* held for each lookup only: the map may change between any two of them.  *)
(* The recursion is an explicit stack.  References may form a cycle; only  *)
(* the depth limit ends the walk then.                                     *)
(***************************************************************************)
EXTENDS ClusterMirror, Sequences, SequencesExt

CONSTANTS
  Claim,          \* objects with a spec.resourceRef
  Provider,       \* objects of the *.upbound.io and *.crossplane.io types
  ManagedGroup,   \* those of a group that isManagedResourceGroup accepts
  ClusterScoped,  \* objects without a namespace
  Refs,           \* Refs[o][k]: what content k of o refers to, in order
  CollectDepth,   \* the deepest recursion of collectManagedResources
  TreeDepth       \* the deepest recursion of buildResourceTree

Revision == 1 .. MaxRev

ASSUME ObjectAssumption ==
  /\ Claim \subseteq Object /\ Provider \subseteq Object /\ ManagedGroup \subseteq Provider
  /\ ClusterScoped \subseteq Object
  /\ \A o \in Object : DOMAIN Refs[o] = Revision
  /\ \A o \in Object, k \in Revision : Refs[o][k] \in Seq(Object)
  /\ \A o \in Claim, k \in Revision : Len(Refs[o][k]) <= 1
ASSUME DepthAssumption == CollectDepth \in Nat /\ TreeDepth \in Nat

VARIABLES
  pc,        \* the next lookup
  mode,      \* which of the two walks runs
  proposed,  \* the object it was asked about
  owned,     \* what that object's resourceRef names
  stack,     \* the active calls: the path to an object, the references left
  found,     \* the paths in the answer, with the content last read at each
  touched    \* history: objects whose cache entry changed during the walk

walkVars == <<pc, mode, proposed, owned, stack, found>>
vars == <<mirrorVars, walkVars, touched>>

Call(path) == [path |-> path, entered |-> FALSE, left |-> << >>]

Top == Last(stack)
Caller == Front(stack)
Depth(call) == Len(call.path) - 1

-----------------------------------------------------------------------------

Init ==
  /\ MirrorInit
  /\ pc = "idle" /\ mode = "collect" /\ stack = << >> /\ found = {} /\ touched = {}
  /\ proposed \in Object \ ManagedGroup /\ owned = proposed

(* findLiveResource of a reference, which never gives a namespace: what    *)
(* has one is not found.                                                   *)
LiveRef(o) == o \in ClusterScoped /\ cache[o] # 0

StartWalk(root) == pc' = "walk" /\ stack' = << Call(<<root>>) >>

Begin ==
  /\ pc = "idle"
  /\ mode' \in {"collect", "tree"} /\ proposed' \in Object \ ManagedGroup
  /\ pc' = "claim" /\ owned' = proposed'
  /\ UNCHANGED <<mirrorVars, stack, found, touched>>

(* findOwnedXR, first lookup: the live claim and its reference.            *)
FindClaim ==
  /\ pc = "claim"
  /\ IF /\ proposed \in Claim /\ cache[proposed] # 0
        /\ Refs[proposed][cache[proposed]] # << >>
       THEN /\ owned' = Head(Refs[proposed][cache[proposed]])
            /\ pc' = "xr" /\ UNCHANGED stack
       ELSE StartWalk(proposed) /\ UNCHANGED owned
  /\ UNCHANGED <<mirrorVars, mode, proposed, found, touched>>

(* Second lookup: the composite it names; without it the walk starts at    *)
(* the proposed object.                                                    *)
FindOwnedXR ==
  /\ pc = "xr"
  /\ StartWalk(IF LiveRef(owned) THEN owned ELSE proposed)
  /\ UNCHANGED <<mirrorVars, mode, proposed, owned, found, touched>>

(* Mutant: the limit guards the tree only.                                 *)
TooDeepInTrees(call) == mode = "tree" /\ Depth(call) > TreeDepth

TooDeep(call) == Depth(call) > IF mode = "collect" THEN CollectDepth ELSE TreeDepth

(* The call's own lookup of the object: its references, unless it is gone  *)
(* or the recursion is too deep.  A claim's spec has no resourceRefs.      *)
Enter ==
  /\ pc = "walk" /\ stack # << >> /\ ~Top.entered
  /\ LET o == Last(Top.path) IN
     IF TooDeep(Top) \/ cache[o] = 0
       THEN stack' = Caller
       ELSE stack' = Append(Caller,
              [Top EXCEPT !.entered = TRUE,
                          !.left = IF o \in Claim THEN << >> ELSE Refs[o][cache[o]]])
  /\ UNCHANGED <<mirrorVars, pc, mode, proposed, owned, found, touched>>

(* Without a composition for the root, ResolveComposedChanges returns      *)
(* before it draws anything.                                               *)
NoComposition ==
  /\ pc = "walk" /\ mode = "tree" /\ Len(stack) = 1 /\ ~Top.entered
  /\ stack' = << >>
  /\ UNCHANGED <<mirrorVars, pc, mode, proposed, owned, found, touched>>

(* Mutant: a reference that is not live ends the call.                     *)
ReturnOnMissing(call, child) == Caller

(* Mutant: the missing child is collected as well.                         *)
CollectAnything(child) == child \in ManagedGroup

SkipMissing(call, child) == Append(Caller, call)

Collected(child) == LiveRef(child) /\ child \in ManagedGroup

(* One reference: collectManagedResources skips it when it is not live,    *)
(* copies it when it is a managed resource and recurses otherwise;         *)
(* buildResourceTree draws it in any case and recurses when it is live.    *)
NextRef ==
  /\ pc = "walk" /\ stack # << >> /\ Top.entered /\ Top.left # << >>
  /\ LET child == Head(Top.left)
         path == Append(Top.path, child)
         rest == [Top EXCEPT !.left = Tail(@)]
     IN /\ found' = IF mode = "tree" \/ Collected(child)
                      THEN found \cup {<<path, IF LiveRef(child) THEN cache[child] ELSE 0>>}
                      ELSE found
        /\ stack' =
             CASE ~LiveRef(child) -> SkipMissing(rest, child)
               [] mode = "collect" /\ child \in ManagedGroup -> Append(Caller, rest)
               [] OTHER -> Append(Append(Caller, rest), Call(path))
  /\ UNCHANGED <<mirrorVars, pc, mode, proposed, owned, touched>>

ReturnCall ==
  /\ pc = "walk" /\ stack # << >> /\ Top.entered /\ Top.left = << >>
  /\ stack' = Caller
  /\ UNCHANGED <<mirrorVars, pc, mode, proposed, owned, found, touched>>

Answer ==
  /\ pc = "walk" /\ stack = << >>
  /\ pc' = "done"
  /\ UNCHANGED <<mirrorVars, mode, proposed, owned, stack, found, touched>>

Reset ==
  /\ pc = "done"
  /\ pc' = "idle" /\ found' = {} /\ touched' = {}
  /\ UNCHANGED <<mirrorVars, mode, proposed, owned, stack>>

Mirror ==
  /\ MirrorNext
  /\ touched' = IF pc = "idle" THEN {}
                ELSE touched \cup {o \in Object : cache'[o] # cache[o]}
  /\ UNCHANGED walkVars

Next == \/ Begin \/ FindClaim \/ FindOwnedXR \/ Enter \/ NoComposition
        \/ NextRef \/ ReturnCall \/ Answer \/ Reset \/ Mirror

Spec == Init /\ [][Next]_vars

-----------------------------------------------------------------------------
(* Properties.                                                             *)

Limit == IF mode = "collect" THEN CollectDepth ELSE TreeDepth

(* The shape of the walk's state; what is collected has a content.         *)
TypeOK ==
  /\ pc \in {"idle", "claim", "xr", "walk", "done"} /\ mode \in {"collect", "tree"}
  /\ proposed \in Object /\ owned \in Object
  /\ \A i \in 1 .. Len(stack) :
       /\ stack[i].path \in Seq(Object) /\ Len(stack[i].path) >= 1
       /\ stack[i].entered \in BOOLEAN /\ stack[i].left \in Seq(Object)
  /\ \A f \in found :
       /\ f[1] \in Seq(Object)
       /\ f[2] \in IF mode = "collect" THEN Revision ELSE Revision \cup {0}

(* The recursion is bounded whatever the objects refer to, also when they  *)
(* refer to each other in a circle and change during the walk: every call  *)
(* is one level below its caller, and the deepest one is cut off.          *)
WalkIsBounded ==
  /\ Len(stack) <= Limit + 2
  /\ \A i \in 1 .. Len(stack) : Depth(stack[i]) = i - 1
  /\ \A f \in found : Len(f[1]) <= Limit + 2

(* Nothing in an answer is made up: each step of a path is a reference     *)
(* that the object before it really had, and a collected resource has a    *)
(* content it really had, although the two were read at different times.   *)
NothingInvented ==
  \A f \in found :
    /\ \A i \in 1 .. Len(f[1]) - 1 :
         \E k \in (1 .. rev[f[1][i]]) \ gone[f[1][i]] :
           \E j \in 1 .. Len(Refs[f[1][i]][k]) : Refs[f[1][i]][k][j] = f[1][i + 1]
    /\ mode = "collect" =>
         LET o == Last(f[1])
         IN o \in ManagedGroup /\ f[2] \in (1 .. rev[o]) \ gone[o]

(* The composites n references below the root, along objects that were in  *)
(* the map, unchanged, all through the walk.                               *)
Stable(o) == o \notin touched /\ cache[o] # 0
StableRefs(o) == IF o \in Claim THEN {} ELSE {c \in ToSet(Refs[o][cache[o]]) : Stable(c)}
Composites(root) ==
  LET level[n \in 0 .. CollectDepth] ==
        IF n = 0 THEN {o \in {root} : Stable(o)}
        ELSE (UNION {StableRefs(o) \ ManagedGroup : o \in level[n - 1]}) \cap ClusterScoped
  IN UNION {level[n] : n \in 0 .. CollectDepth}

(* Where the walk starts when nothing it depends on changes.               *)
Root ==
  IF proposed \in Claim /\ cache[proposed] # 0 /\ Refs[proposed][cache[proposed]] # << >>
     /\ LiveRef(owned)
    THEN owned ELSE proposed

(* Updates of one part of the map do not cost the answer another part: a   *)
(* managed resource that hangs on the root by an unchanged chain within    *)
(* the depth limit is collected, whatever else appears, changes or goes    *)
(* during the walk.                                                        *)
StableChainsAreCollected ==
  pc = "done" /\ mode = "collect" /\ {proposed, owned} \cap touched = {} =>
    \A o \in Composites(Root) : \A r \in StableRefs(o) \cap ManagedGroup \cap ClusterScoped :
      \E f \in found : Last(f[1]) = r

(* "collects all leaf managed resources" of all the upbound.io and         *)
(* crossplane.io types (compose.go:446-447): the same for every provider.  *)
AllLeavesAreCollected ==
  pc = "done" /\ mode = "collect" /\ {proposed, owned} \cap touched = {} =>
    \A o \in Composites(Root) : \A r \in StableRefs(o) \cap Provider \cap ClusterScoped :
      \E f \in found : Last(f[1]) = r
=============================================================================
