------------------------------- MODULE LivePlan -------------------------------
(***************************************************************************)
(* pkg/operator/plan.go, drift.go: how the operator answers a plan or a    *)
(* drift request.  A request takes one snapshot of the state cache, renders *)
(* the live and the proposed side (Rendering), and compares the two        *)
(* rendered sets resource by resource, while other requests run and the    *)
(* cache moves on.  It implements AtomicPlan.                              *)
(*                                                                         *)
(* Every resource is taken to have a field that isSensitiveField           *)
(* recognises.                                                             *)
(***************************************************************************)
EXTENDS Rendering

CONSTANT Request

VARIABLES req,            \* what each request in progress holds
          showSensitive   \* the package variable diff.ShowSensitive

vars == <<mirrorVars, req, showSensitive>>

-----------------------------------------------------------------------------
(* A request.                                                              *)

Idle == [pc |-> "idle", kind |-> "plan", show |-> FALSE, proposed |-> Empty,
         base |-> Empty, target |-> Empty, todo |-> {}, diffs |-> {}]

Init ==
  /\ MirrorInit
  /\ req = [r \in Request |-> Idle]
  /\ showSensitive = FALSE

(* GetDrift has no showSensitive parameter.                                *)
Arrive(r) ==
  /\ req[r].pc = "idle"
  /\ \E kind \in {"plan", "drift"}, show \in BOOLEAN, proposed \in Proposals :
       /\ kind = "drift" => ~show
       /\ req' = [req EXCEPT ![r].pc = "arrived", ![r].kind = kind,
                             ![r].show = show, ![r].proposed = proposed]
  /\ UNCHANGED <<mirrorVars, showSensitive>>

(* From the snapshot to the two rendered sets; a plan then sets the        *)
(* package variable before it compares, a drift request never does.  (The  *)
(* advice that validate and detectDrift add to a plan is left out.)        *)
RenderBoth(r) ==
  LET proposed == req[r].proposed
      live == LiveSide(req[r].kind, proposed) IN
  \E comp \in Choices(proposed), liveComp \in Choices(live) :
    IF RenderFails(proposed, comp) \/ RenderFails(live, liveComp)
      THEN req' = [req EXCEPT ![r].pc = "failed"]
      ELSE \E base \in Renderings(live, liveComp), target \in Renderings(proposed, comp) :
             req' = [req EXCEPT
               ![r].pc = IF req[r].kind = "plan" THEN "rendered" ELSE "diffing",
               ![r].base = base, ![r].target = target,
               ![r].todo = DOMAIN base \cup DOMAIN target]

ComputeLivePlan(r) ==
  /\ req[r].pc = "arrived" /\ req[r].kind = "plan"
  /\ RenderBoth(r)
  /\ UNCHANGED <<mirrorVars, showSensitive>>

ComputeDrift(r) ==
  /\ req[r].pc = "arrived" /\ req[r].kind = "drift"
  /\ RenderBoth(r)
  /\ UNCHANGED <<mirrorVars, showSensitive>>

SetShowSensitive(r) ==
  /\ req[r].pc = "rendered"
  /\ showSensitive' = req[r].show
  /\ req' = [req EXCEPT ![r].pc = "diffing"]
  /\ UNCHANGED mirrorVars

(* maskFieldChange returns the values as they are.                         *)
Unmasked == showSensitive

(* Mutant: deletes are not looked for.                                     *)
ComputeTargetOnly(r) ==
  /\ req[r].pc = "diffing"
  /\ \E k \in req[r].todo :
       req' = [req EXCEPT ![r].todo = @ \ {k},
                ![r].diffs = @ \cup
                  {[key |-> k, action |-> a, plain |-> Unmasked]
                     : a \in DiffOf(req[r].base, req[r].target, k) \ {"delete"}}]
  /\ UNCHANGED <<mirrorVars, showSensitive>>

(* diff.Compute ranges over the target's map first, in any order, and then *)
(* looks for deletes; maskFieldChange reads the package variable each time.*)
Compute(r) ==
  /\ req[r].pc = "diffing"
  /\ \E k \in req[r].todo :
       /\ k \in DOMAIN req[r].target \/ req[r].todo \cap DOMAIN req[r].target = {}
       /\ req' = [req EXCEPT ![r].todo = @ \ {k},
                    ![r].diffs = @ \cup
                      {[key |-> k, action |-> a, plain |-> Unmasked]
                         : a \in DiffOf(req[r].base, req[r].target, k)}]
  /\ UNCHANGED <<mirrorVars, showSensitive>>

Respond(r) ==
  /\ req[r].pc = "diffing" /\ req[r].todo = {}
  /\ req' = [req EXCEPT ![r].pc = "done"]
  /\ UNCHANGED <<mirrorVars, showSensitive>>

(* The response, or the error, is sent; the handler is gone.               *)
Return(r) ==
  /\ req[r].pc \in {"done", "failed"}
  /\ req' = [req EXCEPT ![r] = Idle]
  /\ UNCHANGED <<mirrorVars, showSensitive>>

Handler(r) ==
  \/ Arrive(r) \/ ComputeLivePlan(r) \/ ComputeDrift(r) \/ SetShowSensitive(r)
  \/ Compute(r) \/ Respond(r) \/ Return(r)

Mirror == MirrorNext /\ UNCHANGED <<req, showSensitive>>

Next == Mirror \/ \E r \in Request : Handler(r)

Spec == Init /\ [][Next]_vars

-----------------------------------------------------------------------------
(* Properties.                                                             *)

Answered(r, kind) == req[r].pc = "done" /\ req[r].kind = kind

(* The shape of a request; a response reports changes and nothing else,    *)
(* each for a resource of one of the two rendered sets.                    *)
TypeOK ==
  /\ showSensitive \in BOOLEAN
  /\ \A r \in Request :
       /\ req[r].pc \in {"idle", "arrived", "rendered", "diffing", "done", "failed"}
       /\ req[r].kind \in {"plan", "drift"} /\ req[r].show \in BOOLEAN
       /\ req[r].proposed \in Proposals \cup {Empty}
       /\ req[r].todo \subseteq DOMAIN req[r].base \cup DOMAIN req[r].target
       /\ DOMAIN req[r].base \cup DOMAIN req[r].target \subseteq Key
       /\ \A d \in req[r].diffs :
            /\ d.key \in DOMAIN req[r].base \cup DOMAIN req[r].target
            /\ d.action \in {"create", "update", "delete"}

(* What a request is to AtomicPlan: its result is fixed by the snapshot,   *)
(* and seen when the last resource has been compared.                      *)
StateOf(pc) == CASE pc = "idle" -> "none"
                 [] pc = "arrived" -> "asked"
                 [] pc \in {"rendered", "diffing"} -> "evaluated"
                 [] pc = "done" -> "answered"
                 [] pc = "failed" -> "failed"

Shown(diffs) == {[key |-> d.key, action |-> d.action] : d \in diffs}

DifferenceOver(keys, q) ==
  UNION {{[key |-> k, action |-> a] : a \in DiffOf(q.base, q.target, k)} : k \in keys}

CallOf(q) ==
  [state |-> StateOf(q.pc), kind |-> q.kind, proposed |-> q.proposed,
   result |-> DifferenceOver(DOMAIN q.base \cup DOMAIN q.target, q),
   response |-> IF q.pc = "done" THEN Shown(q.diffs) ELSE {}]

Atomic == INSTANCE AtomicPlan WITH call <- [r \in Request |-> CallOf(req[r])]

(* A request is answered as if both sides had been read, rendered and      *)
(* compared at one moment, although Compute runs resource by resource      *)
(* while informers write the cache and other requests run: nothing of a    *)
(* later cache gets in and no difference is left out (plan.go:32,          *)
(* diff.go:110-182).                                                       *)
AnsweredAtOneMoment == Atomic!AtomicSpec

(* A live plan is only about what the request proposes: a resource it      *)
(* reports is a proposed object, or one that a proposed composition makes  *)
(* of a proposed composite, on the live side too (plan.go:20-24).          *)
PlanIsScoped ==
  \A r \in Request : Answered(r, "plan") =>
    \A d \in req[r].diffs :
      \/ d.key \in DOMAIN req[r].proposed
      \/ \E x \in CompositesIn(req[r].proposed), c \in CompositionsIn(req[r].proposed) :
           \E k, n \in Content1 : d.key \in Parts[c][k][x][n]

(* The live side of an answer never holds a content the cluster never had: *)
(* neither a proposed one, nor one of an object that was deleted then.     *)
LiveSideIsReal ==
  \A r \in Request : \A k \in DOMAIN req[r].base : \A source \in req[r].base[k] :
    source[2] \in (1 .. rev[source[1]]) \ gone[source[1]]

(* A proposed composite whose resources may have a key.                    *)
MayGive(p, x, k) ==
  IF x \in Resolved(p) THEN \E c \in findComposition(p, x) : k \in Parts[c][p[c]][x][p[x]]
  ELSE k = x

(* Two of them, of which neither is always rendered after the other, or    *)
(* one that has several compositions to be rendered with.                  *)
Ambiguous(p, k) ==
  \E x \in CompositesIn(p) :
    /\ MayGive(p, x, k)
    /\ \/ \E c, d \in findComposition(p, x) : c # d
       \/ \E y \in CompositesIn(p) \ {x} : MayGive(p, y, k) /\ (x \in Claim <=> y \in Claim)

(* Plan what is already there and only what the proposal leaves open is    *)
(* reported: when the mirror holds every proposed object as proposed at    *)
(* the snapshot, the sides differ in a resource only if two proposed       *)
(* composites make it, or one that has two compositions to choose from.    *)
(* Both sides must resolve composites in the same way for this.            *)
OnlyAmbiguityIsReported ==
  [][\A r \in Request :
       LET p == req[r].proposed
           differ(k) == DiffOf(req'[r].base, req'[r].target, k) # {}
       IN (/\ req[r].pc = "arrived" /\ req'[r].pc = "rendered"
           /\ \A o \in DOMAIN p : cache[o] = p[o])
            => \A k \in DOMAIN req'[r].base \cup DOMAIN req'[r].target :
                 differ(k) => Ambiguous(p, k)]_vars

(* A plan fails only over what it proposes: a composition that cannot be   *)
(* rendered, here or in the cluster, fails the plans that propose it and   *)
(* no other plan, although the live set holds every composition.           *)
PlanFailsInItsScope ==
  \A r \in Request : req[r].pc = "failed" /\ req[r].kind = "plan" =>
    \E b \in Broken : b[1] \in CompositionsIn(req[r].proposed)

(* Values are shown only to who asked for them: "automatically redacted in *)
(* all output" (README.md:396, 869) unless the request says showSensitive. *)
RedactedUnlessAsked ==
  \A r \in Request : \A d \in req[r].diffs : d.plain => req[r].show

(* What a request proposes is not reported as being deleted: an action is  *)
(* "what will happen to a resource" (diff.go:65), and the plan is scoped   *)
(* so that it shows no false deletes (plan.go:40-41,                       *)
(* TestComputeLivePlanScopedNoFalseDeletes, plan_test.go:119).             *)
NoFalseDeletes ==
  \A r \in Request : Answered(r, "plan") =>
    \A d \in req[r].diffs : d.action = "delete" => d.key \notin DOMAIN req[r].proposed

(* "Resources in the proposed set that are NOT in the cluster are shown as *)
(* additions" (plan.go:24-25): an object that was never created and is not *)
(* a composite is added by the plan.                                       *)
NewObjectsAreAdded ==
  \A r \in Request : Answered(r, "plan") =>
    \A o \in DOMAIN req[r].proposed \ Composite :
      rev[o] = 0 => \E d \in req[r].diffs : d.key = o /\ d.action = "create"
=============================================================================
