---------------------------- MODULE LivePlanProofs ----------------------------
(***************************************************************************)
(* Theorems about LivePlan, for every set of objects, compositions and     *)
(* proposals and any number of concurrent requests.  The invariant says    *)
(* of each request what its two rendered sets are made of, and that what   *)
(* it has compared so far is the difference over the keys it has done.     *)
(***************************************************************************)
EXTENDS LivePlan, MirrorProofs

(* A set of manifests, or a snapshot: some objects, each with a content.   *)
Snapshot(s) ==
  /\ DOMAIN s \subseteq Object
  /\ \A o \in DOMAIN s : s[o] \in Content1

(* The keys a set of manifests can render to.                              *)
ScopeOf(s) ==
  DOMAIN s \cup {key \in Key : \E x \in CompositesIn(s), c \in CompositionsIn(s) :
                               \E k, n \in Content1 : key \in Parts[c][k][x][n]}

FieldNames == {"pc", "kind", "show", "proposed", "base", "target", "todo", "diffs"}

Keys(q) == DOMAIN q.base \cup DOMAIN q.target

NoSides(q) == q.base = Empty /\ q.target = Empty /\ q.todo = {}

Shape(q) ==
  /\ DOMAIN q = FieldNames
  /\ q.pc \in {"idle", "arrived", "rendered", "diffing", "done", "failed"}
  /\ q.kind \in {"plan", "drift"} /\ q.show \in BOOLEAN
  /\ q.pc = "idle" => q.kind = "plan" /\ q.proposed = Empty
  /\ q.pc # "idle" => q.proposed \in Proposals
  /\ q.pc \in {"idle", "arrived", "failed"} => NoSides(q)
  /\ q.pc \in {"idle", "arrived", "failed", "rendered"} => q.diffs = {}
  /\ q.pc = "rendered" => q.todo = Keys(q)
  /\ q.pc = "done" => q.todo = {}

(* What has been compared is the difference over the keys that are done.   *)
Compared(q) ==
  /\ q.todo \subseteq Keys(q)
  /\ Shown(q.diffs) = DifferenceOver(Keys(q) \ q.todo, q)

Scoped(q) ==
  /\ Keys(q) \subseteq Key
  /\ q.kind = "plan" => Keys(q) \subseteq ScopeOf(q.proposed)
  /\ \A d \in q.diffs : d.key \in Keys(q) /\ d.action \in {"create", "update", "delete"}

FailedInScope(q) ==
  q.pc = "failed" /\ q.kind = "plan" =>
    \E b \in Broken : b[1] \in CompositionsIn(q.proposed)

ReqInv ==
  /\ req = [r \in Request |-> req[r]]
  /\ \A r \in Request : /\ Shape(req[r]) /\ Compared(req[r]) /\ Scoped(req[r])
                        /\ FailedInScope(req[r])
  /\ showSensitive \in BOOLEAN

(* A live side made of contents the objects have had.                      *)
Real(base) ==
  \A k \in DOMAIN base : \A source \in base[k] :
    source[1] \in Object /\ source[2] \in Had(source[1])

IInv == MirrorInv /\ ReqInv /\ \A r \in Request : Real(req[r].base)

-----------------------------------------------------------------------------
(* Rendering.                                                              *)

(* Every proposal is a snapshot of contents.                               *)
LEMMA ProposalIsSnapshot ==
  ASSUME NEW s \in Proposals
  PROVE  Snapshot(s)
BY ProposalAssumption DEF SetOf, Snapshot

(* The cache's copy is a snapshot of contents the objects have had.        *)
LEMMA CopyIsReal ==
  ASSUME MirrorInv
  PROVE  /\ Snapshot(GetResourceSet)
         /\ \A o \in DOMAIN GetResourceSet : GetResourceSet[o] \in Had(o)
BY EntryIsReal DEF GetResourceSet, Snapshot, Content1

(* So is the live side of a request, and a plan's holds proposed objects   *)
(* only.                                                                   *)
LEMMA LiveSideOfRequest ==
  ASSUME MirrorInv, NEW kind, NEW s \in Proposals
  PROVE  /\ Snapshot(LiveSide(kind, s))
         /\ \A o \in DOMAIN LiveSide(kind, s) : LiveSide(kind, s)[o] \in Had(o)
         /\ kind = "plan" => DOMAIN LiveSide(kind, s) \subseteq DOMAIN s
BY CopyIsReal DEF LiveSide, scopeToProposed, Snapshot

(* A chosen composition is in the set of manifests itself.                 *)
LEMMA ChosenIsThere ==
  ASSUME NEW s, NEW comp \in Choices(s), NEW x \in Resolved(s)
  PROVE  comp[x] \in CompositionsIn(s)
BY DEF Choices, findComposition, CompositionsIn

(* What a composite gives is in the scope of the set.                      *)
LEMMA GivenIsInScope ==
  ASSUME NEW s, Snapshot(s), NEW comp \in Choices(s), NEW x \in CompositesIn(s)
  PROVE  Gives(s, comp, x) \subseteq ScopeOf(s)
<1>1. x \in DOMAIN s /\ x \in Composite /\ s[x] \in Content1
  BY DEF CompositesIn, Snapshot
<1>2. CASE x \in Resolved(s)
  <2>1. comp[x] \in CompositionsIn(s) /\ comp[x] \in Composition /\ s[comp[x]] \in Content1
    BY <1>2, ChosenIsThere DEF CompositionsIn, Snapshot
  <2>2. Parts[comp[x]][s[comp[x]]][x][s[x]] \subseteq Key
    <3>1. Parts[comp[x]] \in [Content1 -> [Composite -> [Content1 -> SUBSET Key]]]
      BY <2>1, CompositionAssumption
    <3>2. Parts[comp[x]][s[comp[x]]] \in [Composite -> [Content1 -> SUBSET Key]]
      BY <2>1, <3>1
    <3>3. Parts[comp[x]][s[comp[x]]][x] \in [Content1 -> SUBSET Key]
      BY <1>1, <3>2
    <3>4. QED
      BY <1>1, <3>3
  <2>3. QED
    BY <1>1, <1>2, <2>1, <2>2 DEF Gives, ScopeOf
<1>3. CASE x \notin Resolved(s)
  BY <1>1, <1>3 DEF Gives, ScopeOf
<1>4. QED
  BY <1>2, <1>3

(* The keys of a rendered set, and the contents it is made of.             *)
LEMMA RenderedKeys ==
  ASSUME NEW s, Snapshot(s), NEW comp \in Choices(s), NEW out \in Renderings(s, comp)
  PROVE  /\ DOMAIN out \subseteq ScopeOf(s)
         /\ \A k \in DOMAIN out : \A source \in out[k] :
              source[1] \in DOMAIN s /\ source[2] = s[source[1]]
<1>1. PICK last \in Lasts(s, comp) : out = Render(s, comp, last)
  BY DEF Renderings
<1>2. \A k \in Made(s, comp) : last[k] \in CompositesIn(s)
  BY DEF Lasts
<1>3. DOMAIN out = (DOMAIN s \cap Managed) \cup Made(s, comp)
  BY <1>1 DEF Render
<1>4. \A k \in DOMAIN out :
        out[k] = IF k \in Made(s, comp) THEN Sources(s, comp, last[k]) ELSE {<<k, s[k]>>}
  BY <1>1, <1>3 DEF Render
<1>5. DOMAIN out \subseteq ScopeOf(s)
  BY <1>3, GivenIsInScope DEF Made, ScopeOf
<1>6. ASSUME NEW x \in CompositesIn(s), NEW source \in Sources(s, comp, x)
      PROVE  source[1] \in DOMAIN s /\ source[2] = s[source[1]]
  BY ChosenIsThere DEF Sources, CompositesIn, CompositionsIn
<1>7. ASSUME NEW k \in DOMAIN out, NEW source \in out[k]
      PROVE  source[1] \in DOMAIN s /\ source[2] = s[source[1]]
  <2>1. CASE k \in Made(s, comp)
    BY <1>2, <1>4, <1>6, <2>1
  <2>2. CASE k \notin Made(s, comp)
    <3>1. k \in DOMAIN s /\ source \in {<<k, s[k]>>}
      BY <1>3, <1>4, <2>2
    <3>2. source = <<k, s[k]>>
      BY <3>1
    <3>3. source[1] = k /\ source[2] = s[k]
      BY <3>2
    <3>4. QED
      BY <3>1, <3>3
  <2>3. QED
    BY <2>1, <2>2
<1>8. QED
  BY <1>5, <1>7

(* The keys of a set of manifests are keys.                                *)
LEMMA ScopeIsKeys ==
  ASSUME NEW s, Snapshot(s)
  PROVE  ScopeOf(s) \subseteq Key
BY ObjectAssumption DEF ScopeOf, Snapshot

(* Rendering fails on a composition of the set itself.                     *)
LEMMA FailureIsInScope ==
  ASSUME NEW s, NEW comp \in Choices(s), RenderFails(s, comp)
  PROVE  \E b \in Broken : b[1] \in CompositionsIn(s)
BY ChosenIsThere DEF RenderFails

(* One key's comparison reports changes and nothing else.                  *)
LEMMA DiffReports ==
  ASSUME NEW b, NEW t, NEW k
  PROVE  DiffOf(b, t, k) \subseteq {"create", "update", "delete"}
BY DEF DiffOf

(* No keys, no difference.                                                 *)
LEMMA NoDifference ==
  ASSUME NEW q
  PROVE  DifferenceOver({}, q) = {}
BY DEF DifferenceOver

(* The difference over one key more.                                       *)
LEMMA OneKeyMore ==
  ASSUME NEW q, NEW keys, NEW k
  PROVE  DifferenceOver(keys \cup {k}, q) =
           DifferenceOver(keys, q) \cup {[key |-> k, action |-> a] : a \in DiffOf(q.base, q.target, k)}
BY DEF DifferenceOver

-----------------------------------------------------------------------------
(* The invariant.                                                          *)

(* One request moves and the others stay as they are.                      *)
LEMMA OnlyOne ==
  ASSUME ReqInv, NEW r \in Request, req' = [s \in Request |-> req'[s]],
         \A s \in Request \ {r} : req'[s] = req[s],
         showSensitive' \in BOOLEAN,
         Shape(req'[r]), Compared(req'[r]), Scoped(req'[r]), FailedInScope(req'[r])
  PROVE  ReqInv'
<1>1. ASSUME NEW s \in Request
      PROVE  Shape(req[s])' /\ Compared(req[s])' /\ Scoped(req[s])' /\ FailedInScope(req[s])'
  <2>1. CASE s = r
    BY <2>1 DEF Shape, Compared, Scoped, FailedInScope, Keys, NoSides, ScopeOf, DifferenceOver,
                CompositesIn, CompositionsIn
  <2>2. CASE s # r
    BY <2>2 DEF ReqInv, Shape, Compared, Scoped, FailedInScope, Keys, NoSides, ScopeOf, DifferenceOver,
                CompositesIn, CompositionsIn
  <2>3. QED
    BY <2>1, <2>2
<1>2. QED
  BY <1>1 DEF ReqInv

(* Contents that were real stay real, for a request that keeps its sides.  *)
LEMMA RealStays ==
  ASSUME IInv, [MirrorNext]_mirrorVars, NEW r \in Request, req'[r].base = req[r].base
  PROVE  Real(req[r].base)'
<1>1. \A o \in Object : Had(o) \subseteq Had(o)'
  BY HadGrows DEF IInv
<1>2. Real(req[r].base)
  BY DEF IInv
<1>3. QED
  BY <1>1, <1>2 DEF Real

(* So a step that leaves both sides of every request alone, or empties     *)
(* them, keeps them real.                                                  *)
LEMMA SidesKept ==
  ASSUME IInv, [MirrorNext]_mirrorVars,
         \A r \in Request : req'[r].base = req[r].base \/ req'[r].base = Empty
  PROVE  \A r \in Request : Real(req[r].base)'
<1> SUFFICES ASSUME NEW r \in Request PROVE Real(req[r].base)'
  OBVIOUS
<1>1. CASE req'[r].base = req[r].base
  BY <1>1, RealStays
<1>2. CASE req'[r].base = Empty
  BY <1>2 DEF Real, Empty
<1>3. QED
  BY <1>1, <1>2

(* A new request.                                                          *)
LEMMA ArriveKeeps ==
  ASSUME IInv, NEW r \in Request, Arrive(r)
  PROVE  IInv'
<1>1. PICK kind \in {"plan", "drift"}, show \in BOOLEAN, proposed \in Proposals :
        req' = [req EXCEPT ![r].pc = "arrived", ![r].kind = kind,
                           ![r].show = show, ![r].proposed = proposed]
  BY DEF Arrive
<1> DEFINE q == req'[r]
<1>2. Shape(req[r]) /\ req[r].pc = "idle" /\ req = [s \in Request |-> req[s]]
  BY DEF Arrive, IInv, ReqInv
<1>3. /\ q.pc = "arrived" /\ q.kind = kind /\ q.show = show /\ q.proposed = proposed
      /\ q.base = req[r].base /\ q.target = req[r].target /\ q.todo = req[r].todo
      /\ q.diffs = req[r].diffs /\ DOMAIN q = FieldNames
  BY <1>1, <1>2 DEF Shape, FieldNames
<1>4. /\ req' = [s \in Request |-> req'[s]]
      /\ \A s \in Request \ {r} : req'[s] = req[s]
  BY <1>1, <1>2
<1>5. NoSides(q) /\ q.diffs = {} /\ Keys(q) = {}
  BY <1>2, <1>3 DEF Shape, NoSides, Keys, Empty
<1>6. Shape(q)
  BY <1>3, <1>5 DEF Shape
<1>7. Compared(q)
  BY <1>5, NoDifference DEF Compared, Shown, NoSides
<1>8. Scoped(q) /\ FailedInScope(q)
  BY <1>3, <1>5 DEF Scoped, FailedInScope
<1>9. showSensitive' \in BOOLEAN /\ [MirrorNext]_mirrorVars
  BY DEF Arrive, IInv, ReqInv
<1>10. ReqInv'
  BY <1>4, <1>6, <1>7, <1>8, <1>9, OnlyOne DEF IInv
<1>11. \A s \in Request : req'[s].base = req[s].base \/ req'[s].base = Empty
  BY <1>3, <1>4
<1>12. QED
  BY <1>9, <1>10, <1>11, SidesKept, MirrorInvNext DEF IInv

(* The snapshot is taken, and both sides are rendered from it.             *)
LEMMA RenderBothKeeps ==
  ASSUME IInv, NEW r \in Request, req[r].pc = "arrived", RenderBoth(r),
         UNCHANGED <<mirrorVars, showSensitive>>
  PROVE  IInv'
<1> DEFINE p == req[r].proposed
           live == LiveSide(req[r].kind, p)
           q == req'[r]
<1>1. PICK comp \in Choices(p), liveComp \in Choices(live) :
        IF RenderFails(p, comp) \/ RenderFails(live, liveComp)
          THEN req' = [req EXCEPT ![r].pc = "failed"]
          ELSE \E base \in Renderings(live, liveComp), target \in Renderings(p, comp) :
                 req' = [req EXCEPT
                   ![r].pc = IF req[r].kind = "plan" THEN "rendered" ELSE "diffing",
                   ![r].base = base, ![r].target = target,
                   ![r].todo = DOMAIN base \cup DOMAIN target]
  BY DEF RenderBoth
<1>2. /\ Shape(req[r]) /\ req = [s \in Request |-> req[s]] /\ p \in Proposals /\ Snapshot(p)
      /\ NoSides(req[r]) /\ req[r].diffs = {} /\ showSensitive' \in BOOLEAN
      /\ [MirrorNext]_mirrorVars
  BY ProposalIsSnapshot DEF IInv, ReqInv, Shape
<1>3. /\ Snapshot(live) /\ \A o \in DOMAIN live : live[o] \in Had(o)
      /\ req[r].kind = "plan" => DOMAIN live \subseteq DOMAIN p
  BY <1>2, LiveSideOfRequest DEF IInv
<1>4. CASE RenderFails(p, comp) \/ RenderFails(live, liveComp)
  <2>1. req' = [req EXCEPT ![r].pc = "failed"]
    BY <1>1, <1>4
  <2>2. /\ q.pc = "failed" /\ q.kind = req[r].kind /\ q.show = req[r].show /\ q.proposed = p
        /\ q.base = req[r].base /\ q.target = req[r].target /\ q.todo = req[r].todo
        /\ q.diffs = {} /\ DOMAIN q = FieldNames
    BY <1>2, <2>1 DEF Shape, FieldNames
  <2>3. req' = [s \in Request |-> req'[s]] /\ \A s \in Request \ {r} : req'[s] = req[s]
    BY <1>2, <2>1
  <2>4. NoSides(q) /\ Keys(q) = {}
    BY <1>2, <2>2 DEF NoSides, Keys, Empty
  <2>5. Shape(q)
    BY <1>2, <2>2, <2>4 DEF Shape
  <2>6. Compared(q)
    BY <2>2, <2>4, NoDifference DEF Compared, Shown, NoSides
  <2>7. CompositionsIn(live) \subseteq CompositionsIn(p) \/ req[r].kind # "plan"
    BY <1>3 DEF CompositionsIn
  <2>8. FailedInScope(q)
    BY <1>4, <2>2, <2>7, FailureIsInScope DEF FailedInScope
  <2>9. Scoped(q)
    BY <2>2, <2>4 DEF Scoped
  <2>10. ReqInv'
    BY <1>2, <2>3, <2>5, <2>6, <2>8, <2>9, OnlyOne DEF IInv
  <2>11. \A s \in Request : req'[s].base = req[s].base \/ req'[s].base = Empty
    BY <2>2, <2>3
  <2>12. QED
    BY <1>2, <2>10, <2>11, SidesKept, MirrorInvNext DEF IInv
<1>5. CASE ~ (RenderFails(p, comp) \/ RenderFails(live, liveComp))
  <2>1. PICK base \in Renderings(live, liveComp), target \in Renderings(p, comp) :
          req' = [req EXCEPT
            ![r].pc = IF req[r].kind = "plan" THEN "rendered" ELSE "diffing",
            ![r].base = base, ![r].target = target, ![r].todo = DOMAIN base \cup DOMAIN target]
    BY <1>1, <1>5
  <2>2. /\ q.pc = IF req[r].kind = "plan" THEN "rendered" ELSE "diffing"
        /\ q.kind = req[r].kind /\ q.show = req[r].show /\ q.proposed = p
        /\ q.base = base /\ q.target = target /\ q.todo = DOMAIN base \cup DOMAIN target
        /\ q.diffs = {} /\ DOMAIN q = FieldNames
    BY <1>2, <2>1 DEF Shape, FieldNames
  <2>3. req' = [s \in Request |-> req'[s]] /\ \A s \in Request \ {r} : req'[s] = req[s]
    BY <1>2, <2>1
  <2>4. Keys(q) = DOMAIN base \cup DOMAIN target /\ q.todo = Keys(q)
    BY <2>2 DEF Keys
  <2>5. Shape(q)
    BY <1>2, <2>2, <2>4 DEF Shape
  <2>6. Keys(q) \ q.todo = {}
    BY <2>4
  <2>7. Compared(q)
    BY <2>2, <2>4, <2>6, NoDifference DEF Compared, Shown
  <2>8. DOMAIN base \subseteq ScopeOf(live) /\ DOMAIN target \subseteq ScopeOf(p)
    BY <1>2, <1>3, RenderedKeys
  <2>9. req[r].kind = "plan" => ScopeOf(live) \subseteq ScopeOf(p)
    BY <1>3 DEF ScopeOf, CompositesIn, CompositionsIn
  <2>10. Scoped(q)
    BY <1>2, <1>3, <2>2, <2>4, <2>8, <2>9, ScopeIsKeys DEF Scoped
  <2>11. FailedInScope(q)
    BY <2>2 DEF FailedInScope
  <2>12. ReqInv'
    BY <1>2, <2>3, <2>5, <2>7, <2>10, <2>11, OnlyOne DEF IInv
  <2>13. Real(base)
    <3>1. \A k \in DOMAIN base : \A source \in base[k] :
            source[1] \in DOMAIN live /\ source[2] = live[source[1]]
      BY <1>3, RenderedKeys
    <3>2. DOMAIN live \subseteq Object
      BY <1>3 DEF Snapshot
    <3> HIDE DEF live
    <3>3. QED
      BY <1>3, <3>1, <3>2 DEF Real
  <2>14. rev' = rev /\ gone' = gone
    BY DEF mirrorVars
  <2>15. Real(req[r].base)'
    BY <2>2, <2>13, <2>14 DEF Real, Had
  <2>16. ASSUME NEW s \in Request \ {r} PROVE Real(req[s].base)'
    BY <1>2, <2>3, RealStays
  <2>17. QED
    BY <1>2, <2>12, <2>15, <2>16, MirrorInvNext DEF IInv
<1>6. QED
  BY <1>4, <1>5

(* A plan sets the package variable and starts to compare.                 *)
LEMMA SetShowSensitiveKeeps ==
  ASSUME IInv, NEW r \in Request, SetShowSensitive(r)
  PROVE  IInv'
<1> DEFINE q == req'[r]
<1>1. req' = [req EXCEPT ![r].pc = "diffing"] /\ req[r].pc = "rendered"
  BY DEF SetShowSensitive
<1>2. /\ Shape(req[r]) /\ Compared(req[r]) /\ Scoped(req[r]) /\ FailedInScope(req[r])
      /\ req = [s \in Request |-> req[s]] /\ [MirrorNext]_mirrorVars
      /\ showSensitive' = req[r].show
  BY DEF SetShowSensitive, IInv, ReqInv
<1>3. /\ q.pc = "diffing" /\ q.kind = req[r].kind /\ q.show = req[r].show
      /\ q.proposed = req[r].proposed /\ q.base = req[r].base /\ q.target = req[r].target
      /\ q.todo = req[r].todo /\ q.diffs = req[r].diffs /\ DOMAIN q = FieldNames
  BY <1>1, <1>2 DEF Shape, FieldNames
<1>4. req' = [s \in Request |-> req'[s]] /\ \A s \in Request \ {r} : req'[s] = req[s]
  BY <1>1, <1>2
<1>5. Shape(q) /\ showSensitive' \in BOOLEAN
  BY <1>1, <1>2, <1>3 DEF Shape
<1>6. Compared(q) /\ Scoped(q) /\ FailedInScope(q)
  BY <1>2, <1>3 DEF Compared, Scoped, FailedInScope, Keys, DifferenceOver
<1>7. ReqInv'
  BY <1>4, <1>5, <1>6, OnlyOne DEF IInv
<1>8. \A s \in Request : req'[s].base = req[s].base
  BY <1>3, <1>4
<1>9. QED
  BY <1>2, <1>7, <1>8, SidesKept, MirrorInvNext DEF IInv

(* One resource more is compared.                                          *)
LEMMA ComputeKeeps ==
  ASSUME IInv, NEW r \in Request, Compute(r)
  PROVE  IInv'
<1> DEFINE q == req'[r]
<1>1. PICK k \in req[r].todo :
        req' = [req EXCEPT ![r].todo = @ \ {k},
                  ![r].diffs = @ \cup {[key |-> k, action |-> a, plain |-> Unmasked]
                                        : a \in DiffOf(req[r].base, req[r].target, k)}]
  BY DEF Compute
<1> DEFINE new == {[key |-> k, action |-> a, plain |-> Unmasked]
                     : a \in DiffOf(req[r].base, req[r].target, k)}
<1>2. /\ Shape(req[r]) /\ Compared(req[r]) /\ Scoped(req[r]) /\ FailedInScope(req[r])
      /\ req = [s \in Request |-> req[s]] /\ [MirrorNext]_mirrorVars
      /\ showSensitive' \in BOOLEAN /\ req[r].pc = "diffing"
  BY DEF Compute, IInv, ReqInv
<1>3. /\ q.pc = "diffing" /\ q.kind = req[r].kind /\ q.show = req[r].show
      /\ q.proposed = req[r].proposed /\ q.base = req[r].base /\ q.target = req[r].target
      /\ q.todo = req[r].todo \ {k} /\ q.diffs = req[r].diffs \cup new
      /\ DOMAIN q = FieldNames
  BY <1>1, <1>2 DEF Shape, FieldNames
<1>4. req' = [s \in Request |-> req'[s]] /\ \A s \in Request \ {r} : req'[s] = req[s]
  BY <1>1, <1>2
<1>5. Shape(q)
  BY <1>2, <1>3 DEF Shape
<1>6. k \in Keys(req[r]) /\ Keys(q) = Keys(req[r])
  BY <1>2, <1>3 DEF Compared, Keys
<1>7. Compared(q)
  <2>1. q.todo \subseteq Keys(q)
    BY <1>2, <1>3, <1>6 DEF Compared
  <2>2. Keys(q) \ q.todo = (Keys(req[r]) \ req[r].todo) \cup {k}
    BY <1>2, <1>3, <1>6 DEF Compared
  <2>3. Shown(q.diffs) = Shown(req[r].diffs) \cup Shown(new)
    BY <1>3 DEF Shown
  <2>4. Shown(new) = {[key |-> k, action |-> a] : a \in DiffOf(req[r].base, req[r].target, k)}
    <3>1. \A a : [key |-> k, action |-> a, plain |-> Unmasked].key = k
               /\ [key |-> k, action |-> a, plain |-> Unmasked].action = a
      OBVIOUS
    <3>2. QED
      BY <3>1 DEF Shown
  <2>5. \A keys : DifferenceOver(keys, q) = DifferenceOver(keys, req[r])
    BY <1>3 DEF DifferenceOver
  <2> DEFINE before == Keys(req[r]) \ req[r].todo
  <2>6. DifferenceOver(Keys(q) \ q.todo, q) = DifferenceOver(before \cup {k}, req[r])
    BY <2>2, <2>5
  <2>7. DifferenceOver(before \cup {k}, req[r])
          = DifferenceOver(before, req[r])
              \cup {[key |-> k, action |-> a] : a \in DiffOf(req[r].base, req[r].target, k)}
    BY OneKeyMore
  <2>8. Shown(req[r].diffs) = DifferenceOver(before, req[r])
    BY <1>2 DEF Compared
  <2>9. Shown(q.diffs) = DifferenceOver(Keys(q) \ q.todo, q)
    BY <2>3, <2>4, <2>6, <2>7, <2>8
  <2>10. QED
    BY <2>1, <2>9 DEF Compared
<1>8. Scoped(q)
  <2>1. \A d \in new : d.key = k /\ d.action \in {"create", "update", "delete"}
    BY DiffReports
  <2>2. QED
    BY <1>2, <1>3, <1>6, <2>1 DEF Scoped
<1>9. FailedInScope(q)
  BY <1>3 DEF FailedInScope
<1>10. ReqInv'
  BY <1>2, <1>4, <1>5, <1>7, <1>8, <1>9, OnlyOne DEF IInv
<1>11. \A s \in Request : req'[s].base = req[s].base
  BY <1>3, <1>4
<1>12. QED
  BY <1>2, <1>10, <1>11, SidesKept, MirrorInvNext DEF IInv

(* Everything has been compared.                                           *)
LEMMA RespondKeeps ==
  ASSUME IInv, NEW r \in Request, Respond(r)
  PROVE  IInv'
<1> DEFINE q == req'[r]
<1>1. req' = [req EXCEPT ![r].pc = "done"] /\ req[r].pc = "diffing" /\ req[r].todo = {}
  BY DEF Respond
<1>2. /\ Shape(req[r]) /\ Compared(req[r]) /\ Scoped(req[r]) /\ FailedInScope(req[r])
      /\ req = [s \in Request |-> req[s]] /\ [MirrorNext]_mirrorVars
      /\ showSensitive' \in BOOLEAN
  BY DEF Respond, IInv, ReqInv
<1>3. /\ q.pc = "done" /\ q.kind = req[r].kind /\ q.show = req[r].show
      /\ q.proposed = req[r].proposed /\ q.base = req[r].base /\ q.target = req[r].target
      /\ q.todo = req[r].todo /\ q.diffs = req[r].diffs /\ DOMAIN q = FieldNames
  BY <1>1, <1>2 DEF Shape, FieldNames
<1>4. req' = [s \in Request |-> req'[s]] /\ \A s \in Request \ {r} : req'[s] = req[s]
  BY <1>1, <1>2
<1>5. Shape(q)
  BY <1>1, <1>2, <1>3 DEF Shape
<1>6. Compared(q) /\ Scoped(q) /\ FailedInScope(q)
  BY <1>2, <1>3 DEF Compared, Scoped, FailedInScope, Keys, DifferenceOver
<1>7. ReqInv'
  BY <1>2, <1>4, <1>5, <1>6, OnlyOne DEF IInv
<1>8. \A s \in Request : req'[s].base = req[s].base
  BY <1>3, <1>4
<1>9. QED
  BY <1>2, <1>7, <1>8, SidesKept, MirrorInvNext DEF IInv

(* The idle request.                                                       *)
LEMMA IdleIsFine ==
  Shape(Idle) /\ Compared(Idle) /\ Scoped(Idle) /\ FailedInScope(Idle) /\ Idle.base = Empty
<1>1. Shape(Idle) /\ Keys(Idle) = {} /\ Idle.base = Empty
  BY DEF Shape, Idle, FieldNames, NoSides, Keys, Empty
<1>2. Compared(Idle)
  BY <1>1, NoDifference DEF Compared, Idle, Shown
<1>3. QED
  BY <1>1, <1>2 DEF Scoped, FailedInScope, Idle

(* The handler is gone.                                                    *)
LEMMA ReturnKeeps ==
  ASSUME IInv, NEW r \in Request, Return(r)
  PROVE  IInv'
<1>1. /\ req' = [s \in Request |-> req'[s]] /\ \A s \in Request \ {r} : req'[s] = req[s]
      /\ req'[r] = Idle /\ showSensitive' \in BOOLEAN /\ [MirrorNext]_mirrorVars
  BY DEF Return, IInv, ReqInv
<1>2. ReqInv'
  BY <1>1, IdleIsFine, OnlyOne DEF IInv
<1>3. \A s \in Request : req'[s].base = req[s].base \/ req'[s].base = Empty
  BY <1>1, IdleIsFine
<1>4. QED
  BY <1>1, <1>2, <1>3, SidesKept, MirrorInvNext DEF IInv

(* The mirror moves, or nothing does.                                      *)
LEMMA MirrorKeeps ==
  ASSUME IInv, [MirrorNext]_mirrorVars, UNCHANGED <<req, showSensitive>>
  PROVE  IInv'
<1>1. ReqInv'
  BY DEF IInv, ReqInv, Shape, Compared, Scoped, FailedInScope, Keys, NoSides, ScopeOf,
         DifferenceOver, CompositesIn, CompositionsIn
<1>2. \A r \in Request : req'[r].base = req[r].base
  OBVIOUS
<1>3. QED
  BY <1>1, <1>2, SidesKept, MirrorInvNext DEF IInv

(* The invariant holds in every state of every run.                        *)
THEOREM Invariance == Spec => []IInv
<1>1. Init => IInv
  <2> SUFFICES ASSUME Init PROVE IInv
    OBVIOUS
  <2>1. MirrorInv
    BY MirrorInvInit DEF Init
  <2>2. \A r \in Request : req[r] = Idle
    BY DEF Init
  <2>3. ReqInv
    BY <2>2, IdleIsFine DEF Init, ReqInv
  <2>4. \A r \in Request : Real(req[r].base)
    BY <2>2, IdleIsFine DEF Real, Empty
  <2>5. QED
    BY <2>1, <2>3, <2>4 DEF IInv
<1>2. IInv /\ [Next]_vars => IInv'
  <2> SUFFICES ASSUME IInv, [Next]_vars PROVE IInv'
    OBVIOUS
  <2>1. CASE Mirror
    BY <2>1, MirrorKeeps DEF Mirror
  <2>2. ASSUME NEW r \in Request, Handler(r) PROVE IInv'
    <3>1. CASE ComputeLivePlan(r)
      BY <3>1, RenderBothKeeps DEF ComputeLivePlan
    <3>2. CASE ComputeDrift(r)
      BY <3>2, RenderBothKeeps DEF ComputeDrift
    <3>3. QED
      BY <2>2, <3>1, <3>2, ArriveKeeps, SetShowSensitiveKeeps, ComputeKeeps, RespondKeeps,
         ReturnKeeps DEF Handler
  <2>3. CASE UNCHANGED vars
    BY <2>3, MirrorKeeps DEF vars
  <2>4. QED
    BY <2>1, <2>2, <2>3 DEF Next
<1>3. QED
  BY <1>1, <1>2, PTL DEF Spec

(* Every request has the shape TypeOK gives it: what a response reports is *)
(* a change, for a resource of one of the two rendered sets (plan.go:19).  *)
THEOREM TypeCorrect == Spec => []TypeOK
<1>1. IInv => TypeOK
  <2> SUFFICES ASSUME IInv, NEW r \in Request
               PROVE  TypeOK!2!(r)
    BY DEF IInv, ReqInv, TypeOK
  <2>1. Shape(req[r]) /\ Compared(req[r]) /\ Scoped(req[r])
    BY DEF IInv, ReqInv
  <2>2. QED
    BY <2>1 DEF Shape, Compared, Scoped, Keys
<1>2. QED
  BY <1>1, Invariance, PTL

(* A plan reports only proposed objects and what proposed composites       *)
(* render to, also on the live side (plan.go:20-24).                       *)
THEOREM PlansAreScoped == Spec => []PlanIsScoped
<1>1. IInv => PlanIsScoped
  <2> SUFFICES ASSUME IInv, NEW r \in Request, Answered(r, "plan"), NEW d \in req[r].diffs
               PROVE  d.key \in ScopeOf(req[r].proposed)
    BY DEF PlanIsScoped, ScopeOf
  <2>1. QED
    BY DEF IInv, ReqInv, Scoped, Answered
<1>2. QED
  BY <1>1, Invariance, PTL

(* The live side of an answer holds only contents that the cluster had.    *)
THEOREM LiveSidesAreReal == Spec => []LiveSideIsReal
<1>1. IInv => LiveSideIsReal
  BY DEF IInv, LiveSideIsReal, Real, Had
<1>2. QED
  BY <1>1, Invariance, PTL

(* A plan fails only over a composition it proposes itself.                *)
THEOREM PlansFailInTheirScope == Spec => []PlanFailsInItsScope
<1>1. IInv => PlanFailsInItsScope
  BY DEF IInv, ReqInv, FailedInScope, PlanFailsInItsScope
<1>2. QED
  BY <1>1, Invariance, PTL

-----------------------------------------------------------------------------
(* LivePlan implements AtomicPlan.                                         *)

(* AtomicPlan's operators on snapshots are Rendering's.                    *)
LEMMA SameRendering ==
  /\ \A kind, s : Atomic!LiveSide(kind, s) = LiveSide(kind, s)
  /\ \A s : Atomic!Choices(s) = Choices(s)
  /\ \A s, comp : Atomic!RenderFails(s, comp) = RenderFails(s, comp)
  /\ \A s, comp : Atomic!Renderings(s, comp) = Renderings(s, comp)
<1> USE DEF Atomic!CompositesIn, CompositesIn, Atomic!CompositionsIn, CompositionsIn,
            Atomic!findComposition, findComposition, Atomic!Resolved, Resolved
<1>0. \A objs : Atomic!Orders(objs) = Orders(objs)
  BY DEF Atomic!Orders, Orders
<1>1. \A kind, s : Atomic!LiveSide(kind, s) = LiveSide(kind, s)
  BY DEF Atomic!LiveSide, LiveSide, Atomic!scopeToProposed, scopeToProposed,
         Atomic!GetResourceSet, GetResourceSet
<1>2. \A s : Atomic!Choices(s) = Choices(s)
  BY <1>0 DEF Atomic!Choices, Choices
<1>3. \A s, comp : Atomic!RenderFails(s, comp) = RenderFails(s, comp)
  BY DEF Atomic!RenderFails, RenderFails
<1>4. \A s, comp : Atomic!Renderings(s, comp) = Renderings(s, comp)
  <2>1. \A s, comp, x : Atomic!Gives(s, comp, x) = Gives(s, comp, x)
    BY DEF Atomic!Gives, Gives
  <2>2. \A s, comp : Atomic!Made(s, comp) = Made(s, comp)
    BY <2>1 DEF Atomic!Made, Made
  <2>3. \A s, comp, k : Atomic!Givers(s, comp, k) = Givers(s, comp, k)
    BY <2>1 DEF Atomic!Givers, Givers
  <2>4. \A s, comp : Atomic!Lasts(s, comp) = Lasts(s, comp)
    BY <1>0, <2>2, <2>3 DEF Atomic!Lasts, Lasts
  <2>5. \A s, comp, x : Atomic!Sources(s, comp, x) = Sources(s, comp, x)
    BY DEF Atomic!Sources, Sources
  <2>6. \A s, comp, last : Atomic!Render(s, comp, last) = Render(s, comp, last)
    BY <2>2, <2>5 DEF Atomic!Render, Render
  <2>7. QED
    BY <2>4, <2>6 DEF Atomic!Renderings, Renderings
<1>5. QED
  BY <1>1, <1>2, <1>3, <1>4

(* So is its mirror.                                                       *)
LEMMA SameMirror ==
  /\ Atomic!MirrorInit <=> MirrorInit
  /\ Atomic!MirrorNext <=> MirrorNext
  /\ Atomic!mirrorVars = mirrorVars
BY DEF Atomic!MirrorInit, MirrorInit, Atomic!ClusterInit, ClusterInit, Atomic!MirrorNext, MirrorNext,
       Atomic!WriteObject, WriteObject, Atomic!Apply, Apply, Atomic!Content, Content,
       Atomic!Alive, Alive, Atomic!mirrorVars, mirrorVars

(* The whole difference, of one key after the other or at once.            *)
LEMMA SameDifference ==
  ASSUME NEW q
  PROVE  DifferenceOver(Keys(q), q) = Atomic!Difference(q.base, q.target)
BY DEF DifferenceOver, Keys, Atomic!Difference, Atomic!DiffOf, DiffOf

(* One call moves.                                                         *)
LEMMA OneCall ==
  ASSUME NEW r \in Request, NEW X, CallOf(req'[r]) = X,
         \A s \in Request \ {r} : req'[s] = req[s]
  PROVE  [s \in Request |-> CallOf(req'[s])]
           = [[s \in Request |-> CallOf(req[s])] EXCEPT ![r] = X]
<1> HIDE DEF CallOf
<1>1. \A s \in Request \ {r} : CallOf(req'[s]) = CallOf(req[s])
  OBVIOUS
<1>2. QED
  BY <1>1

(* What CallOf makes of a request.                                         *)
LEMMA CallFields ==
  ASSUME NEW q
  PROVE  CallOf(q) = Atomic!Call(StateOf(q.pc), q.kind, q.proposed, DifferenceOver(Keys(q), q),
                                 IF q.pc = "done" THEN Shown(q.diffs) ELSE {})
BY DEF CallOf, Keys, Atomic!Call

(* A request that has not been rendered has nothing to show.               *)
LEMMA NothingYet ==
  ASSUME NEW q, Shape(q), q.pc \in {"idle", "arrived", "failed"}
  PROVE  CallOf(q) = Atomic!Call(StateOf(q.pc), q.kind, q.proposed, {}, {})
<1>1. DifferenceOver(Keys(q), q) = {}
  BY NoDifference DEF Shape, NoSides, Keys, Empty
<1>2. q.pc # "done"
  OBVIOUS
<1>3. QED
  BY <1>1, <1>2, CallFields

(* An idle request is no call.                                             *)
LEMMA IdleIsNoCall == CallOf(Idle) = Atomic!NoCall
<1>1. CallOf(Idle) = Atomic!Call(StateOf("idle"), "plan", Empty, {}, {})
  BY IdleIsFine, NothingYet DEF Idle
<1>2. QED
  BY <1>1 DEF Atomic!NoCall, StateOf, Atomic!Empty, Empty

(* A request arrives: the question is asked.                               *)
LEMMA ArriveAsks ==
  ASSUME IInv, IInv', NEW r \in Request, Arrive(r)
  PROVE  Atomic!Ask(r)
<1>1. PICK kind \in {"plan", "drift"}, show \in BOOLEAN, proposed \in Proposals :
        req' = [req EXCEPT ![r].pc = "arrived", ![r].kind = kind,
                           ![r].show = show, ![r].proposed = proposed]
  BY DEF Arrive
<1>2. /\ Shape(req[r]) /\ Shape(req'[r]) /\ req = [s \in Request |-> req[s]] /\ req[r].pc = "idle"
  BY DEF IInv, ReqInv, Arrive
<1>3. /\ req'[r].pc = "arrived" /\ req'[r].kind = kind /\ req'[r].proposed = proposed
      /\ \A s \in Request \ {r} : req'[s] = req[s]
  BY <1>1, <1>2 DEF Shape, FieldNames
<1>4. CallOf(req'[r]) = Atomic!Call("asked", kind, proposed, {}, {})
  BY <1>2, <1>3, NothingYet DEF StateOf
<1>5. [s \in Request |-> CallOf(req[s])][r].state = "none"
  BY <1>2 DEF CallOf, StateOf
<1>6. UNCHANGED mirrorVars
  BY DEF Arrive
<1>7. QED
  BY <1>3, <1>4, <1>5, <1>6, OneCall, SameMirror
  DEF Atomic!Ask, Atomic!mirrorVars, mirrorVars

(* Both sides are rendered: the one moment at which the call is evaluated. *)
LEMMA RenderEvaluates ==
  ASSUME IInv, IInv', NEW r \in Request, req[r].pc = "arrived", RenderBoth(r),
         UNCHANGED mirrorVars
  PROVE  Atomic!Evaluate(r)
<1> DEFINE p == req[r].proposed
           live == LiveSide(req[r].kind, p)
           q == req'[r]
<1>1. PICK comp \in Choices(p), liveComp \in Choices(live) :
        IF RenderFails(p, comp) \/ RenderFails(live, liveComp)
          THEN req' = [req EXCEPT ![r].pc = "failed"]
          ELSE \E base \in Renderings(live, liveComp), target \in Renderings(p, comp) :
                 req' = [req EXCEPT
                   ![r].pc = IF req[r].kind = "plan" THEN "rendered" ELSE "diffing",
                   ![r].base = base, ![r].target = target,
                   ![r].todo = DOMAIN base \cup DOMAIN target]
  BY DEF RenderBoth
<1> DEFINE fails == RenderFails(p, comp) \/ RenderFails(live, liveComp)
<1>2. Shape(req[r]) /\ Shape(q) /\ req = [s \in Request |-> req[s]]
  BY DEF IInv, ReqInv
<1>3. \A s \in Request \ {r} : req'[s] = req[s]
  BY <1>1, <1>2
<1>4. CallOf(q) \in Atomic!Outcomes(req[r].kind, p, comp, liveComp)
  <2>1. CASE fails
    <3>0. req' = [req EXCEPT ![r].pc = "failed"]
      BY <1>1, <2>1
    <3>1. q.pc = "failed" /\ q.kind = req[r].kind /\ q.proposed = p
      BY <1>2, <3>0 DEF Shape, FieldNames
    <3>2. CallOf(q) = Atomic!Call("failed", req[r].kind, p, {}, {})
      BY <1>2, <3>1, NothingYet DEF StateOf
    <3>3. QED
      BY <2>1, <3>2, SameRendering DEF Atomic!Outcomes
  <2>2. CASE ~fails
    <3>0. PICK base \in Renderings(live, liveComp), target \in Renderings(p, comp) :
            req' = [req EXCEPT ![r].pc = IF req[r].kind = "plan" THEN "rendered" ELSE "diffing",
                               ![r].base = base, ![r].target = target,
                               ![r].todo = DOMAIN base \cup DOMAIN target]
      BY <1>1, <2>2
    <3>1. /\ q.pc = (IF req[r].kind = "plan" THEN "rendered" ELSE "diffing")
          /\ q.kind = req[r].kind /\ q.proposed = p /\ q.base = base /\ q.target = target
      BY <1>2, <3>0 DEF Shape, FieldNames
    <3>2. StateOf(q.pc) = "evaluated" /\ q.pc # "done"
      BY <3>1 DEF StateOf
    <3>3. CallOf(q) = Atomic!Call("evaluated", req[r].kind, p, DifferenceOver(Keys(q), q), {})
      BY <3>1, <3>2, CallFields
    <3>4. DifferenceOver(Keys(q), q) = Atomic!Difference(base, target)
      BY <3>1, SameDifference
    <3>5. CallOf(q) = Atomic!Call("evaluated", req[r].kind, p, Atomic!Difference(base, target), {})
      BY <3>3, <3>4
    <3>6. /\ base \in Atomic!Renderings(Atomic!LiveSide(req[r].kind, p), liveComp)
          /\ target \in Atomic!Renderings(p, comp)
          /\ ~(\/ Atomic!RenderFails(p, comp)
               \/ Atomic!RenderFails(Atomic!LiveSide(req[r].kind, p), liveComp))
      BY <2>2, SameRendering
    <3>7. QED
      BY <3>5, <3>6 DEF Atomic!Outcomes
  <2>3. QED
    BY <2>1, <2>2
<1> DEFINE answer == CallOf(q)
           calls == [s \in Request |-> CallOf(req[s])]
<1>5. [s \in Request |-> CallOf(req'[s])] = [calls EXCEPT ![r] = answer]
  BY <1>3, OneCall
<1>6. calls[r].state = "asked" /\ calls[r].kind = req[r].kind /\ calls[r].proposed = p
  BY DEF CallOf, StateOf
<1>7. comp \in Atomic!Choices(p) /\ liveComp \in Atomic!Choices(Atomic!LiveSide(req[r].kind, p))
  BY SameRendering
<1> HIDE DEF answer, live, p, calls
<1>8. \E c \in Atomic!Choices(calls[r].proposed),
         l \in Atomic!Choices(Atomic!LiveSide(calls[r].kind, calls[r].proposed)) :
        \E outcome \in Atomic!Outcomes(calls[r].kind, calls[r].proposed, c, l) :
          [s \in Request |-> CallOf(req'[s])] = [calls EXCEPT ![r] = outcome]
  BY <1>4, <1>5, <1>6, <1>7 DEF answer
<1>9. QED
  BY <1>6, <1>8 DEF Atomic!Evaluate, Atomic!mirrorVars, mirrorVars, calls

(* A step that moves nobody's call.                                        *)
LEMMA SameCalls ==
  ASSUME NEW r \in Request, CallOf(req'[r]) = CallOf(req[r]),
         \A s \in Request \ {r} : req'[s] = req[s]
  PROVE  [s \in Request |-> CallOf(req'[s])] = [s \in Request |-> CallOf(req[s])]
<1> HIDE DEF CallOf
<1>1. \A s \in Request : CallOf(req'[s]) = CallOf(req[s])
  OBVIOUS
<1>2. QED
  BY <1>1

(* Comparing leaves the call as it is: its result has been fixed.          *)
LEMMA ComparingStutters ==
  ASSUME IInv, IInv', NEW r \in Request, SetShowSensitive(r) \/ Compute(r)
  PROVE  [s \in Request |-> CallOf(req'[s])] = [s \in Request |-> CallOf(req[s])]
<1>1. Shape(req[r]) /\ Shape(req'[r]) /\ req = [s \in Request |-> req[s]]
  BY DEF IInv, ReqInv
<1>2. /\ \A s \in Request \ {r} : req'[s] = req[s]
      /\ req[r].pc \in {"rendered", "diffing"} /\ req'[r].pc = "diffing"
      /\ req'[r].kind = req[r].kind /\ req'[r].proposed = req[r].proposed
      /\ req'[r].base = req[r].base /\ req'[r].target = req[r].target
  <2>1. CASE SetShowSensitive(r)
    BY <1>1, <2>1 DEF SetShowSensitive, Shape, FieldNames
  <2>2. CASE Compute(r)
    <3>1. PICK k \in req[r].todo :
            req' = [req EXCEPT ![r].todo = @ \ {k},
                      ![r].diffs = @ \cup {[key |-> k, action |-> a, plain |-> Unmasked]
                                            : a \in DiffOf(req[r].base, req[r].target, k)}]
      BY <2>2 DEF Compute
    <3>2. QED
      BY <1>1, <2>2, <3>1 DEF Compute, Shape, FieldNames
  <2>3. QED
    BY <2>1, <2>2
<1>3. StateOf(req'[r].pc) = StateOf(req[r].pc) /\ req[r].pc # "done" /\ req'[r].pc # "done"
  BY <1>2 DEF StateOf
<1>4. DifferenceOver(Keys(req'[r]), req'[r]) = DifferenceOver(Keys(req[r]), req[r])
  BY <1>2 DEF DifferenceOver, Keys
<1>5. CallOf(req'[r]) = CallOf(req[r])
  BY <1>2, <1>3, <1>4, CallFields
<1>6. QED
  BY <1>2, <1>5, SameCalls

(* The last resource has been compared: what was shown is the whole result.*)
LEMMA RespondAnswers ==
  ASSUME IInv, IInv', NEW r \in Request, Respond(r)
  PROVE  Atomic!AnswerCall(r)
<1> DEFINE result == DifferenceOver(Keys(req[r]), req[r])
<1>1. /\ Shape(req[r]) /\ Shape(req'[r]) /\ Compared(req[r]) /\ req = [s \in Request |-> req[s]]
      /\ UNCHANGED mirrorVars
  BY DEF IInv, ReqInv, Respond
<1>2. /\ \A s \in Request \ {r} : req'[s] = req[s]
      /\ req[r].pc = "diffing" /\ req[r].todo = {} /\ req'[r].pc = "done"
      /\ req'[r].kind = req[r].kind /\ req'[r].proposed = req[r].proposed
      /\ req'[r].base = req[r].base /\ req'[r].target = req[r].target
      /\ req'[r].diffs = req[r].diffs
  BY <1>1 DEF Respond, Shape, FieldNames
<1>3. DifferenceOver(Keys(req'[r]), req'[r]) = result
  BY <1>2 DEF DifferenceOver, Keys
<1>4. Keys(req[r]) \ req[r].todo = Keys(req[r])
  BY <1>2
<1>5. Shown(req'[r].diffs) = result
  BY <1>1, <1>2, <1>4 DEF Compared
<1>6. CallOf(req'[r]) = Atomic!Call("answered", req[r].kind, req[r].proposed, result, result)
  BY <1>2, <1>3, <1>5, CallFields DEF StateOf
<1>7. /\ [s \in Request |-> CallOf(req[s])][r].state = "evaluated"
      /\ [s \in Request |-> CallOf(req[s])][r].kind = req[r].kind
      /\ [s \in Request |-> CallOf(req[s])][r].proposed = req[r].proposed
      /\ [s \in Request |-> CallOf(req[s])][r].result = result
  BY <1>2 DEF CallOf, StateOf, Keys
<1> HIDE DEF result
<1>8. QED
  BY <1>1, <1>2, <1>6, <1>7, OneCall, SameMirror
  DEF Atomic!AnswerCall, Atomic!mirrorVars, mirrorVars

(* The handler ends, and the call with it.                                 *)
LEMMA ReturnEnds ==
  ASSUME IInv, NEW r \in Request, Return(r)
  PROVE  Atomic!EndCall(r)
<1>1. /\ \A s \in Request \ {r} : req'[s] = req[s]
      /\ req'[r] = Idle /\ req[r].pc \in {"done", "failed"} /\ UNCHANGED mirrorVars
  BY DEF Return, IInv, ReqInv
<1>2. CallOf(req'[r]) = Atomic!NoCall
  BY <1>1, IdleIsNoCall
<1>3. [s \in Request |-> CallOf(req[s])][r].state \in {"answered", "failed"}
  BY <1>1 DEF CallOf, StateOf
<1>4. QED
  BY <1>1, <1>2, <1>3, OneCall, SameMirror
  DEF Atomic!EndCall, Atomic!mirrorVars, mirrorVars

(* Every plan and drift request is answered as if its whole comparison had *)
(* been made at one moment, however many requests run and however the      *)
(* cache moves while diff.Compute runs (plan.go:32, diff.go:110-182).      *)
THEOREM Atomicity == Spec => AnsweredAtOneMoment
<1>1. Init => Atomic!AtomicInit
  <2> SUFFICES ASSUME Init PROVE Atomic!AtomicInit
    OBVIOUS
  <2>1. \A r \in Request : req[r] = Idle
    BY DEF Init
  <2>2. [r \in Request |-> CallOf(req[r])] = [r \in Request |-> Atomic!NoCall]
    BY <2>1, IdleIsNoCall
  <2>3. QED
    BY <2>2, SameMirror DEF Init, Atomic!AtomicInit
<1>2. IInv /\ IInv' /\ [Next]_vars => [Atomic!AtomicNext]_(Atomic!atomicVars)
  <2> SUFFICES ASSUME IInv, IInv', [Next]_vars
               PROVE  [Atomic!AtomicNext]_(Atomic!atomicVars)
    OBVIOUS
  <2>1. CASE Mirror
    <3>1. [s \in Request |-> CallOf(req'[s])] = [s \in Request |-> CallOf(req[s])]
      BY <2>1 DEF Mirror
    <3>2. QED
      BY <2>1, <3>1, SameMirror DEF Mirror, Atomic!AtomicNext
  <2>2. ASSUME NEW r \in Request, Handler(r)
        PROVE  [Atomic!AtomicNext]_(Atomic!atomicVars)
    <3>1. CASE Arrive(r)
      BY <3>1, ArriveAsks DEF Atomic!AtomicNext
    <3>2. CASE ComputeLivePlan(r) \/ ComputeDrift(r)
      <4>1. Atomic!Evaluate(r)
        BY <3>2, RenderEvaluates DEF ComputeLivePlan, ComputeDrift
      <4>2. QED
        BY <4>1 DEF Atomic!AtomicNext
    <3>3. CASE SetShowSensitive(r) \/ Compute(r)
      <4>1. UNCHANGED mirrorVars
        BY <3>3 DEF SetShowSensitive, Compute
      <4>2. QED
        BY <3>3, <4>1, ComparingStutters, SameMirror DEF Atomic!atomicVars, Atomic!mirrorVars, mirrorVars
    <3>4. CASE Respond(r)
      BY <3>4, RespondAnswers DEF Atomic!AtomicNext
    <3>5. CASE Return(r)
      BY <3>5, ReturnEnds DEF Atomic!AtomicNext
    <3>6. QED
      BY <2>2, <3>1, <3>2, <3>3, <3>4, <3>5 DEF Handler
  <2>3. CASE UNCHANGED vars
    BY <2>3, SameMirror DEF vars, Atomic!atomicVars, Atomic!mirrorVars, mirrorVars
  <2>4. QED
    BY <2>1, <2>2, <2>3 DEF Next
<1>3. QED
  BY <1>1, <1>2, Invariance, PTL DEF Spec, AnsweredAtOneMoment, Atomic!AtomicSpec

-----------------------------------------------------------------------------
(* A plan of what is there.                                                *)

(* When the map holds every proposed object as proposed, the scoped live   *)
(* side is the proposal.                                                   *)
LEMMA SidesAgree ==
  ASSUME NEW p \in Proposals, \A o \in DOMAIN p : cache[o] = p[o]
  PROVE  LiveSide("plan", p) = p
<1>1. PICK objs \in SUBSET Object : p \in [objs -> Content1]
  BY ProposalAssumption DEF SetOf
<1>2. DOMAIN p = objs /\ \A o \in objs : cache[o] = p[o] /\ cache[o] # 0
  BY <1>1 DEF Content1
<1>3. DOMAIN GetResourceSet \cap DOMAIN p = objs /\ \A o \in objs : GetResourceSet[o] = p[o]
  BY <1>1, <1>2 DEF GetResourceSet
<1>4. LiveSide("plan", p) = [o \in objs |-> p[o]]
  BY <1>3 DEF LiveSide, scopeToProposed
<1>5. QED
  BY <1>1, <1>4

(* A resource that is not ambiguous is made by the same composites,        *)
(* whichever compositions are chosen, and from the same contents.          *)
LEMMA SameGivers ==
  ASSUME NEW s, NEW comp \in Choices(s), NEW other \in Choices(s), NEW k, ~Ambiguous(s, k),
         NEW x \in Givers(s, comp, k)
  PROVE  /\ MayGive(s, x, k) /\ x \in CompositesIn(s) /\ x \in Givers(s, other, k)
         /\ Sources(s, comp, x) = Sources(s, other, x)
<1>1. x \in CompositesIn(s) /\ k \in Gives(s, comp, x)
  BY DEF Givers
<1>2. CASE x \in Resolved(s)
  <2>1. comp[x] \in findComposition(s, x) /\ other[x] \in findComposition(s, x)
    BY <1>2 DEF Choices
  <2>2. MayGive(s, x, k)
    BY <1>1, <1>2, <2>1 DEF Gives, MayGive
  <2>3. comp[x] = other[x]
    BY <1>1, <2>1, <2>2 DEF Ambiguous
  <2>4. QED
    BY <1>1, <1>2, <2>2, <2>3 DEF Givers, Gives, Sources
<1>3. CASE x \notin Resolved(s)
  BY <1>1, <1>3 DEF Givers, Gives, Sources, MayGive
<1>4. QED
  BY <1>2, <1>3

(* Of its composites the same one is last: of two, one is a claim.         *)
LEMMA SameLast ==
  ASSUME NEW s, NEW comp \in Choices(s), NEW other \in Choices(s), NEW k, ~Ambiguous(s, k),
         NEW last \in Lasts(s, comp), NEW otherLast \in Lasts(s, other),
         k \in Made(s, comp), k \in Made(s, other)
  PROVE  last[k] = otherLast[k]
<1>1. /\ last[k] \in Givers(s, comp, k) /\ otherLast[k] \in Givers(s, other, k)
      /\ last[k] \in CompositesIn(s) /\ otherLast[k] \in CompositesIn(s)
  BY DEF Lasts, Givers
<1>2. /\ MayGive(s, last[k], k) /\ last[k] \in Givers(s, other, k)
      /\ MayGive(s, otherLast[k], k) /\ otherLast[k] \in Givers(s, comp, k)
  BY <1>1, SameGivers
<1>3. ASSUME last[k] # otherLast[k], last[k] \in Claim, otherLast[k] \notin Claim
      PROVE  FALSE
  <2>1. PICK before \in Orders(CompositesIn(s)) :
          /\ \A x \in CompositesIn(s) \ Claim, y \in CompositesIn(s) \cap Claim : <<x, y>> \in before
          /\ \A y \in Givers(s, other, k) \ {otherLast[k]} : <<y, otherLast[k]>> \in before
    BY DEF Lasts
  <2>2. <<otherLast[k], last[k]>> \in before /\ <<last[k], otherLast[k]>> \in before
    BY <1>1, <1>2, <1>3, <2>1
  <2>3. QED
    BY <1>1, <2>1, <2>2 DEF Orders
<1>4. ASSUME last[k] # otherLast[k], last[k] \notin Claim, otherLast[k] \in Claim
      PROVE  FALSE
  <2>1. PICK before \in Orders(CompositesIn(s)) :
          /\ \A x \in CompositesIn(s) \ Claim, y \in CompositesIn(s) \cap Claim : <<x, y>> \in before
          /\ \A y \in Givers(s, comp, k) \ {last[k]} : <<y, last[k]>> \in before
    BY DEF Lasts
  <2>2. <<last[k], otherLast[k]>> \in before /\ <<otherLast[k], last[k]>> \in before
    BY <1>1, <1>2, <1>4, <2>1
  <2>3. QED
    BY <1>1, <2>1, <2>2 DEF Orders
<1>5. last[k] # otherLast[k] => (last[k] \in Claim <=> otherLast[k] \notin Claim)
  BY <1>1, <1>2 DEF Ambiguous
<1>6. QED
  BY <1>3, <1>4, <1>5

(* So two renderings of one set differ in ambiguous resources only.        *)
LEMMA OnlyAmbiguityDiffers ==
  ASSUME NEW s, NEW comp \in Choices(s), NEW other \in Choices(s),
         NEW b \in Renderings(s, comp), NEW t \in Renderings(s, other),
         NEW k \in DOMAIN b \cup DOMAIN t, DiffOf(b, t, k) # {}
  PROVE  Ambiguous(s, k)
<1> SUFFICES ASSUME ~Ambiguous(s, k) PROVE FALSE
  OBVIOUS
<1>1. PICK last \in Lasts(s, comp) : b = Render(s, comp, last)
  BY DEF Renderings
<1>2. PICK otherLast \in Lasts(s, other) : t = Render(s, other, otherLast)
  BY DEF Renderings
<1>3. k \in Made(s, comp) <=> \E x : x \in Givers(s, comp, k)
  BY DEF Made, Givers
<1>4. k \in Made(s, other) <=> \E x : x \in Givers(s, other, k)
  BY DEF Made, Givers
<1>5. k \in Made(s, comp) <=> k \in Made(s, other)
  BY <1>3, <1>4, SameGivers
<1>6. DOMAIN b = (DOMAIN s \cap Managed) \cup Made(s, comp)
  BY <1>1 DEF Render
<1>7. DOMAIN t = (DOMAIN s \cap Managed) \cup Made(s, other)
  BY <1>2 DEF Render
<1>8. k \in DOMAIN b /\ k \in DOMAIN t
  BY <1>5, <1>6, <1>7
<1>9. b[k] = IF k \in Made(s, comp) THEN Sources(s, comp, last[k]) ELSE {<<k, s[k]>>}
  BY <1>1, <1>6, <1>8 DEF Render
<1>10. t[k] = IF k \in Made(s, other) THEN Sources(s, other, otherLast[k]) ELSE {<<k, s[k]>>}
  BY <1>2, <1>7, <1>8 DEF Render
<1>11. k \in Made(s, comp) => Sources(s, comp, last[k]) = Sources(s, other, otherLast[k])
  <2> SUFFICES ASSUME k \in Made(s, comp)
               PROVE  Sources(s, comp, last[k]) = Sources(s, other, otherLast[k])
    OBVIOUS
  <2>1. last[k] = otherLast[k] /\ last[k] \in Givers(s, comp, k)
    BY <1>5, SameLast DEF Lasts
  <2>2. QED
    BY <2>1, SameGivers
<1>12. b[k] = t[k]
  BY <1>5, <1>9, <1>10, <1>11
<1>13. QED
  BY <1>8, <1>12 DEF DiffOf

(* Planning what is already there, as it is there, reports only what the   *)
(* proposal leaves open: both sides go through the same rendering of the   *)
(* same manifests, composites and compositions too (plan.go:20-47), and    *)
(* may differ in the order of what they list (cache.go:74).                *)
THEOREM AppliedPlansShowAmbiguity == Spec => OnlyAmbiguityIsReported
<1> DEFINE Applied(r) ==
      /\ req[r].pc = "arrived" /\ req'[r].pc = "rendered"
      /\ \A o \in DOMAIN req[r].proposed : cache[o] = req[r].proposed[o]
<1>1. ASSUME IInv, Next, NEW r \in Request, Applied(r),
             NEW k \in DOMAIN req'[r].base \cup DOMAIN req'[r].target,
             DiffOf(req'[r].base, req'[r].target, k) # {}
      PROVE  Ambiguous(req[r].proposed, k)
  <2> DEFINE p == req[r].proposed
             live == LiveSide(req[r].kind, p)
  <2>1. Shape(req[r]) /\ req = [s \in Request |-> req[s]] /\ p \in Proposals
    BY <1>1 DEF IInv, ReqInv, Shape
  <2>2. PICK s \in Request : Handler(s)
    BY <1>1 DEF Next, Mirror
  <2>3. s = r
    BY <1>1, <2>1, <2>2 DEF Handler, Arrive, ComputeLivePlan, ComputeDrift, RenderBoth,
                            SetShowSensitive, Compute, Respond, Return
  <2>4. RenderBoth(r)
    BY <1>1, <2>2, <2>3 DEF Handler, Arrive, ComputeLivePlan, ComputeDrift,
                            SetShowSensitive, Compute, Respond, Return
  <2>5. PICK comp \in Choices(p), liveComp \in Choices(live) :
          IF RenderFails(p, comp) \/ RenderFails(live, liveComp)
            THEN req' = [req EXCEPT ![r].pc = "failed"]
            ELSE \E base \in Renderings(live, liveComp), target \in Renderings(p, comp) :
                   req' = [req EXCEPT
                     ![r].pc = IF req[r].kind = "plan" THEN "rendered" ELSE "diffing",
                     ![r].base = base, ![r].target = target,
                     ![r].todo = DOMAIN base \cup DOMAIN target]
    BY <2>4 DEF RenderBoth
  <2> HIDE DEF live
  <2>6. ~(RenderFails(p, comp) \/ RenderFails(live, liveComp))
    BY <1>1, <2>1, <2>5 DEF Shape, FieldNames
  <2>7. PICK base \in Renderings(live, liveComp), target \in Renderings(p, comp) :
          req' = [req EXCEPT
            ![r].pc = IF req[r].kind = "plan" THEN "rendered" ELSE "diffing",
            ![r].base = base, ![r].target = target, ![r].todo = DOMAIN base \cup DOMAIN target]
    BY <2>5, <2>6
  <2>8. req'[r].base = base /\ req'[r].target = target /\ req[r].kind = "plan"
    BY <1>1, <2>1, <2>7 DEF Shape, FieldNames
  <2>9. live = p
    BY <1>1, <2>1, <2>8, SidesAgree DEF live
  <2>10. k \in DOMAIN base \cup DOMAIN target /\ DiffOf(base, target, k) # {}
    BY <1>1, <2>8
  <2>11. liveComp \in Choices(p) /\ base \in Renderings(p, liveComp)
    BY <2>5, <2>7, <2>9
  <2> HIDE DEF p
  <2>12. Ambiguous(p, k)
    BY <2>5, <2>7, <2>10, <2>11, OnlyAmbiguityDiffers
  <2>13. QED
    BY <2>12 DEF p
<1>2. IInv /\ [Next]_vars =>
        [\A r \in Request :
           Applied(r) => \A k \in DOMAIN req'[r].base \cup DOMAIN req'[r].target :
             DiffOf(req'[r].base, req'[r].target, k) # {} => Ambiguous(req[r].proposed, k)]_vars
  BY <1>1
<1>3. QED
  BY <1>2, Invariance, PTL DEF Spec, OnlyAmbiguityIsReported
=============================================================================
