--------------------------- MODULE ComposedChanges ---------------------------
(***************************************************************************)
(* pkg/operator/compose.go, ResolveComposedChanges, as ComputePlan of      *)
(* pkg/grpc/server.go calls it for each proposed resource with whose kind  *)
(* and name the plan updates fields: these are followed through the patches of    *)
(* the composition to the resources composed from it, and from those that  *)
(* are composites themselves one level further.                            *)
(*                                                                         *)
(* Added to ResourceWalk, whose tree the same function draws.  The tracing *)
(* and the tree read the map independently of each other, and a behaviour  *)
(* does one or the other.  What a lookup finds may be gone, or another     *)
(* content, at the next: names and old values are looked up separately.    *)
(***************************************************************************)
EXTENDS ResourceWalk

CONSTANTS
  KindOf, NameOf,   \* kind and name of each object, whatever its namespace
  ApiOf,            \* its apiVersion
  Begins,           \* the groups that the apiVersion of an object begins with
  Compositions,     \* what the composition of an object may be at any time:
                    \* sequences of [name, kind, api, group, patches], a patch
                    \* being [from, to] with paths as sequences
  Plans             \* the plans: the changes of each object's fields, as
                    \* [path, action]

ASSUME TypeAssumption ==
  /\ Object = DOMAIN KindOf /\ Object = DOMAIN NameOf
  /\ Object = DOMAIN ApiOf /\ Object = DOMAIN Begins
ASSUME PlanAssumption == \A p \in Plans : Object = DOMAIN p

Template == UNION {ToSet(comp) : comp \in Compositions}

ASSUME CompositionAssumption == Compositions \subseteq Seq(Template)

VARIABLE tracing

composedVars == <<vars, tracing>>

None == "none"   \* no resource: the template's own name stands

NoLookup == [on |-> FALSE, refs |-> << >>]

NoTrace == [plan |-> [o \in Object |-> {}], comp |-> << >>, depth |-> 0, source |-> None, changed |-> {},
            templates |-> << >>, matches |-> {}, fields |-> {}, lookup |-> NoLookup,
            descend |-> << >>, changes |-> {}]

-----------------------------------------------------------------------------
(* Matching.                                                               *)

(* Mutant: a patch follows the very field it names and no other.           *)
SamePath(changed, from) == changed = from

(* The same path, or one is inside the other.                              *)
matchesFieldPath(changed, from) == IsPrefix(changed, from) \/ IsPrefix(from, changed)

Matches(template, changed) ==
  UNION {{<<p.to, c>> : c \in {d \in changed : matchesFieldPath(d, p.from)}}
           : p \in ToSet(template.patches)}

(* A reference is taken for the template's when it has its kind, or an     *)
(* apiVersion that begins with its group.                                  *)
RefersTo(o, template) == KindOf[o] = template.kind \/ template.group \in Begins[o]

Updated(plan, o) == {f.path : f \in {g \in plan[o] : g.action = "update"}}

(* Mutant: the name is not compared.                                       *)
ChangedOfKind(plan, o) == UNION {Updated(plan, q) : q \in {p \in Object : KindOf[p] = KindOf[o]}}

(* What cannot be told from an object by kind and name, itself included:   *)
(* the objects of that kind in other groups, and in other namespaces.      *)
Namesakes(o) == {p \in Object : KindOf[p] = KindOf[o] /\ NameOf[p] = NameOf[o]}

(* The changes that are gathered for a resource: the updated fields of     *)
(* everything with its kind and name.                                      *)
ChangedFields(plan, o) == UNION {Updated(plan, p) : p \in Namesakes(o)}

-----------------------------------------------------------------------------

ComposedInit == Init /\ tracing = NoTrace

TracePipeline(t, comp, source, changed, depth) ==
  [t EXCEPT !.source = source, !.changed = changed, !.depth = depth, !.templates = comp]

(* The composition of the composite that was found, whatever it holds now; *)
(* the source of the patches is the proposed object, also for a claim.     *)
FindComposition ==
  /\ pc = "walk" /\ mode = "tree" /\ Len(stack) = 1 /\ ~Top.entered /\ tracing = NoTrace
  /\ \E plan \in Plans, comp \in Compositions :
       /\ ChangedFields(plan, proposed) # {}
       /\ tracing' = [TracePipeline(NoTrace, comp, proposed, ChangedFields(plan, proposed), 1)
                        EXCEPT !.plan = plan, !.comp = comp]
  /\ stack' = << >>
  /\ UNCHANGED <<mirrorVars, pc, mode, proposed, owned, found, touched>>

Traces(t) ==
  /\ pc = "walk" /\ stack = << >> /\ tracing # NoTrace
  /\ tracing' = t
  /\ UNCHANGED <<vars>>

(* traceResourcePatches, for the next template: the patches that read a    *)
(* changed field; a template without any is passed over.                   *)
NextTemplate ==
  /\ tracing.templates # << >> /\ tracing.matches = {} /\ tracing.fields = {}
  /\ LET found_ == Matches(Head(tracing.templates), tracing.changed) IN
     Traces([tracing EXCEPT !.matches = found_,
               !.templates = IF found_ = {} THEN Tail(@) ELSE @])

(* Mutant: the references of the proposed object, also further down.       *)
ParentIsProposed == proposed

Parent == tracing.source

(* The references of a composite as the map has it.                        *)
RefsOf(s) == IF cache[s] = 0 \/ s \in Claim THEN << >> ELSE Refs[s][cache[s]]

(* findComposedResource: the references of the live parent.                *)
LookUpParent ==
  /\ tracing.matches # {} \/ tracing.fields # {}
  /\ ~tracing.lookup.on
  /\ Traces([tracing EXCEPT !.lookup = [on |-> TRUE, refs |-> RefsOf(Parent)]])

(* A reference that the lookup stops at.                                   *)
Hits(o, template) == RefersTo(o, template) /\ LiveRef(o)

(* The next of them is another's, or not live.                             *)
SkipReference ==
  /\ tracing.lookup.refs # << >>
  /\ ~Hits(Head(tracing.lookup.refs), Head(tracing.templates))
  /\ Traces([tracing EXCEPT !.lookup.refs = Tail(@)])

Found == IF tracing.lookup.refs = << >> THEN None ELSE Head(tracing.lookup.refs)
LookupEnds ==
  /\ tracing.lookup.on
  /\ tracing.lookup.refs # << >> => Hits(Found, Head(tracing.templates))

(* The lookup was for a patch: the old value of the field it writes, that  *)
(* of the plan when nothing was found.                                     *)
OldValue ==
  /\ LookupEnds
  /\ \E match \in tracing.matches :
       Traces([tracing EXCEPT !.matches = @ \ {match}, !.lookup = NoLookup,
                 !.fields = @ \cup
                   {[path |-> match[1],
                     old |-> IF Found = None THEN << >> ELSE <<Found, cache[Found]>>]}])

(* The last lookup is for the name; the change is reported.                *)
ReportChange ==
  /\ LookupEnds /\ tracing.matches = {}
  /\ LET change == [template |-> Head(tracing.templates), named |-> Found,
                    fields |-> tracing.fields, source |-> tracing.source,
                    depth |-> tracing.depth]
     IN Traces([tracing EXCEPT !.templates = Tail(@), !.fields = {}, !.lookup = NoLookup,
                  !.changes = @ \cup {change},
                  !.descend = IF tracing.depth = 1 THEN Append(@, change) ELSE @])

TemplatesDone == tracing.templates = << >>

(* The name a change is reported under: the template's own when nothing    *)
(* was found.                                                              *)
ReportedName(change) ==
  IF change.named = None THEN change.template.name ELSE NameOf[change.named]

(* The live object that has the template's type and the reported name.     *)
Denotes(change, o) ==
  /\ KindOf[o] = change.template.kind /\ ApiOf[o] = change.template.api
  /\ NameOf[o] = ReportedName(change)

ChildXR(change) == {o \in Object : Denotes(change, o) /\ LiveRef(o)}

(* Step 5, for the next change: the composite it names, when it is live    *)
(* and has a composition, with the fields that were written as its changes.*)
Descend ==
  /\ TemplatesDone /\ tracing.descend # << >>
  /\ LET change == Head(tracing.descend)
         rest == [tracing EXCEPT !.descend = Tail(@)]
     IN \/ Traces(rest)
        \/ \E o \in ChildXR(change), comp \in Compositions :
             Traces(TracePipeline(rest, comp, o, {f.path : f \in change.fields}, 2))

TraceDone == TemplatesDone /\ tracing.descend = << >>

ResetComposed == Reset /\ tracing' = NoTrace

(* The walk, without the tracing: Answer waits for it.                     *)
WalkStep ==
  /\ \/ Begin \/ FindClaim \/ FindOwnedXR \/ Enter \/ NoComposition \/ NextRef \/ ReturnCall
     \/ TraceDone /\ Answer
     \/ Mirror
  /\ UNCHANGED tracing

ComposedNext == \/ FindComposition \/ NextTemplate \/ LookUpParent \/ SkipReference \/ OldValue
                \/ ReportChange \/ Descend \/ ResetComposed \/ WalkStep

ComposedSpec == ComposedInit /\ [][ComposedNext]_composedVars

-----------------------------------------------------------------------------
(* Properties.                                                             *)

At(depth) == {c \in tracing.changes : c.depth = depth}

(* The patches of a template that read a path in a set, or a path that is  *)
(* inside or around one.                                                   *)
Follow(t, paths) ==
  {p \in ToSet(t.patches) : \E c \in paths : IsPrefix(c, p.from) \/ IsPrefix(p.from, c)}

PathsOf(c) == {f.path : f \in c.fields}

(* The predicted changes are those that the patches make, and all of them, *)
(* whatever is written, appears or goes in the cluster while they are      *)
(* traced: each field a patch writes from a field that the plan updates on *)
(* the proposed resource is reported; one that does not follow from its    *)
(* fields follows from those of a resource with the same kind and name,    *)
(* never of another (server.go:188-203); and a change further down only    *)
(* below the resource that a reported type and name denote, from a field   *)
(* that was written there (compose.go:82-105).                             *)
ChangesFollowPatches ==
  pc = "done" /\ tracing # NoTrace =>
    /\ \A c \in At(1) :
         /\ c.source = proposed
         /\ {p.to : p \in Follow(c.template, Updated(tracing.plan, proposed))} \subseteq PathsOf(c)
         /\ \A path \in PathsOf(c) : \E o \in Object :
              /\ KindOf[o] = KindOf[proposed] /\ NameOf[o] = NameOf[proposed]
              /\ \E p \in Follow(c.template, Updated(tracing.plan, o)) : p.to = path
    /\ \A c \in At(2) : \E up \in At(1) :
         /\ Denotes(up, c.source)
         /\ PathsOf(c) = {p.to : p \in Follow(c.template, PathsOf(up))}
    /\ \A t \in ToSet(tracing.comp) :
         Follow(t, Updated(tracing.plan, proposed)) # {} => \E c \in At(1) : c.template = t

(* The references that can be taken for a template's.                      *)
Candidates(c) == {o \in ToSet(RefsOf(c.source)) : RefersTo(o, c.template)}

(* Name and old values of a change are of one resource, the one the parent *)
(* refers to, although they are looked up one after the other: when neither*)
(* the parent nor what it refers to changed meanwhile, and only one of its *)
(* references has the template's kind or group (compose.go:314, 357).      *)
NamesItsResource ==
  pc = "done" =>
    \A c \in tracing.changes :
      ({c.source} \cup Candidates(c)) \cap touched = {} =>
        /\ \A f \in c.fields :
             f.old = IF c.named = None THEN << >> ELSE <<c.named, cache[c.named]>>
        /\ \A o \in Candidates(c) :
             Candidates(c) = {o} /\ LiveRef(o) => c.named = o
        /\ c.named # None => c.named \in Candidates(c)
=============================================================================
