----------------------------- MODULE NestedRender -----------------------------
(***************************************************************************)
(* renderer.renderWithCrossplane: composites are rendered by the external  *)
(* `crossplane render`, level by level, because what a composition renders *)
(* may hold further composites.  After RenderDepth levels the loop ends.   *)
(*                                                                         *)
(* A graph says what is rendered from what:                                *)
(*   graph.output[x]    what crossplane render prints for x                *)
(*   graph.builtin[x]   what the built-in renderer makes of x, {} also     *)
(*                      when it fails                                      *)
(*   graph.found        the composites findComposition has an answer for   *)
(*   graph.nested       what has the apiVersion and kind of a composition  *)
(***************************************************************************)
EXTENDS Naturals, FiniteSets

CONSTANTS Rendered,      \* composites and managed resources
          TypeOf,        \* apiVersion and kind of each
          Graphs,        \* the graphs considered
          RenderDepth    \* maxDepth, 5 in the code

ASSUME RenderAssumption == RenderDepth \in Nat \ {0} /\ DOMAIN TypeOf = Rendered

VARIABLES graph,    \* chosen once
          roots,    \* the XRs and claims of the manifests
          depth, pending, nextPending, results,
          tried,    \* history: how each composite was rendered
          renderEnded

NoGraph == [output |-> <<>>, builtin |-> <<>>, found |-> {}, nested |-> {}]
NothingTried == [rendered |-> {}, failed |-> {}, unresolved |-> {}]

renderVars == <<graph, roots, depth, pending, nextPending, results, tried, renderEnded>>

RenderIdle ==
  /\ graph = NoGraph /\ roots = {}
  /\ depth = 0 /\ pending = {} /\ nextPending = {} /\ results = {}
  /\ tried = NothingTried /\ renderEnded = TRUE

RenderStart(xrs) ==
  /\ graph' \in Graphs
  /\ roots' = xrs /\ pending' = xrs
  /\ renderEnded' = FALSE
  /\ UNCHANGED <<depth, nextPending, results, tried>>

(* Documents that are no resource, and Results, are not among the output.  *)
parseRenderedOutput(x) == graph.output[x]

isCompositeKind(r) == r \in graph.nested

(* The status update of the XR itself comes back with the rest; it is told *)
(* by its type.                                                            *)
Echo(x, r) == TypeOf[r] = TypeOf[x]

TakeUp(x) ==
  /\ ~renderEnded /\ x \in pending
  /\ pending' = pending \ {x}
  /\ UNCHANGED <<graph, roots, depth, renderEnded>>

Unresolved(x) ==
  /\ TakeUp(x) /\ x \notin graph.found
  /\ results' = results \cup {x}
  /\ tried' = [tried EXCEPT !.unresolved = @ \cup {x}]
  /\ UNCHANGED nextPending

RenderOne(x) ==
  LET rendered == {r \in parseRenderedOutput(x) : ~Echo(x, r)} IN
  /\ TakeUp(x) /\ x \in graph.found
  /\ nextPending' = nextPending \cup {r \in rendered : isCompositeKind(r)}
  /\ results' = results \cup {r \in rendered : ~isCompositeKind(r)}
  /\ tried' = [tried EXCEPT !.rendered = @ \cup {x}]

(* The command fails, which is only told on stderr.                        *)
FallBack(x) ==
  /\ TakeUp(x) /\ x \in graph.found
  /\ results' = results \cup graph.builtin[x]
  /\ tried' = [tried EXCEPT !.failed = @ \cup {x}]
  /\ UNCHANGED nextPending

(* Mutant: the last level is not rendered.                                 *)
MoreLevelsButOne == depth + 2 < RenderDepth /\ nextPending # {}

MoreLevels == depth + 1 < RenderDepth /\ nextPending # {}

NextLevel ==
  /\ ~renderEnded /\ pending = {} /\ MoreLevels
  /\ depth' = depth + 1
  /\ pending' = nextPending /\ nextPending' = {}
  /\ UNCHANGED <<graph, roots, results, tried, renderEnded>>

(* What is pending still is dropped.                                       *)
EndRender ==
  /\ ~renderEnded /\ pending = {} /\ ~MoreLevels
  /\ renderEnded' = TRUE
  /\ UNCHANGED <<graph, roots, depth, pending, nextPending, results, tried>>

RenderNext ==
  \/ \E x \in pending : Unresolved(x) \/ RenderOne(x) \/ FallBack(x)
  \/ NextLevel
  \/ EndRender

(* One render, as a command makes it: it starts once, with some composites,*)
(* and RenderCommand adds nothing to its steps.                            *)
RenderBegins == roots = {} /\ \E xrs \in (SUBSET Rendered) \ {{}} : RenderStart(xrs)

RenderSpec == RenderIdle /\ [][RenderBegins \/ RenderNext]_renderVars

-----------------------------------------------------------------------------
(* The composites that come out of x, and its resources.                   *)
Children(x) == {r \in graph.output[x] : TypeOf[r] # TypeOf[x] /\ r \in graph.nested}
Leaves(x) == {r \in graph.output[x] : TypeOf[r] # TypeOf[x] /\ r \notin graph.nested}

(* The composites at the end of a chain of n of them.                      *)
Chain[n \in Nat] ==
  IF n = 0 THEN roots ELSE UNION {Children(x) : x \in Chain[n - 1] \cap graph.found}

(* When every composite could be rendered and no chain of them is longer   *)
(* than the limit, what hangs on the chains is in the result, nothing else *)
(* is, and no composite is left in it that has a composition.  A failed    *)
(* one is replaced by what the built-in renderer gives, nested or not, and *)
(* its chain ends; it never takes the others' resources with it            *)
(* (crossplane.go:99-151).                                                *)
RenderedIsReachable ==
  roots # {} /\ renderEnded =>
    LET reached == tried.rendered \cup tried.failed \cup tried.unresolved IN
       /\ roots \subseteq reached
       /\ reached \subseteq UNION {Chain[n] : n \in 0 .. RenderDepth - 1}
       /\ \A x \in tried.rendered :
            /\ Leaves(x) \subseteq results
            /\ Chain[RenderDepth] = {} => Children(x) \subseteq reached
       /\ \A x \in tried.unresolved : x \in results
       /\ results \subseteq tried.unresolved \cup (UNION {Leaves(x) : x \in tried.rendered})
                               \cup UNION {graph.builtin[x] : x \in tried.failed}
=============================================================================
