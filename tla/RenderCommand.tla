---------------------------- MODULE RenderCommand ----------------------------
(***************************************************************************)
(* `crossplane-validate render`: the scan of the given directories, then   *)
(* the rendering of the composites it found, by `crossplane render`.       *)
(***************************************************************************)
EXTENDS Manifests, NestedRender

CONSTANT XrsIn   \* XrsIn[f]: the composites of file f, in a tree where it holds manifests

ASSUME XrsAssumption == XrsIn \in [File -> SUBSET Rendered]

VARIABLE rstage

commandRenderVars == <<rstage, scanVars, renderVars>>

RenderCommandIdle == rstage = "off" /\ ScanIdle /\ RenderIdle

RenderCommandInit == rstage = "scan" /\ ScanInit /\ RenderIdle

XrsFound == UNION {XrsIn[f] : f \in {g \in Read : tree.kind[g] = "crossplane"}}

ScanStep == rstage = "scan" /\ ScanNext /\ UNCHANGED <<rstage, renderVars>>

(* A scan that fails ends the command, and so does one without composites, *)
(* for what is modelled here: managed resources are printed as they are.   *)
RenderFound ==
  /\ rstage = "scan" /\ scanning \in {"done", "failed"}
  /\ IF scanning = "failed" \/ XrsFound = {} THEN rstage' = "ended" /\ UNCHANGED renderVars
     ELSE rstage' = "render" /\ RenderStart(XrsFound)
  /\ UNCHANGED scanVars

RenderStep == rstage = "render" /\ RenderNext /\ UNCHANGED <<rstage, scanVars>>

PrintRendered ==
  /\ rstage = "render" /\ renderEnded
  /\ rstage' = "ended"
  /\ UNCHANGED <<scanVars, renderVars>>

RenderCommandNext == ScanStep \/ RenderFound \/ RenderStep \/ PrintRendered
=============================================================================
