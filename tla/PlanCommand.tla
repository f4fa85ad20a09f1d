----------------------------- MODULE PlanCommand -----------------------------
(***************************************************************************)
(* `crossplane-validate plan` without the operator's plan: the comparison  *)
(* of two git refs, with --cloud followed by the cloud plan; and `plan     *)
(* --live --cloud`, a cloud plan of what the operator resolved.  Then      *)
(* plan.Render, and the exit code.                                         *)
(*                                                                         *)
(* Each managed resource has a file of its own.  A ref gives a file its    *)
(* content, 0 if it has no such file, Broken if it cannot be read.         *)
(***************************************************************************)
EXTENDS CloudPlan

CONSTANTS Issue,     \* what validation may object to
          Broken,    \* in place of the content of a file that cannot be read
          Nil        \* a nil *DiffResult

ASSUME NilAssumption == \A d \in SUBSET ({"create", "update", "delete"} \X Managed) : d # Nil

Refs == [Managed -> Content \cup {0, Broken}]
Formats == {"terminal", "markdown", "json"}
NothingShown == [changes |-> {}, cloud |-> {}, issues |-> {}, noChanges |-> FALSE]

VARIABLES pstage,
          opts,            \* the flags
          baseRef, targetRef,
          structDiff,      \* <<action, resource>> pairs, or Nil
          issues,
          shown,           \* what was written to stdout
          exit

commandVars == <<pstage, opts, baseRef, targetRef, structDiff, issues, shown, exit>>
planVars == <<commandVars, cloudVars>>

(* The flags; what only the end reads of them is chosen there.             *)
Options == [live : BOOLEAN, cloud : BOOLEAN, head : BOOLEAN, credentials : BOOLEAN,
            format : Formats, detailed : BOOLEAN]
NoOptions == [live |-> FALSE, cloud |-> FALSE, head |-> FALSE, credentials |-> FALSE,
              format |-> "terminal", detailed |-> FALSE]

PlanInit ==
  /\ pstage = "start" /\ structDiff = Nil /\ issues = {} /\ shown = NothingShown /\ exit = 0
  /\ \E live, cloudMode, head, credentials \in BOOLEAN :
       /\ live => cloudMode
       /\ opts = [NoOptions EXCEPT !.live = live, !.cloud = cloudMode, !.head = head,
                                   !.credentials = credentials]
  /\ baseRef \in Refs /\ targetRef \in Refs
  /\ opts.live => baseRef = NoSet
  /\ CloudIdle

PlanIdle ==
  /\ pstage = "off" /\ structDiff = Nil /\ issues = {} /\ shown = NothingShown /\ exit = 0
  /\ opts = NoOptions /\ baseRef = NoSet /\ targetRef = NoSet
  /\ CloudIdle

End(code) == pstage' = "ended" /\ exit' = code

Fails == End(1) /\ UNCHANGED <<opts, baseRef, targetRef, structDiff, issues, shown, cloudVars>>

(* ScanFromGitRef: an unreadable file of a ref is passed over; HEAD means  *)
(* the working tree, where it ends the scan.                               *)
ScanFromGitRef(ref) == [r \in Managed |-> IF ref[r] = Broken THEN 0 ELSE ref[r]]
ScanFails == opts.head /\ \E r \in Managed : targetRef[r] = Broken

(* Mutant: what the base lacks counts as unchanged.                        *)
ComputeKnown(base, target) ==
  {<<"delete", r>> : r \in In(base) \ In(target)}
    \cup {<<"update", r>> : r \in {q \in In(base) \cap In(target) : base[q] # target[q]}}

(* diff.Compute, by actions                                                *)
Compute(base, target) ==
  {<<"create", r>> : r \in In(target) \ In(base)}
    \cup {<<"delete", r>> : r \in In(base) \ In(target)}
    \cup {<<"update", r>> : r \in {q \in In(base) \cap In(target) : base[q] # target[q]}}

(* Scans, renders and compares; what is rendered here are the managed      *)
(* resources themselves.                                                   *)
Compare ==
  /\ pstage = "start" /\ ~opts.live
  /\ IF ScanFails THEN Fails
     ELSE /\ structDiff' = Compute(ScanFromGitRef(baseRef), ScanFromGitRef(targetRef))
          /\ pstage' = "cloud"
          /\ UNCHANGED <<opts, baseRef, targetRef, issues, shown, exit, cloudVars>>

(* The operator resolves what the manifests describe; when that is nothing *)
(* the command ends without a word.                                        *)
Resolve ==
  /\ pstage = "start" /\ opts.live
  /\ IF In(ScanFromGitRef(targetRef)) = {}
       THEN End(0) /\ UNCHANGED <<opts, baseRef, targetRef, structDiff, issues, shown, cloudVars>>
       ELSE /\ pstage' = "cloud"
            /\ UNCHANGED <<opts, baseRef, targetRef, structDiff, issues, shown, exit, cloudVars>>

HasCloudCredentials == opts.credentials

WantsCloudPlan == opts.cloud /\ (opts.live \/ HasCloudCredentials)

StartCloudPlan ==
  /\ pstage = "cloud" /\ cstage = "off" /\ WantsCloudPlan
  /\ CloudStart(~opts.live, ScanFromGitRef(baseRef), ScanFromGitRef(targetRef))
  /\ UNCHANGED commandVars

CloudStep == CloudNext /\ UNCHANGED commandVars

CloudPlanFails == pstage = "cloud" /\ cstage = "failed" /\ Fails

AddIssues ==
  /\ pstage = "cloud"
  /\ cstage = "done" \/ (cstage = "off" /\ ~WantsCloudPlan)
  /\ issues' \in IF opts.live THEN {{}} ELSE SUBSET Issue
  /\ pstage' = "print"
  /\ UNCHANGED <<opts, baseRef, targetRef, structDiff, shown, exit, cloudVars>>

HasCloudPlan == cstage = "done"
CloudChanges == {c \in cloudPlan.changes : c.action # "no-op"}
Diffs == IF structDiff = Nil THEN {} ELSE structDiff

(* Mutant: returns early whenever nothing changed in the manifests.        *)
renderTerminalEarly ==
  IF Diffs = {} THEN [NothingShown EXCEPT !.issues = issues, !.noChanges = (issues = {})]
  ELSE [changes |-> Diffs, issues |-> issues, noChanges |-> FALSE, cloud |-> CloudChanges]

renderTerminal ==
  IF structDiff = Nil \/ (Diffs = {} /\ ~HasCloudPlan)
    THEN [NothingShown EXCEPT !.issues = issues, !.noChanges = (issues = {})]
    ELSE [changes |-> Diffs, issues |-> issues, noChanges |-> FALSE,
          cloud |-> IF cloudPlan.hasChanges THEN CloudChanges ELSE {}]

renderMarkdown ==
  [changes |-> Diffs, issues |-> issues,
   cloud |-> IF cloudPlan.hasChanges THEN CloudChanges ELSE {},
   noChanges |-> Diffs = {} /\ ~cloudPlan.hasChanges /\ issues = {}]

(* Of a cloud plan the counts are given, which the model keeps as actions. *)
renderJSON ==
  [changes |-> Diffs, issues |-> issues, cloud |-> CloudChanges, noChanges |-> FALSE]

(* --detailed-exitcode is looked at in a comparison of refs only.          *)
ExitCode(detailed) == IF detailed /\ ~opts.live /\ Diffs # {} THEN 2 ELSE 0

PrintPlan ==
  /\ pstage = "print"
  /\ \E format \in Formats, detailed \in BOOLEAN :
       /\ opts' = [opts EXCEPT !.format = format, !.detailed = detailed]
       /\ shown' = CASE format = "markdown" -> renderMarkdown
                     [] format = "json" -> renderJSON
                     [] OTHER -> renderTerminal
       /\ End(ExitCode(detailed))
  /\ UNCHANGED <<baseRef, targetRef, structDiff, issues, cloudVars>>

PlanNext ==
  \/ Compare
  \/ Resolve
  \/ StartCloudPlan
  \/ CloudStep
  \/ CloudPlanFails
  \/ AddIssues
  \/ PrintPlan

PlanSpec == PlanInit /\ [][PlanNext]_planVars

-----------------------------------------------------------------------------
Ended == pstage = "ended"

(* A comparison of refs that ends without an error shows the difference    *)
(* between all it could read, the cloud plan's changes and the issues, in  *)
(* each format, and says that nothing changed only if there is none of     *)
(* these.  A live cloud plan has no structural diff, with which            *)
(* renderTerminal stops (render.go:77): that case is left out.             *)
NothingIsWithheld ==
  Ended /\ exit # 1 /\ ~opts.live =>
    /\ shown.changes = Compute(ScanFromGitRef(baseRef), ScanFromGitRef(targetRef))
    /\ HasCloudPlan => shown.cloud = CloudChanges
    /\ shown.issues = issues
    /\ shown.noChanges => Compute(ScanFromGitRef(baseRef), ScanFromGitRef(targetRef)) = {}
                          /\ CloudChanges = {} /\ issues = {}

(* A ref of which Convert makes at least one block.                        *)
HasConvertible(ref) == In(ScanFromGitRef(ref)) \cap Convertible # {}

(* What ends a comparison of refs with 1, and prints nothing that could be *)
(* taken for a plan: an unreadable working tree; with a cloud plan, its    *)
(* failure, to which it is bound when either ref has nothing to convert,   *)
(* so that the pull request that adds the first resources has no plan with *)
(* --cloud (main.go:146-153, converter.go:45-50).  Nothing else does.      *)
(* Otherwise --detailed-exitcode tells whether refs that are read          *)
(* completely hold the same resources, whatever the cloud plan found       *)
(* (main.go:176-180).                                                      *)
ExitTellsTheDifference ==
  Ended /\ ~opts.live =>
    LET readable == \A r \in Managed : Broken \notin {baseRef[r], targetRef[r]} IN
    /\ exit = 1 <=> ScanFails \/ (WantsCloudPlan /\ cstage # "done")
    /\ WantsCloudPlan /\ ~(HasConvertible(baseRef) /\ HasConvertible(targetRef)) => exit = 1
    /\ exit = 1 => shown = NothingShown
    /\ opts.detailed /\ readable /\ exit # 1 => (exit = 2 <=> baseRef # targetRef)
=============================================================================
