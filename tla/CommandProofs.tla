----------------------------- MODULE CommandProofs -----------------------------
(***************************************************************************)
(* Theorems about the commands of the command line: PlanCommand, for any   *)
(* number of resources, contents, schemas and validation issues;           *)
(* LiveClient, for any number of operator pods; LintTools, for any number  *)
(* of processes, tools and blocks; NestedRender, for any graph of what is  *)
(* rendered from what; Validation, for values and schemas of any shape;    *)
(* Manifests, for any directories, files and kustomizations; and, at the   *)
(* end, Cli, where each of them is what a process does when it runs that   *)
(* command.                                                                *)
(***************************************************************************)
EXTENDS Cli, Induction, FiniteSetTheorems

-----------------------------------------------------------------------------
(***************************************************************************)
(* `plan`: what a comparison finds and what is shown of it.                *)
(***************************************************************************)

(* What a comparison of refs must find.                                    *)
Difference == Compute(ScanFromGitRef(baseRef), ScanFromGitRef(targetRef))

StageInv ==
  /\ opts \in Options /\ baseRef \in Refs /\ targetRef \in Refs
  /\ pstage \in {"start", "cloud", "print", "ended"} /\ exit \in {0, 1, 2}
  /\ pstage = "start" => cstage = "off"
  /\ pstage \in {"print", "ended"} => cstage \in {"off", "done", "failed"}
  /\ pstage = "print" => cstage # "failed"
  /\ pstage # "ended" => exit = 0 /\ shown = NothingShown

(* The counts of a cloud plan are those of its changes; there is none yet  *)
(* before the tool has planned.                                            *)
CountInv ==
  /\ cloudPlan.hasChanges <=> CloudChanges # {}
  /\ cstage # "done" => CloudChanges = {}

DiffInv ==
  ~opts.live =>
    /\ pstage \in {"cloud", "print"} => structDiff = Difference /\ ~ScanFails
    /\ Ended /\ exit = 1 => shown = NothingShown /\ (cstage = "failed" \/ ScanFails)
    /\ Ended /\ exit # 1 => ~ScanFails /\ cstage # "failed"
    /\ Ended /\ exit # 1 /\ opts.detailed => (exit = 2 <=> Difference # {})

PlanInv == StageInv /\ CountInv /\ DiffInv /\ NothingIsWithheld

-----------------------------------------------------------------------------
LEMMA DifferenceIsNotNil == Difference # Nil
BY NilAssumption DEF Difference, Compute, In

LEMMA PlanInitInv == PlanInit => PlanInv
<1> SUFFICES ASSUME PlanInit PROVE PlanInv
  OBVIOUS
<1>1. StageInv
  BY DEF PlanInit, StageInv, CloudIdle, Options, NoOptions, Formats
<1>2. CountInv
  BY DEF PlanInit, CountInv, CloudIdle, CloudChanges, NoPlan
<1>3. DiffInv /\ NothingIsWithheld
  BY DEF PlanInit, DiffInv, NothingIsWithheld, Ended
<1>4. QED
  BY <1>1, <1>2, <1>3 DEF PlanInv

(* Only the tool's plan changes what the cloud plan holds, and only while  *)
(* the command waits for it.                                               *)
LEMMA CloudCounts ==
  ASSUME CountInv, CloudNext
  PROVE  CountInv'
<1>1. CASE PlanAndShow
  <2>1. PICK actions : cloudPlan' = parsePlanJSON(actions)
    BY <1>1 DEF PlanAndShow
  <2>2. cloudPlan'.hasChanges <=> \E c \in cloudPlan'.changes : c.action # "no-op"
    BY <2>1 DEF parsePlanJSON
  <2>3. cstage' = "done"
    BY <1>1 DEF PlanAndShow
  <2>4. QED
    BY <2>2, <2>3 DEF CountInv, CloudChanges
<1>2. CASE \/ \E r \in toConvert : ConvertResource(r)
           \/ Converted \/ TofuInit
           \/ \E b \in toImport : ImportResource(b)
           \/ ToolFails
  <2>1. UNCHANGED cloudPlan /\ cstage # "done"
    BY <1>2 DEF ConvertResource, Converted, TofuInit, ImportResource, ToolFails, CloudFails
  <2>2. QED
    BY <2>1 DEF CountInv, CloudChanges
<1>3. QED
  BY <1>1, <1>2 DEF CloudNext

LEMMA CloudRuns ==
  ASSUME CloudNext
  PROVE  cstage \notin {"off", "done", "failed"}
BY DEF CloudNext, ConvertResource, Converted, TofuInit, ImportResource, PlanAndShow, ToolFails

LEMMA CloudStepKeeps ==
  ASSUME PlanInv, CloudStep
  PROVE  PlanInv'
<1>1. CloudNext /\ UNCHANGED commandVars
  BY DEF CloudStep
<1>2. pstage = "cloud"
  BY <1>1, CloudRuns DEF PlanInv, StageInv
<1>3. StageInv' /\ DiffInv' /\ NothingIsWithheld'
  BY <1>1, <1>2 DEF PlanInv, StageInv, DiffInv, NothingIsWithheld, Ended, Difference,
                    ScanFails, commandVars
<1>4. QED
  BY <1>1, <1>3, CloudCounts DEF PlanInv

LEMMA CompareStep ==
  ASSUME PlanInv, Compare
  PROVE  PlanInv'
<1>1. /\ pstage = "start" /\ cstage = "off" /\ ~opts.live /\ shown = NothingShown /\ exit = 0
      /\ UNCHANGED <<opts, baseRef, targetRef, issues, shown, cloudVars>>
  BY DEF Compare, Fails, PlanInv, StageInv
<1>2. CountInv'
  BY <1>1 DEF PlanInv, CountInv, CloudChanges, cloudVars
<1>3. CASE ScanFails
  <2>1. pstage' = "ended" /\ exit' = 1
    BY <1>3 DEF Compare, Fails, End
  <2>2. StageInv' /\ DiffInv' /\ NothingIsWithheld'
    BY <1>1, <1>3, <2>1 DEF PlanInv, StageInv, DiffInv, NothingIsWithheld, Ended, ScanFails,
                            cloudVars
  <2>3. QED
    BY <1>2, <2>2 DEF PlanInv
<1>4. CASE ~ScanFails
  <2>1. pstage' = "cloud" /\ exit' = 0 /\ structDiff' = Difference
    BY <1>1, <1>4 DEF Compare, Difference
  <2>2. StageInv' /\ DiffInv' /\ NothingIsWithheld'
    BY <1>1, <1>4, <2>1 DEF PlanInv, StageInv, DiffInv, NothingIsWithheld, Ended, ScanFails,
                            Difference, cloudVars
  <2>3. QED
    BY <1>2, <2>2 DEF PlanInv
<1>5. QED
  BY <1>3, <1>4

LEMMA ResolveStep ==
  ASSUME PlanInv, Resolve
  PROVE  PlanInv'
<1>1. /\ pstage = "start" /\ cstage = "off" /\ opts.live /\ shown = NothingShown /\ exit = 0
      /\ UNCHANGED <<opts, baseRef, targetRef, structDiff, issues, shown, cloudVars>>
      /\ pstage' \in {"cloud", "ended"} /\ exit' = 0
  BY DEF Resolve, PlanInv, StageInv, End
<1>2. QED
  BY <1>1 DEF PlanInv, StageInv, CountInv, CloudChanges, DiffInv, NothingIsWithheld, Ended,
              cloudVars

LEMMA StartCloudPlanStep ==
  ASSUME PlanInv, StartCloudPlan
  PROVE  PlanInv'
<1>1. /\ pstage = "cloud" /\ UNCHANGED commandVars /\ UNCHANGED cloudPlan
      /\ cstage = "off" /\ cstage' \in {"convertTarget", "convertBase"}
  BY DEF StartCloudPlan, CloudStart
<1>2. QED
  BY <1>1 DEF PlanInv, StageInv, CountInv, CloudChanges, DiffInv, NothingIsWithheld, Ended,
              Difference, ScanFails, commandVars

LEMMA CloudPlanFailsStep ==
  ASSUME PlanInv, CloudPlanFails
  PROVE  PlanInv'
<1>1. /\ pstage = "cloud" /\ cstage = "failed" /\ pstage' = "ended" /\ exit' = 1
      /\ UNCHANGED <<opts, baseRef, targetRef, structDiff, issues, shown, cloudVars>>
      /\ shown = NothingShown
  BY DEF CloudPlanFails, Fails, End, PlanInv, StageInv
<1>2. QED
  BY <1>1 DEF PlanInv, StageInv, CountInv, CloudChanges, DiffInv, NothingIsWithheld, Ended,
              cloudVars

LEMMA AddIssuesStep ==
  ASSUME PlanInv, AddIssues
  PROVE  PlanInv'
<1>1. /\ pstage = "cloud" /\ cstage \in {"off", "done"} /\ pstage' = "print"
      /\ UNCHANGED <<opts, baseRef, targetRef, structDiff, shown, exit, cloudVars>>
  BY DEF AddIssues
<1>2. QED
  BY <1>1 DEF PlanInv, StageInv, CountInv, CloudChanges, DiffInv, NothingIsWithheld, Ended,
              Difference, ScanFails, cloudVars

(* The three formats.                                                      *)
Complete(s) ==
  /\ s.changes = Difference
  /\ HasCloudPlan => s.cloud = CloudChanges
  /\ s.issues = issues
  /\ s.noChanges => Difference = {} /\ CloudChanges = {} /\ issues = {}

LEMMA FormatsAreComplete ==
  ASSUME CountInv, structDiff = Difference
  PROVE  Complete(renderTerminal) /\ Complete(renderMarkdown) /\ Complete(renderJSON)
<1>1. structDiff # Nil /\ Diffs = Difference
  BY DifferenceIsNotNil DEF Diffs
<1>2. (IF cloudPlan.hasChanges THEN CloudChanges ELSE {}) = CloudChanges
  BY DEF CountInv
<1>3. Complete(renderTerminal)
  <2>1. CASE Diffs = {} /\ ~HasCloudPlan
    <3>1. renderTerminal = [NothingShown EXCEPT !.issues = issues, !.noChanges = (issues = {})]
      BY <2>1 DEF renderTerminal
    <3>2. /\ renderTerminal.changes = {} /\ renderTerminal.issues = issues
          /\ renderTerminal.noChanges => issues = {}
      BY <3>1 DEF NothingShown
    <3>3. CloudChanges = {}
      BY <2>1 DEF HasCloudPlan, CountInv
    <3>4. QED
      BY <1>1, <2>1, <3>2, <3>3 DEF Complete
  <2>2. CASE ~(Diffs = {} /\ ~HasCloudPlan)
    <3>1. renderTerminal = [changes |-> Diffs, issues |-> issues, noChanges |-> FALSE,
                            cloud |-> CloudChanges]
      BY <1>1, <1>2, <2>2 DEF renderTerminal
    <3>2. QED
      BY <1>1, <3>1 DEF Complete
  <2>3. QED
    BY <2>1, <2>2
<1>4. Complete(renderMarkdown)
  <2>1. /\ renderMarkdown.changes = Diffs /\ renderMarkdown.issues = issues
        /\ renderMarkdown.cloud = CloudChanges
        /\ renderMarkdown.noChanges <=> Diffs = {} /\ ~cloudPlan.hasChanges /\ issues = {}
    BY <1>2 DEF renderMarkdown
  <2>2. QED
    BY <1>1, <2>1 DEF Complete, CountInv
<1>5. Complete(renderJSON)
  BY <1>1 DEF renderJSON, Complete
<1>6. QED
  BY <1>3, <1>4, <1>5

LEMMA PrintPlanStep ==
  ASSUME PlanInv, PrintPlan
  PROVE  PlanInv'
<1>1. PICK format \in Formats, detailed \in BOOLEAN :
        /\ opts' = [opts EXCEPT !.format = format, !.detailed = detailed]
        /\ shown' \in {renderTerminal, renderMarkdown, renderJSON}
        /\ pstage' = "ended" /\ exit' = ExitCode(detailed)
  BY DEF PrintPlan, End
<1>2. /\ pstage = "print" /\ UNCHANGED <<baseRef, targetRef, structDiff, issues, cloudVars>>
      /\ cstage \in {"off", "done"} /\ StageInv /\ CountInv /\ DiffInv
  BY DEF PrintPlan, PlanInv, StageInv
<1>3. /\ opts' \in Options /\ opts'.live = opts.live /\ opts'.head = opts.head
      /\ opts'.detailed = detailed
  BY <1>1, <1>2 DEF StageInv, Options
<1>4. exit' \in {0, 2}
  BY <1>1 DEF ExitCode
<1>5. StageInv' /\ CountInv'
  BY <1>1, <1>2, <1>3, <1>4 DEF StageInv, CountInv, CloudChanges, cloudVars
<1>6. Difference' = Difference /\ (ScanFails' <=> ScanFails) /\ CloudChanges' = CloudChanges
  BY <1>2, <1>3 DEF Difference, ScanFails, CloudChanges, cloudVars
<1>7. ASSUME ~opts.live
      PROVE  /\ structDiff = Difference /\ ~ScanFails /\ Complete(shown')
             /\ detailed => (exit' = 2 <=> Difference # {})
  <2>1. structDiff = Difference /\ ~ScanFails
    BY <1>2, <1>7 DEF DiffInv
  <2>2. Complete(shown')
    BY <1>1, <1>2, <2>1, FormatsAreComplete
  <2>3. detailed => (exit' = 2 <=> Difference # {})
    BY <1>1, <1>7, <2>1, DifferenceIsNotNil DEF ExitCode, Diffs
  <2>4. QED
    BY <2>1, <2>2, <2>3
<1>8. DiffInv'
  BY <1>1, <1>2, <1>3, <1>4, <1>6, <1>7 DEF DiffInv, Ended, cloudVars
<1>9. NothingIsWithheld'
  BY <1>1, <1>2, <1>3, <1>6, <1>7 DEF NothingIsWithheld, Complete, Difference, HasCloudPlan,
                                      cloudVars
<1>10. QED
  BY <1>5, <1>8, <1>9 DEF PlanInv

LEMMA PlanNextInv == PlanInv /\ [PlanNext]_planVars => PlanInv'
<1> SUFFICES ASSUME PlanInv, [PlanNext]_planVars PROVE PlanInv'
  OBVIOUS
<1>1. CASE PlanNext
  BY <1>1, CompareStep, ResolveStep, StartCloudPlanStep, CloudStepKeeps, CloudPlanFailsStep,
     AddIssuesStep, PrintPlanStep DEF PlanNext
<1>2. CASE UNCHANGED planVars
  BY <1>2 DEF planVars, commandVars, cloudVars, PlanInv, StageInv, CountInv, CloudChanges,
              DiffInv, NothingIsWithheld, Ended, Difference, ScanFails, HasCloudPlan
<1>3. QED
  BY <1>1, <1>2

LEMMA PlanInvariance == PlanSpec => []PlanInv
BY PlanInitInv, PlanNextInv, PTL DEF PlanSpec

-----------------------------------------------------------------------------
(* A comparison of refs that ends well shows every difference, every cloud *)
(* change and every issue, in each of the three formats, and says that     *)
(* nothing changed only when there is none (main.go:46-182, render.go).    *)
THEOREM PlansAreComplete == PlanSpec => []NothingIsWithheld
<1>1. PlanInv => NothingIsWithheld
  BY DEF PlanInv
<1>2. QED
  BY <1>1, PlanInvariance, PTL

LEMMA NoDifference ==
  ASSUME baseRef \in Refs, targetRef \in Refs,
         \A r \in Managed : Broken \notin {baseRef[r], targetRef[r]}
  PROVE  Difference # {} <=> baseRef # targetRef
<1>1. /\ \A r \in Managed : ScanFromGitRef(baseRef)[r] = baseRef[r]
      /\ \A r \in Managed : ScanFromGitRef(targetRef)[r] = targetRef[r]
  BY DEF ScanFromGitRef
<1>2. baseRef = targetRef <=> \A r \in Managed : baseRef[r] = targetRef[r]
  BY DEF Refs
<1>3. ASSUME \A r \in Managed : baseRef[r] = targetRef[r]
      PROVE  Difference = {}
  BY <1>1, <1>3 DEF Difference, Compute, In
<1>4. ASSUME NEW r \in Managed, baseRef[r] # targetRef[r]
      PROVE  Difference # {}
  <2>1. CASE baseRef[r] = 0
    <3>1. <<"create", r>> \in Difference
      BY <1>1, <1>4, <2>1 DEF Difference, Compute, In
    <3>2. QED
      BY <3>1
  <2>2. CASE targetRef[r] = 0
    <3>1. <<"delete", r>> \in Difference
      BY <1>1, <1>4, <2>2 DEF Difference, Compute, In
    <3>2. QED
      BY <3>1
  <2>3. CASE baseRef[r] # 0 /\ targetRef[r] # 0
    <3>1. <<"update", r>> \in Difference
      BY <1>1, <1>4, <2>3 DEF Difference, Compute, In
    <3>2. QED
      BY <3>1
  <2>4. QED
    BY <2>1, <2>2, <2>3
<1>5. QED
  BY <1>2, <1>3, <1>4

-----------------------------------------------------------------------------
(* The cloud plan.  The blocks of a side stand for its convertible         *)
(* resources, those of rest left out.                                      *)
SideOK(blocks, set, rest) ==
  /\ \A b \in blocks : /\ b.key \in (In(set) \ rest) \cap Convertible
                       /\ b.content = set[b.key]
                       /\ b.importable <=> b.key \in Importable
  /\ \A r \in (In(set) \ rest) \cap Convertible : \E b \in blocks : b.key = r

ConvertInv ==
  /\ cstage \in {"off", "convertBase", "convertTarget", "init", "import", "done", "failed"}
  /\ cstage = "off" => baseBlocks = {} /\ targetBlocks = {}
  /\ cstage = "convertBase" =>
       SideOK(baseBlocks, basis, toConvert) /\ targetBlocks = {} /\ toConvert \subseteq In(basis)
  /\ cstage = "convertTarget" =>
       /\ SideOK(baseBlocks, basis, {})
       /\ SideOK(targetBlocks, wanted, toConvert) /\ toConvert \subseteq In(wanted)
  /\ cstage \in {"init", "import", "done"} =>
       SideOK(baseBlocks, basis, {}) /\ SideOK(targetBlocks, wanted, {})
  /\ cstage \in {"off", "convertBase", "convertTarget", "init"} => tfState = << >>

(* As long as every download succeeded, one schema names all blocks.       *)
SchemaInv ==
  "schema" \notin faults =>
    \A b \in baseBlocks \cup targetBlocks :
      schemaCache # Derived /\ b.addr = mapResourceType(b.key, schemaCache)

Keyed == \A a, b \in baseBlocks \cup targetBlocks : a.addr = b.addr => a.key = b.key

Imported(b) == b.importable /\ cloud[b.key] # 0 /\ \E t \in targetBlocks : t.addr = b.addr

(* What was imported, and that nothing that could be was missed so far.    *)
ImportInv ==
  cstage = "import" /\ faults = {} /\ Keyed =>
    /\ \A a \in DOMAIN tfState : \E b \in baseBlocks :
         b.addr = a /\ tfState[a] = b.key /\ cloud[b.key] # 0
    /\ \A b \in baseBlocks \ toImport : Imported(b) => b.addr \in DOMAIN tfState
    /\ toImport \subseteq baseBlocks

CloudInv == ConvertInv /\ SchemaInv /\ ImportInv /\ CloudPlanMatchesCloud

LEMMA CloudIdleInv == PlanInit => CloudInv
BY DEF PlanInit, CloudIdle, CloudInv, ConvertInv, SchemaInv, ImportInv, CloudPlanMatchesCloud

LEMMA CloudStartStep ==
  ASSUME CloudInv, NEW hasBase \in BOOLEAN, NEW base, NEW target,
         CloudStart(hasBase, base, target)
  PROVE  CloudInv'
<1>1. /\ baseBlocks' = {} /\ targetBlocks' = {} /\ tfState' = << >> /\ wanted' = target
      /\ IF hasBase THEN cstage' = "convertBase" /\ toConvert' = In(base) /\ basis' = base
         ELSE cstage' = "convertTarget" /\ toConvert' = In(target) /\ basis' = NoSet
  BY DEF CloudStart, CloudInv, ConvertInv
<1>2. SideOK({}, target, In(target)) /\ SideOK({}, base, In(base)) /\ SideOK({}, NoSet, {})
  BY DEF SideOK, In, NoSet
<1>3. ConvertInv'
  BY <1>1, <1>2 DEF ConvertInv
<1>4. SchemaInv' /\ ImportInv' /\ CloudPlanMatchesCloud'
  BY <1>1 DEF SchemaInv, ImportInv, CloudPlanMatchesCloud
<1>5. QED
  BY <1>3, <1>4 DEF CloudInv

(* One more resource is converted.                                         *)
LEMMA SideGrows ==
  ASSUME NEW blocks, NEW set, NEW rest, SideOK(blocks, set, rest),
         NEW r \in rest, r \in In(set), NEW s,
         NEW more, more = IF r \in Convertible THEN {Block(r, set, s)} ELSE {}
  PROVE  SideOK(blocks \cup more, set, rest \ {r})
<1>1. /\ Block(r, set, s).key = r /\ Block(r, set, s).content = set[r]
      /\ Block(r, set, s).importable <=> r \in Importable
  BY DEF Block, resolveImportID
<1>2. \A b \in more : /\ b.key = r /\ r \in Convertible /\ b.content = set[r]
                      /\ b.importable <=> r \in Importable
  BY <1>1
<1>3. r \in Convertible => \E b \in more : b.key = r
  BY <1>1
<1>4. QED
  BY <1>2, <1>3 DEF SideOK

LEMMA ConvertStep ==
  ASSUME CloudInv, NEW r \in toConvert, ConvertResource(r)
  PROVE  CloudInv'
<1>1. PICK s \in LoadProviderSchema :
        LET block == IF r \in Convertible THEN {Block(r, Side, s)} ELSE {} IN
        /\ toConvert' = toConvert \ {r}
        /\ schemaCache' = s
        /\ baseBlocks' = IF cstage = "convertBase" THEN baseBlocks \cup block ELSE baseBlocks
        /\ targetBlocks' = IF cstage = "convertTarget" THEN targetBlocks \cup block
                           ELSE targetBlocks
        /\ faults' = IF s = Derived THEN faults \cup {"schema"} ELSE faults
  BY DEF ConvertResource
<1>2. cstage \in {"convertBase", "convertTarget"} /\ UNCHANGED <<cstage, cloud, basis, wanted,
                                                               toImport, tfState, cloudPlan>>
  BY DEF ConvertResource
<1> DEFINE more == IF r \in Convertible THEN {Block(r, Side, s)} ELSE {}
<1>3. ConvertInv'
  <2>1. CASE cstage = "convertBase"
    <3>1. Side = basis /\ SideOK(baseBlocks, basis, toConvert) /\ r \in In(basis)
      BY <2>1 DEF Side, CloudInv, ConvertInv
    <3>2. SideOK(baseBlocks \cup more, basis, toConvert \ {r})
      BY <3>1, SideGrows
    <3>3. baseBlocks' = baseBlocks \cup more /\ targetBlocks' = targetBlocks
      BY <1>1, <2>1
    <3>4. QED
      BY <1>1, <1>2, <2>1, <3>2, <3>3 DEF CloudInv, ConvertInv
  <2>2. CASE cstage = "convertTarget"
    <3>1. Side = wanted /\ SideOK(targetBlocks, wanted, toConvert) /\ r \in In(wanted)
      BY <2>2 DEF Side, CloudInv, ConvertInv
    <3>2. SideOK(targetBlocks \cup more, wanted, toConvert \ {r})
      BY <3>1, SideGrows
    <3>3. targetBlocks' = targetBlocks \cup more /\ baseBlocks' = baseBlocks
      BY <1>1, <2>2
    <3>4. QED
      BY <1>1, <1>2, <2>2, <3>2, <3>3 DEF CloudInv, ConvertInv
  <2>3. QED
    BY <1>2, <2>1, <2>2
<1>4. SchemaInv'
  <2> SUFFICES ASSUME "schema" \notin faults', NEW b \in baseBlocks' \cup targetBlocks'
               PROVE  schemaCache' # Derived /\ b.addr = mapResourceType(b.key, schemaCache')
    BY DEF SchemaInv, mapResourceType
  <2>1. s # Derived /\ "schema" \notin faults /\ schemaCache' = s
    BY <1>1
  <2>2. CASE b \in baseBlocks \cup targetBlocks
    <3>1. schemaCache # Derived /\ b.addr = mapResourceType(b.key, schemaCache)
      BY <2>1, <2>2 DEF CloudInv, SchemaInv
    <3>2. s = schemaCache
      BY <3>1 DEF LoadProviderSchema
    <3>3. QED
      BY <2>1, <3>1, <3>2
  <2>3. CASE b \notin baseBlocks \cup targetBlocks
    <3>1. b = Block(r, Side, s)
      BY <1>1, <2>3
    <3>2. QED
      BY <2>1, <3>1 DEF Block
  <2>4. QED
    BY <2>2, <2>3
<1>5. ImportInv' /\ CloudPlanMatchesCloud'
  BY <1>2 DEF ImportInv, CloudPlanMatchesCloud
<1>6. QED
  BY <1>3, <1>4, <1>5 DEF CloudInv

LEMMA ConvertedStep ==
  ASSUME CloudInv, Converted \/ ToolFails
  PROVE  CloudInv'
<1>1. /\ cstage \in {"convertBase", "convertTarget", "init", "import"}
      /\ cstage' \in {"failed", "convertTarget", "init"}
      /\ UNCHANGED <<cloud, basis, wanted, schemaCache, baseBlocks, targetBlocks, toImport,
                     tfState, cloudPlan, faults>>
  BY DEF Converted, ToolFails, CloudFails
<1>2. ConvertInv'
  <2>1. CASE cstage' = "failed"
    BY <2>1 DEF ConvertInv
  <2>2. CASE cstage' = "convertTarget"
    <3>1. /\ cstage = "convertBase" /\ toConvert = {} /\ toConvert' = In(wanted)
      BY <1>1, <2>2 DEF Converted, ToolFails, CloudFails
    <3>2. SideOK(baseBlocks, basis, {}) /\ targetBlocks = {} /\ tfState = << >>
      BY <3>1 DEF CloudInv, ConvertInv
    <3>3. SideOK({}, wanted, In(wanted))
      BY DEF SideOK
    <3>4. QED
      BY <1>1, <2>2, <3>1, <3>2, <3>3 DEF ConvertInv
  <2>3. CASE cstage' = "init"
    <3>1. cstage = "convertTarget" /\ toConvert = {}
      BY <1>1, <2>3 DEF Converted, ToolFails, CloudFails
    <3>2. QED
      BY <1>1, <2>3, <3>1 DEF CloudInv, ConvertInv
  <2>4. QED
    BY <1>1, <2>1, <2>2, <2>3
<1>3. SchemaInv'
  BY <1>1 DEF CloudInv, SchemaInv
<1>4. ImportInv' /\ CloudPlanMatchesCloud'
  BY <1>1 DEF ImportInv, CloudPlanMatchesCloud
<1>5. QED
  BY <1>2, <1>3, <1>4 DEF CloudInv

LEMMA TofuInitStep ==
  ASSUME CloudInv, TofuInit
  PROVE  CloudInv'
<1>1. /\ cstage = "init" /\ cstage' = "import"
      /\ toImport' = {b \in baseBlocks : b.importable}
      /\ UNCHANGED <<basis, wanted, schemaCache, toConvert, baseBlocks, targetBlocks,
                     tfState, cloudPlan, faults>>
  BY DEF TofuInit
<1>2. tfState = << >> /\ DOMAIN tfState = {}
  BY <1>1 DEF CloudInv, ConvertInv
<1>3. ConvertInv' /\ SchemaInv'
  BY <1>1 DEF CloudInv, ConvertInv, SchemaInv
<1>4. ImportInv'
  BY <1>1, <1>2 DEF ImportInv, Imported
<1>5. CloudPlanMatchesCloud'
  BY <1>1 DEF CloudPlanMatchesCloud
<1>6. QED
  BY <1>3, <1>4, <1>5 DEF CloudInv

LEMMA ImportStep ==
  ASSUME CloudInv, NEW b \in toImport, ImportResource(b)
  PROVE  CloudInv'
<1>1. /\ cstage = "import" /\ toImport' = toImport \ {b}
      /\ UNCHANGED <<cstage, cloud, basis, wanted, schemaCache, toConvert, baseBlocks,
                     targetBlocks, cloudPlan>>
      /\ faults' \in {faults, faults \cup {"import"}}
  BY DEF ImportResource
<1>2. ConvertInv' /\ SchemaInv' /\ CloudPlanMatchesCloud'
  BY <1>1 DEF CloudInv, ConvertInv, SchemaInv, CloudPlanMatchesCloud
<1>3. ImportInv'
  <2> SUFFICES ASSUME faults' = {}, Keyed'
               PROVE  ImportInv'
    BY DEF ImportInv
  <2>1. faults = {} /\ Keyed
    BY <1>1 DEF Keyed
  <2>2. /\ \A a \in DOMAIN tfState : \E c \in baseBlocks :
             c.addr = a /\ tfState[a] = c.key /\ cloud[c.key] # 0
        /\ \A c \in baseBlocks \ toImport : Imported(c) => c.addr \in DOMAIN tfState
        /\ b \in baseBlocks /\ toImport \subseteq baseBlocks
    BY <1>1, <2>1 DEF CloudInv, ImportInv
  <2>3. CASE CanImport(b) /\ tfState' = With(tfState, b.addr, b.key)
    <3>1. /\ DOMAIN tfState' = DOMAIN tfState \cup {b.addr}
          /\ \A a \in DOMAIN tfState' : tfState'[a] = IF a = b.addr THEN b.key ELSE tfState[a]
          /\ cloud[b.key] # 0
      BY <2>3 DEF With, CanImport
    <3>2. \A a \in DOMAIN tfState' : \E c \in baseBlocks :
            c.addr = a /\ tfState'[a] = c.key /\ cloud[c.key] # 0
      BY <2>2, <3>1
    <3>3. \A c \in baseBlocks \ toImport' : Imported(c) => c.addr \in DOMAIN tfState'
      BY <1>1, <2>2, <3>1
    <3>4. QED
      BY <1>1, <2>2, <3>2, <3>3 DEF ImportInv, Imported
  <2>4. CASE ~CanImport(b) /\ UNCHANGED tfState
    <3>1. Imported(b) => b.addr \in DOMAIN tfState
      BY <2>4 DEF CanImport, Imported
    <3>2. \A c \in baseBlocks \ toImport' : Imported(c) => c.addr \in DOMAIN tfState'
      BY <1>1, <2>2, <2>4, <3>1
    <3>3. QED
      BY <1>1, <2>2, <2>4, <3>2 DEF ImportInv, Imported
  <2>5. QED
    BY <2>3, <2>4 DEF ImportResource
<1>4. QED
  BY <1>2, <1>3 DEF CloudInv

(* What the tool may answer for a block of a resource that the base could  *)
(* name: what is really the case.                                          *)
LEMMA ActionsAreTrue ==
  ASSUME CloudInv, cstage = "import", toImport = {}, faults = {}, Keyed,
         NEW t \in targetBlocks,
         t.key \in In(basis) \cap In(wanted) \cap Convertible \cap Importable,
         NEW a \in Actions(t)
  PROVE  mapAction(a) = IF cloud[t.key] = 0 THEN "create"
                        ELSE IF cloud[t.key] = wanted[t.key] THEN "no-op" ELSE "update"
<1>1. /\ SideOK(baseBlocks, basis, {}) /\ SideOK(targetBlocks, wanted, {})
      /\ \A b \in baseBlocks \cup targetBlocks : b.addr = mapResourceType(b.key, schemaCache)
  BY DEF CloudInv, ConvertInv, SchemaInv
<1>2. PICK b \in baseBlocks : b.key = t.key /\ b.importable
  BY <1>1 DEF SideOK
<1>3. b.addr = t.addr /\ t.content = wanted[t.key]
  BY <1>1, <1>2 DEF SideOK
<1>4. /\ \A x \in DOMAIN tfState : \E c \in baseBlocks :
           c.addr = x /\ tfState[x] = c.key /\ cloud[c.key] # 0
      /\ Imported(b) => b.addr \in DOMAIN tfState
  BY <1>2 DEF CloudInv, ImportInv
<1>5. t.addr \in DOMAIN tfState => tfState[t.addr] = t.key /\ cloud[t.key] # 0
  <2> SUFFICES ASSUME t.addr \in DOMAIN tfState
               PROVE  tfState[t.addr] = t.key /\ cloud[t.key] # 0
    OBVIOUS
  <2>1. PICK c \in baseBlocks : c.addr = t.addr /\ tfState[t.addr] = c.key /\ cloud[c.key] # 0
    BY <1>4
  <2>2. c.key = t.key
    BY <2>1 DEF Keyed
  <2>3. QED
    BY <2>1, <2>2
<1>6. cloud[t.key] # 0 => t.addr \in DOMAIN tfState
  BY <1>2, <1>3, <1>4 DEF Imported
<1>7. CASE cloud[t.key] = 0
  <2>1. a = <<"create">>
    BY <1>5, <1>7 DEF Actions
  <2>2. QED
    BY <1>7, <2>1 DEF mapAction
<1>8. CASE cloud[t.key] # 0 /\ cloud[t.key] = wanted[t.key]
  <2>1. a = <<"no-op">>
    BY <1>3, <1>5, <1>6, <1>8 DEF Actions
  <2>2. QED
    BY <1>8, <2>1 DEF mapAction
<1>9. CASE cloud[t.key] # 0 /\ cloud[t.key] # wanted[t.key]
  <2>1. a \in {<<"update">>, <<"delete", "create">>, <<"create", "delete">>}
    BY <1>3, <1>5, <1>6, <1>9 DEF Actions
  <2>2. mapAction(a) = "update"
    BY <2>1 DEF mapAction
  <2>3. QED
    BY <1>9, <2>2
<1>10. QED
  BY <1>7, <1>8, <1>9

LEMMA PlanAndShowStep ==
  ASSUME CloudInv, PlanAndShow
  PROVE  CloudInv'
<1>1. PICK actions : /\ \A b \in targetBlocks : actions[b] \in Actions(b)
                     /\ cloudPlan' = parsePlanJSON(actions)
  BY DEF PlanAndShow
<1>2. /\ cstage = "import" /\ toImport = {} /\ cstage' = "done"
      /\ UNCHANGED <<cloud, basis, wanted, schemaCache, toConvert, baseBlocks, targetBlocks,
                     toImport, tfState, faults>>
  BY DEF PlanAndShow
<1>3. ConvertInv' /\ SchemaInv' /\ ImportInv'
  BY <1>2 DEF CloudInv, ConvertInv, SchemaInv, ImportInv
<1>4. cloudPlan'.changes = {[action |-> mapAction(actions[b]), key |-> b.key] : b \in targetBlocks}
  BY <1>1 DEF parsePlanJSON
<1>5. SideOK(targetBlocks, wanted, {})
  BY <1>2 DEF CloudInv, ConvertInv
<1>6. {c.key : c \in cloudPlan'.changes} = In(wanted) \cap Convertible
  <2>1. \A c \in cloudPlan'.changes : c.key \in In(wanted) \cap Convertible
    BY <1>4, <1>5 DEF SideOK
  <2>2. ASSUME NEW r \in In(wanted) \cap Convertible
        PROVE  \E c \in cloudPlan'.changes : c.key = r
    <3>1. PICK b \in targetBlocks : b.key = r
      BY <1>5 DEF SideOK
    <3>2. [action |-> mapAction(actions[b]), key |-> b.key] \in cloudPlan'.changes
      BY <1>4
    <3>3. QED
      BY <3>1, <3>2
  <2>3. QED
    BY <2>1, <2>2
<1>7. ASSUME faults = {}, Keyed, NEW r \in In(basis) \cap In(wanted) \cap Convertible \cap Importable
      PROVE  Change(r)' = IF cloud[r] = 0 THEN "create"
                          ELSE IF cloud[r] = wanted[r] THEN "no-op" ELSE "update"
  <2> DEFINE truth == IF cloud[r] = 0 THEN "create"
                      ELSE IF cloud[r] = wanted[r] THEN "no-op" ELSE "update"
  <2>1. ASSUME NEW c \in cloudPlan'.changes, c.key = r
        PROVE  c.action = truth
    <3>1. PICK t \in targetBlocks : c = [action |-> mapAction(actions[t]), key |-> t.key]
      BY <1>4
    <3>2. t.key = r /\ c.action = mapAction(actions[t])
      BY <2>1, <3>1
    <3>3. actions[t] \in Actions(t)
      BY <1>1
    <3>4. QED
      BY <1>2, <1>7, <3>2, <3>3, ActionsAreTrue
  <2> HIDE DEF truth
  <2>2. \E c \in cloudPlan'.changes : c.key = r
    BY <1>6
  <2> DEFINE chosen == CHOOSE c \in cloudPlan'.changes : c.key = r
  <2>3. chosen \in cloudPlan'.changes /\ chosen.key = r
    BY <2>2
  <2>4. Change(r)' = chosen.action
    BY DEF Change
  <2> HIDE DEF chosen
  <2>5. QED
    BY <2>1, <2>3, <2>4 DEF truth
<1>8. CloudPlanMatchesCloud'
  <2>1. faults' = faults /\ cloud' = cloud /\ basis' = basis /\ wanted' = wanted
        /\ baseBlocks' = baseBlocks /\ targetBlocks' = targetBlocks
    BY <1>2
  <2>2. QED
    BY <1>6, <1>7, <2>1 DEF CloudPlanMatchesCloud, Keyed
<1>9. QED
  BY <1>3, <1>8 DEF CloudInv

LEMMA CloudInvNext == CloudInv /\ [PlanNext]_planVars => CloudInv'
<1> SUFFICES ASSUME CloudInv, [PlanNext]_planVars PROVE CloudInv'
  OBVIOUS
<1>1. CASE CloudStep
  BY <1>1, ConvertStep, ConvertedStep, TofuInitStep, ImportStep, PlanAndShowStep
  DEF CloudStep, CloudNext
<1>2. CASE StartCloudPlan
  BY <1>2, CloudStartStep DEF StartCloudPlan
<1>3. CASE UNCHANGED cloudVars
  BY <1>3 DEF cloudVars, CloudInv, ConvertInv, SchemaInv, ImportInv, Keyed, Imported,
              CloudPlanMatchesCloud, Change
<1>4. CASE Compare \/ Resolve \/ CloudPlanFails \/ AddIssues \/ PrintPlan
  <2>1. UNCHANGED cloudVars
    BY <1>4 DEF Compare, Resolve, CloudPlanFails, AddIssues, PrintPlan, Fails
  <2>2. QED
    BY <1>3, <2>1
<1>5. QED
  BY <1>1, <1>2, <1>3, <1>4 DEF PlanNext, planVars

(* Whatever the order of the two conversions, the moment of the schema     *)
(* download and the outcome of each import: a cloud plan without a fault   *)
(* says of each resource the base can name what is really the case         *)
(* (converter.go, schema.go:25-31, tofu.go:224-237).                       *)
THEOREM CloudPlansAreTrue == PlanSpec => []CloudPlanMatchesCloud
<1>1. CloudInv => CloudPlanMatchesCloud
  BY DEF CloudInv
<1>2. QED
  BY <1>1, CloudIdleInv, CloudInvNext, PTL DEF PlanSpec

(* What the cloud plan of a comparison of refs works on, and that it does  *)
(* not get past a side of which there are no blocks.                       *)
SidesInv ==
  /\ cstage # "off" => WantsCloudPlan
  /\ ~opts.live /\ cstage # "off" =>
       basis = ScanFromGitRef(baseRef) /\ wanted = ScanFromGitRef(targetRef)
  /\ ~opts.live /\ cstage \notin {"off", "convertBase", "failed"} => baseBlocks # {}
  /\ cstage \in {"init", "import", "done"} => targetBlocks # {}
  /\ ~opts.live /\ (pstage = "print" \/ (Ended /\ exit # 1)) /\ WantsCloudPlan => cstage = "done"

LEMMA SidesCloudStep ==
  ASSUME PlanInv, SidesInv, CloudStep
  PROVE  SidesInv'
<1>1. /\ CloudNext /\ UNCHANGED commandVars /\ pstage = "cloud"
  BY CloudRuns DEF CloudStep, PlanInv, StageInv
<1>2. /\ cstage \notin {"off", "done", "failed"} /\ cstage' # "off"
      /\ UNCHANGED <<basis, wanted>>
      /\ baseBlocks \subseteq baseBlocks' /\ targetBlocks \subseteq targetBlocks'
      /\ cstage' \notin {"convertBase", "failed"} => cstage # "convertBase" \/ baseBlocks # {}
      /\ cstage' \in {"init", "import", "done"} =>
            cstage \in {"init", "import"} \/ targetBlocks # {}
  BY <1>1 DEF CloudNext, ConvertResource, Converted, TofuInit, ImportResource, PlanAndShow,
              ToolFails, CloudFails
<1>3. QED
  BY <1>1, <1>2 DEF SidesInv, WantsCloudPlan, HasCloudCredentials, ScanFromGitRef, Ended,
                    commandVars

LEMMA SidesNext == PlanInv /\ SidesInv /\ [PlanNext]_planVars => SidesInv'
<1> SUFFICES ASSUME PlanInv, SidesInv, [PlanNext]_planVars PROVE SidesInv'
  OBVIOUS
<1>1. CASE StartCloudPlan
  <2>1. /\ WantsCloudPlan /\ UNCHANGED commandVars /\ pstage = "cloud"
        /\ ~opts.live => /\ basis' = ScanFromGitRef(baseRef)
                         /\ wanted' = ScanFromGitRef(targetRef)
        /\ cstage' = IF ~opts.live THEN "convertBase" ELSE "convertTarget"
    BY <1>1 DEF StartCloudPlan, CloudStart
  <2>2. QED
    BY <2>1 DEF SidesInv, WantsCloudPlan, HasCloudCredentials, ScanFromGitRef, Ended, commandVars
<1>2. CASE CloudStep
  BY <1>2, SidesCloudStep
<1>3. CASE Compare \/ Resolve \/ CloudPlanFails \/ AddIssues
  <2>1. /\ UNCHANGED <<opts, baseRef, targetRef, cloudVars>>
        /\ pstage \in {"start", "cloud"}
        /\ pstage' = "print" => cstage = "done" \/ ~WantsCloudPlan
        /\ pstage' = "ended" => exit' = 1 \/ opts.live
    BY <1>3 DEF Compare, Resolve, CloudPlanFails, AddIssues, Fails, End
  <2>2. QED
    BY <2>1 DEF SidesInv, WantsCloudPlan, HasCloudCredentials, ScanFromGitRef, Ended, cloudVars
<1>4. CASE PrintPlan
  <2>1. PICK format \in Formats, detailed \in BOOLEAN :
          opts' = [opts EXCEPT !.format = format, !.detailed = detailed]
    BY <1>4 DEF PrintPlan
  <2>2. /\ opts'.live = opts.live /\ opts'.cloud = opts.cloud
        /\ opts'.credentials = opts.credentials
    BY <2>1 DEF PlanInv, StageInv, Options
  <2>3. pstage = "print" /\ UNCHANGED <<baseRef, targetRef, cloudVars>>
    BY <1>4 DEF PrintPlan
  <2>4. QED
    BY <2>2, <2>3 DEF SidesInv, WantsCloudPlan, HasCloudCredentials, ScanFromGitRef, Ended,
                      cloudVars
<1>5. CASE UNCHANGED planVars
  BY <1>5 DEF SidesInv, WantsCloudPlan, HasCloudCredentials, ScanFromGitRef, Ended, planVars,
              commandVars, cloudVars
<1>6. QED
  BY <1>1, <1>2, <1>3, <1>4, <1>5 DEF PlanNext

LEMMA SidesInvariance == PlanSpec => [](PlanInv /\ CloudInv /\ SidesInv)
<1>1. PlanInit => SidesInv
  BY DEF PlanInit, CloudIdle, SidesInv, Ended
<1>2. QED
  BY <1>1, SidesNext, PlanInitInv, PlanNextInv, CloudIdleInv, CloudInvNext, PTL DEF PlanSpec

(* The exit code of a comparison: 1 exactly when the scan or the cloud plan*)
(* failed, as a cloud plan does when a ref has nothing to convert, with    *)
(* nothing shown; with --detailed-exitcode 2 exactly when the refs differ  *)
(* (main.go:146-153, main.go:176-180).                                     *)
THEOREM ExitCodesAreTrue == PlanSpec => []ExitTellsTheDifference
<1>1. PlanInv /\ CloudInv /\ SidesInv => ExitTellsTheDifference
  <2> SUFFICES ASSUME PlanInv, CloudInv, SidesInv, Ended, ~opts.live
               PROVE  /\ exit = 1 <=> ScanFails \/ (WantsCloudPlan /\ cstage # "done")
                      /\ WantsCloudPlan
                           /\ ~(HasConvertible(baseRef) /\ HasConvertible(targetRef)) => exit = 1
                      /\ exit = 1 => shown = NothingShown
                      /\ opts.detailed /\ (\A r \in Managed : Broken \notin {baseRef[r], targetRef[r]})
                           /\ exit # 1 => (exit = 2 <=> baseRef # targetRef)
    BY DEF ExitTellsTheDifference
  <2>1. exit = 1 => shown = NothingShown /\ (ScanFails \/ (WantsCloudPlan /\ cstage # "done"))
    BY DEF PlanInv, DiffInv, SidesInv
  <2>2. exit # 1 => ~ScanFails /\ (WantsCloudPlan => cstage = "done")
    BY DEF PlanInv, DiffInv, SidesInv
  <2>3. ASSUME WantsCloudPlan, exit # 1
        PROVE  HasConvertible(baseRef) /\ HasConvertible(targetRef)
    <3>1. /\ cstage = "done" /\ baseBlocks # {} /\ targetBlocks # {}
          /\ basis = ScanFromGitRef(baseRef) /\ wanted = ScanFromGitRef(targetRef)
      BY <2>2, <2>3 DEF SidesInv
    <3>2. SideOK(baseBlocks, basis, {}) /\ SideOK(targetBlocks, wanted, {})
      BY <3>1 DEF CloudInv, ConvertInv
    <3>3. QED
      BY <3>1, <3>2 DEF SideOK, HasConvertible
  <2>4. ASSUME opts.detailed, \A r \in Managed : Broken \notin {baseRef[r], targetRef[r]},
               exit # 1
        PROVE  exit = 2 <=> baseRef # targetRef
    <3>1. exit = 2 <=> Difference # {}
      BY <2>4 DEF PlanInv, DiffInv
    <3>2. QED
      BY <2>4, <3>1, NoDifference DEF PlanInv, StageInv
  <2>5. QED
    BY <2>1, <2>2, <2>3, <2>4
<1>2. QED
  BY <1>1, SidesInvariance, PTL

-----------------------------------------------------------------------------
(***************************************************************************)
(* `live`: what the command shows when the pod it reaches stays ready.     *)
(***************************************************************************)

PodTypeOK ==
  /\ podPhase \in [Pod -> P!Phases]
  /\ pod \in Pod \cup {NoPod}
  /\ steady \in BOOLEAN

(* A pod that is taken to have stayed ready is the one that was picked, and*)
(* is ready.                                                               *)
SteadyIsReady == steady => pod \in Pod /\ podPhase[pod] = "ready"

Trusted == steady \/ pod = NoPod

(* The answer the command is about to use is of a filled cache.            *)
TrustedAnswer == Trusted /\ cpc = "answered" => answer \in {"full", "refused"}

(* Nothing is printed before the end, and what is printed is that answer.  *)
TrustedPrint ==
  /\ printed # "none" => cpc \in {"ended", "tofu"}
  /\ printed # "none" /\ Trusted => printed \in {"full", "error"}
  /\ kind = "cloud" => printed # "empty"

ClientInv == PodTypeOK /\ SteadyIsReady /\ TrustedAnswer /\ TrustedPrint

-----------------------------------------------------------------------------
LEMMA ClientInitInv == ClientInit => ClientInv
BY DEF ClientInit, ClientInv, PodTypeOK, SteadyIsReady, Trusted, TrustedAnswer, TrustedPrint

(* A pod moves on: if it is the picked one, it is not taken for steady any *)
(* more.                                                                   *)
LEMMA PodMoves ==
  ASSUME ClientInv, NEW p \in Pod, PodStep(p)
  PROVE  ClientInv'
<1>1. PICK next \in P!Later(podPhase[p])
                    \cup (IF podPhase[p] = "down" THEN {"starting"} ELSE {}) :
        /\ podPhase' = [podPhase EXCEPT ![p] = next]
        /\ steady' = (steady /\ pod # p)
        /\ UNCHANGED <<kind, cpc, pod, expired, answer, printed>>
  BY DEF PodStep
<1>2. next \in P!Phases
  BY DEF P!Later, P!Phases
<1>3. PodTypeOK'
  BY <1>1, <1>2 DEF ClientInv, PodTypeOK
<1>4. steady' => steady /\ pod # p
  BY <1>1
<1>5. SteadyIsReady'
  BY <1>1, <1>4 DEF ClientInv, PodTypeOK, SteadyIsReady
<1>6. TrustedAnswer' /\ TrustedPrint'
  BY <1>1, <1>4 DEF ClientInv, TrustedAnswer, TrustedPrint, Trusted
<1>7. QED
  BY <1>3, <1>5, <1>6 DEF ClientInv

LEMMA AnsweredStep ==
  ASSUME ClientInv, Answered
  PROVE  ClientInv'
<1>1. PICK p \in Answering :
        answer' \in {IF podPhase[p] = "ready" THEN "full" ELSE "empty", "refused"}
  BY DEF Answered
<1>2. /\ UNCHANGED <<podPhase, kind, pod, expired, printed, steady>>
      /\ cpc \notin {"ended", "tofu"}
  BY DEF Answered, Waiting
<1>3. Trusted => podPhase[p] = "ready"
  BY <1>1 DEF Answering, Trusted, ClientInv, SteadyIsReady, PodTypeOK
<1>4. Trusted' => answer' \in {"full", "refused"}
  BY <1>1, <1>2, <1>3 DEF Trusted
<1>5. QED
  BY <1>2, <1>4 DEF ClientInv, PodTypeOK, SteadyIsReady, TrustedAnswer, TrustedPrint, Trusted

LEMMA UseAnswerStep ==
  ASSUME ClientInv, UseAnswer
  PROVE  ClientInv'
<1>1. /\ UNCHANGED <<podPhase, kind, pod, answer, steady>>
      /\ cpc = "answered" /\ cpc' \in {"ended", "tofu"}
      /\ printed' \in {"none", Decoded}
      /\ kind = "cloud" => printed' # "empty"
  BY DEF UseAnswer, GoTo
<1>2. Trusted => Decoded \in {"full", "error"}
  BY <1>1 DEF ClientInv, TrustedAnswer, Decoded
<1>3. QED
  BY <1>1, <1>2 DEF ClientInv, PodTypeOK, SteadyIsReady, TrustedAnswer, TrustedPrint, Trusted

(* What picks no answer up and changes no pod.                             *)
LEMMA OtherSteps ==
  ASSUME ClientInv,
         \/ PickFails \/ ForwardReady \/ ForwardFails \/ ForwardExpires \/ TimesOut
         \/ ReadManifests \/ ReadFails \/ TofuEnds \/ Expire
  PROVE  ClientInv'
<1>1. UNCHANGED <<podPhase, kind, pod, answer, printed, steady>>
  BY DEF PickFails, ForwardReady, ForwardFails, ForwardExpires, TimesOut, ReadManifests,
         ReadFails, TofuEnds, Expire, Fail, Keep
<1>2. /\ cpc' = "answered" => cpc = "answered"
      /\ cpc \in {"ended", "tofu"} => cpc' \in {"ended", "tofu"}
  BY DEF PickFails, ForwardReady, ForwardFails, ForwardExpires, TimesOut, ReadManifests,
         ReadFails, TofuEnds, Expire, Fail, GoTo, Waiting
<1>3. QED
  BY <1>1, <1>2 DEF ClientInv, PodTypeOK, SteadyIsReady, TrustedAnswer, TrustedPrint, Trusted

LEMMA PickStep ==
  ASSUME ClientInv, NEW p \in Pod, PickPod(p)
  PROVE  ClientInv'
<1>1. /\ UNCHANGED <<podPhase, kind, answer, printed>> /\ pod' = p
      /\ cpc = "pick" /\ cpc' = "forward"
  BY DEF PickPod, GoTo
<1>2. steady' = (podPhase[p] = "ready")
  BY DEF PickPod
<1>3. PodTypeOK' /\ SteadyIsReady'
  BY <1>1, <1>2 DEF ClientInv, PodTypeOK, SteadyIsReady
<1>4. TrustedAnswer' /\ TrustedPrint'
  BY <1>1 DEF ClientInv, TrustedAnswer, TrustedPrint
<1>5. QED
  BY <1>3, <1>4 DEF ClientInv

LEMMA ClientNextInv == ClientInv /\ [ClientNext]_clientVars => ClientInv'
<1> SUFFICES ASSUME ClientInv, [ClientNext]_clientVars PROVE ClientInv'
  OBVIOUS
<1>1. CASE ClientStep
  BY <1>1, PickStep, OtherSteps, AnsweredStep, UseAnswerStep DEF ClientStep
<1>2. CASE TofuEnds \/ Expire
  BY <1>2, OtherSteps
<1>3. CASE \E p \in Pod : PodStep(p)
  BY <1>3, PodMoves
<1>4. CASE UNCHANGED clientVars
  BY <1>4 DEF clientVars, ClientInv, PodTypeOK, SteadyIsReady, TrustedAnswer, TrustedPrint,
              Trusted
<1>5. QED
  BY <1>1, <1>2, <1>3, <1>4 DEF ClientNext

(* An empty answer is printed only over a forward to a pod that was not    *)
(* ready when the forward was made or has not stayed so, however many pods *)
(* there are and whatever they go through (portforward.go:46-57,           *)
(* client.go:150-209).                                                     *)
THEOREM ReadyPodsAnswerFully == ClientSpec => []ReadyPodAnswersFully
<1>1. ClientInv => ReadyPodAnswersFully
  BY DEF ClientInv, PodTypeOK, TrustedPrint, Trusted, ReadyPodAnswersFully
<1>2. QED
  BY <1>1, ClientInitInv, ClientNextInv, PTL DEF ClientSpec

-----------------------------------------------------------------------------
(***************************************************************************)
(* `lint`: what two processes that install the same tool at the same time  *)
(* leave behind.                                                           *)
(***************************************************************************)

LintTypeOK ==
  /\ file \in [Tool -> Files]
  /\ lpc \in [Process -> {"off", "ensure", "lint", "open", "copy", "running"}]
  /\ left \in [Process -> SUBSET Tool]
  /\ tool \in [Process -> Tool \cup {Absent}]
  /\ temp \in [Process -> SUBSET Whole]
  /\ written \in [Process -> 0 .. Blocks]
  /\ sawMissing \in [Process -> SUBSET Tool]
  /\ interrupted \in SUBSET Tool

(* Whoever writes a tool's file has a whole download of it and did not find*)
(* the tool when it looked.                                                *)
WritersAreSound ==
  \A p \in Process :
    lpc[p] \in {"open", "copy"} =>
      tool[p] \in Tool /\ temp[p] = Whole /\ tool[p] \in sawMissing[p]

Writes(p, t, i) == lpc[p] = "copy" /\ tool[p] = t /\ written[p] < i

(* Every block of a file that is there is in place, or is still ahead of   *)
(* some process that writes the file, unless a writer was cut off.         *)
BlocksAreComing ==
  \A t \in Tool \ interrupted :
    file[t] # Absent => \A i \in Whole : i \in file[t] \/ \E p \in Process : Writes(p, t, i)

(* A file that is written is there.                                        *)
FilesAreOpened == \A p \in Process : lpc[p] = "copy" => file[tool[p]] # Absent

LintInv == LintTypeOK /\ WritersAreSound /\ FilesAreOpened /\ BlocksAreComing

-----------------------------------------------------------------------------
LEMMA LintInitInv == LintInit => LintInv
<1> SUFFICES ASSUME LintInit PROVE LintInv
  OBVIOUS
<1>1. LintTypeOK
  BY LintAssumption DEF LintInit, LintIdle, LintTypeOK, Files
<1>2. WritersAreSound
  BY DEF LintInit, LintIdle, WritersAreSound
<1>3. BlocksAreComing
  BY DEF LintInit, LintIdle, BlocksAreComing
<1>4. FilesAreOpened
  BY DEF LintInit, LintIdle, FilesAreOpened
<1>5. QED
  BY <1>1, <1>2, <1>3, <1>4 DEF LintInv

LEMMA LintTypeStep == LintInv /\ [LintNext]_lintVars => LintTypeOK'
<1> SUFFICES ASSUME LintInv, [LintNext]_lintVars PROVE LintTypeOK'
  OBVIOUS
<1> USE DEF LintInv, LintTypeOK
<1>1. ASSUME NEW p \in Process, Launch(p) \/ StartLint(p) \/ ToolEnds(p)
      PROVE  LintTypeOK'
  BY <1>1 DEF Launch, StartLint, ToolEnds
<1>2. ASSUME NEW p \in Process, LintEnds(p) \/ Killed(p)
      PROVE  LintTypeOK'
  <2>1. Leave(p)
    BY <1>2 DEF LintEnds, Killed
  <2>2. interrupted' \in SUBSET Tool
    <3>1. CASE lpc[p] = "copy"
      BY <1>2, <3>1 DEF LintEnds, Killed, WritersAreSound
    <3>2. CASE lpc[p] # "copy"
      BY <1>2, <3>2 DEF LintEnds, Killed
    <3>3. QED
      BY <3>1, <3>2
  <2>3. QED
    BY <2>1, <2>2, LintAssumption DEF Leave
<1>3. ASSUME NEW p \in Process, NEW t \in Tool,
             SkipInstalled(p, t) \/ DownloadFails(p, t) \/ RunTool(p, t)
      PROVE  LintTypeOK'
  BY <1>3 DEF SkipInstalled, DownloadFails, RunTool, NextInstaller
<1>4. ASSUME NEW p \in Process, NEW t \in Tool, Download(p, t)
      PROVE  LintTypeOK'
  BY <1>4 DEF Download, Downloads
<1>5. ASSUME NEW p \in Process, OpenTarget(p)
      PROVE  LintTypeOK'
  BY <1>5, LintAssumption DEF OpenTarget, NextInstaller, WritersAreSound, Files
<1>6. ASSUME NEW p \in Process, CopyBlock(p)
      PROVE  LintTypeOK'
  <2>1. file[tool[p]] \cup ({written[p] + 1} \cap temp[p]) \in Files
    <3>1. tool[p] \in Tool /\ temp[p] = Whole /\ file[tool[p]] \in Files /\ file[tool[p]] # Absent
      BY <1>6 DEF CopyBlock, WritersAreSound, FilesAreOpened
    <3>2. QED
      BY <3>1 DEF Files
  <2>2. QED
    BY <1>6, <2>1, LintAssumption DEF CopyBlock, WritersAreSound
<1>7. ASSUME NEW p \in Process, Installed(p) \/ CopyFails(p)
      PROVE  LintTypeOK'
  BY <1>7 DEF Installed, CopyFails, NextInstaller, WritersAreSound
<1>8. CASE UNCHANGED lintVars
  BY <1>8 DEF lintVars
<1>9. QED
  BY <1>1, <1>2, <1>3, <1>4, <1>5, <1>6, <1>7, <1>8 DEF LintNext

-----------------------------------------------------------------------------
LEMMA WritersStep == LintInv /\ [LintNext]_lintVars => WritersAreSound'
<1> SUFFICES ASSUME LintInv, [LintNext]_lintVars PROVE WritersAreSound'
  OBVIOUS
<1> USE DEF LintInv, LintTypeOK, WritersAreSound
<1>1. ASSUME NEW p \in Process, Launch(p) \/ StartLint(p) \/ ToolEnds(p)
      PROVE  WritersAreSound'
  BY <1>1 DEF Launch, StartLint, ToolEnds
<1>2. ASSUME NEW p \in Process, LintEnds(p) \/ Killed(p)
      PROVE  WritersAreSound'
  BY <1>2 DEF LintEnds, Killed, Leave
<1>3. ASSUME NEW p \in Process, NEW t \in Tool,
             SkipInstalled(p, t) \/ DownloadFails(p, t) \/ RunTool(p, t)
      PROVE  WritersAreSound'
  BY <1>3 DEF SkipInstalled, DownloadFails, RunTool, NextInstaller
<1>4. ASSUME NEW p \in Process, NEW t \in Tool, Download(p, t)
      PROVE  WritersAreSound'
  BY <1>4 DEF Download, Downloads, binaryExists
<1>5. ASSUME NEW p \in Process, OpenTarget(p) \/ CopyBlock(p)
      PROVE  WritersAreSound'
  BY <1>5 DEF OpenTarget, CopyBlock, NextInstaller
<1>6. ASSUME NEW p \in Process, Installed(p) \/ CopyFails(p)
      PROVE  WritersAreSound'
  BY <1>6 DEF Installed, CopyFails, NextInstaller
<1>7. CASE UNCHANGED lintVars
  BY <1>7 DEF lintVars
<1>8. QED
  BY <1>1, <1>2, <1>3, <1>4, <1>5, <1>6, <1>7 DEF LintNext

LEMMA OpenedStep == LintInv /\ [LintNext]_lintVars => FilesAreOpened'
<1> SUFFICES ASSUME LintInv, [LintNext]_lintVars PROVE FilesAreOpened'
  OBVIOUS
<1> USE DEF LintInv, LintTypeOK, WritersAreSound, FilesAreOpened
<1>1. ASSUME NEW p \in Process, Launch(p) \/ StartLint(p) \/ ToolEnds(p)
      PROVE  FilesAreOpened'
  BY <1>1 DEF Launch, StartLint, ToolEnds
<1>2. ASSUME NEW p \in Process, LintEnds(p) \/ Killed(p)
      PROVE  FilesAreOpened'
  BY <1>2 DEF LintEnds, Killed, Leave
<1>3. ASSUME NEW p \in Process, NEW t \in Tool,
             SkipInstalled(p, t) \/ DownloadFails(p, t) \/ RunTool(p, t) \/ Download(p, t)
      PROVE  FilesAreOpened'
  BY <1>3 DEF SkipInstalled, DownloadFails, RunTool, Download, NextInstaller
<1>4. ASSUME NEW p \in Process, OpenTarget(p)
      PROVE  FilesAreOpened'
  <2>1. {} # Absent
    BY LintAssumption
  <2>2. QED
    BY <1>4, <2>1 DEF OpenTarget, NextInstaller
<1>5. ASSUME NEW p \in Process, CopyBlock(p)
      PROVE  FilesAreOpened'
  <2>1. tool[p] \in Tool /\ temp[p] = Whole /\ file[tool[p]] \in SUBSET Whole
    BY <1>5 DEF CopyBlock, Files
  <2>2. file[tool[p]] \cup ({written[p] + 1} \cap temp[p]) # Absent
    BY <2>1, LintAssumption DEF Whole
  <2>3. QED
    BY <1>5, <2>1, <2>2 DEF CopyBlock
<1>6. ASSUME NEW p \in Process, Installed(p) \/ CopyFails(p)
      PROVE  FilesAreOpened'
  BY <1>6 DEF Installed, CopyFails, NextInstaller
<1>7. CASE UNCHANGED lintVars
  BY <1>7 DEF lintVars
<1>8. QED
  BY <1>1, <1>2, <1>3, <1>4, <1>5, <1>6, <1>7 DEF LintNext

-----------------------------------------------------------------------------
(* A step after which every writer still writes, its position unmoved, and *)
(* no file has changed.                                                    *)
LEMMA WritersGoOn ==
  ASSUME LintInv, file' = file, interrupted \subseteq interrupted',
         \A p \in Process, t \in Tool \ interrupted', i \in Whole :
           Writes(p, t, i) => Writes(p, t, i)'
  PROVE  BlocksAreComing'
<1> SUFFICES ASSUME NEW t \in Tool \ interrupted', file[t] # Absent, NEW i \in Whole
             PROVE  i \in file[t] \/ \E p \in Process : Writes(p, t, i)'
  BY DEF BlocksAreComing
<1>1. i \in file[t] \/ \E p \in Process : Writes(p, t, i)
  BY DEF LintInv, BlocksAreComing
<1>2. QED
  BY <1>1

LEMMA BlocksStep == LintInv /\ [LintNext]_lintVars => BlocksAreComing'
<1> SUFFICES ASSUME LintInv, [LintNext]_lintVars PROVE BlocksAreComing'
  OBVIOUS
<1> USE DEF LintInv, LintTypeOK
<1>1. ASSUME NEW p \in Process, Launch(p) \/ StartLint(p) \/ ToolEnds(p)
      PROVE  BlocksAreComing'
  BY <1>1, WritersGoOn DEF Launch, StartLint, ToolEnds, Writes
<1>2. ASSUME NEW p \in Process, LintEnds(p) \/ Killed(p)
      PROVE  BlocksAreComing'
  BY <1>2, WritersGoOn DEF LintEnds, Killed, Leave, Writes
<1>3. ASSUME NEW p \in Process, NEW t \in Tool,
             SkipInstalled(p, t) \/ DownloadFails(p, t) \/ RunTool(p, t) \/ Download(p, t)
      PROVE  BlocksAreComing'
  BY <1>3, WritersGoOn DEF SkipInstalled, DownloadFails, RunTool, Download, NextInstaller, Writes
<1>4. ASSUME NEW p \in Process, OpenTarget(p)
      PROVE  BlocksAreComing'
  <2>1. CASE Busy(tool[p])
    BY <1>4, <2>1, WritersGoOn DEF OpenTarget, NextInstaller, Writes
  <2>2. CASE ~Busy(tool[p])
    <3>1. /\ lpc[p] = "open" /\ tool[p] \in Tool /\ tool' = tool /\ interrupted' = interrupted
          /\ \A t \in Tool : t # tool[p] => file'[t] = file[t]
          /\ lpc'[p] = "copy" /\ written'[p] = 0
          /\ \A q \in Process : q # p => lpc'[q] = lpc[q] /\ written'[q] = written[q]
      BY <1>4, <2>2 DEF OpenTarget, WritersAreSound
    <3>2. ASSUME NEW t \in Tool \ interrupted', file'[t] # Absent, NEW i \in Whole
          PROVE  i \in file'[t] \/ \E q \in Process : Writes(q, t, i)'
      <4>1. CASE t = tool[p]
        <5>1. i \in Nat /\ 0 < i
          BY LintAssumption DEF Whole
        <5>2. Writes(p, t, i)'
          BY <3>1, <4>1, <5>1 DEF Writes
        <5>3. QED
          BY <5>2
      <4>2. CASE t # tool[p]
        <5>1. i \in file[t] \/ \E q \in Process : Writes(q, t, i)
          BY <3>1, <3>2, <4>2 DEF BlocksAreComing
        <5>2. \A q \in Process : Writes(q, t, i) => Writes(q, t, i)'
          BY <3>1 DEF Writes
        <5>3. QED
          BY <3>1, <4>2, <5>1, <5>2
      <4>3. QED
        BY <4>1, <4>2
    <3>3. QED
      BY <3>2 DEF BlocksAreComing
  <2>3. QED
    BY <2>1, <2>2
<1>5. ASSUME NEW p \in Process, CopyBlock(p)
      PROVE  BlocksAreComing'
  <2>1. /\ lpc[p] = "copy" /\ tool[p] \in Tool /\ temp[p] = Whole /\ file[tool[p]] # Absent
        /\ lpc' = lpc /\ tool' = tool /\ interrupted' = interrupted
        /\ file'[tool[p]] = file[tool[p]] \cup ({written[p] + 1} \cap Whole)
        /\ \A t \in Tool : t # tool[p] => file'[t] = file[t]
        /\ written'[p] = written[p] + 1 /\ written[p] \in 0 .. Blocks
        /\ \A q \in Process : q # p => written'[q] = written[q]
    BY <1>5 DEF CopyBlock, WritersAreSound, FilesAreOpened
  <2>2. ASSUME NEW t \in Tool \ interrupted', file'[t] # Absent, NEW i \in Whole
        PROVE  i \in file'[t] \/ \E q \in Process : Writes(q, t, i)'
    <3>1. file[t] # Absent /\ file[t] \subseteq file'[t]
      BY <2>1, <2>2
    <3>2. i \in file[t] \/ \E q \in Process : Writes(q, t, i)
      BY <2>1, <3>1 DEF BlocksAreComing
    <3>3. ASSUME NEW q \in Process, Writes(q, t, i)
          PROVE  i \in file'[t] \/ Writes(q, t, i)'
      <4>1. CASE q # p
        BY <2>1, <3>3, <4>1 DEF Writes
      <4>2. CASE q = p
        <5>1. t = tool[p] /\ i \in 1 .. Blocks /\ written[p] < i
          BY <3>3, <4>2 DEF Writes, Whole
        <5>2. CASE i = written[p] + 1
          BY <2>1, <5>1, <5>2
        <5>3. CASE i # written[p] + 1
          <6>1. written'[p] < i
            BY <2>1, <5>1, <5>3, LintAssumption
          <6>2. QED
            BY <2>1, <4>2, <5>1, <6>1 DEF Writes
        <5>4. QED
          BY <5>2, <5>3
      <4>3. QED
        BY <4>1, <4>2
    <3>4. QED
      BY <3>1, <3>2, <3>3
  <2>3. QED
    BY <2>2 DEF BlocksAreComing
<1>6. ASSUME NEW p \in Process, Installed(p)
      PROVE  BlocksAreComing'
  <2>1. ~\E i \in Whole : written[p] < i
    BY <1>6, LintAssumption DEF Installed, Whole
  <2>2. QED
    BY <1>6, <2>1, WritersGoOn DEF Installed, NextInstaller, Writes
<1>7. ASSUME NEW p \in Process, CopyFails(p)
      PROVE  BlocksAreComing'
  BY <1>7, WritersGoOn DEF CopyFails, NextInstaller, Writes
<1>8. CASE UNCHANGED lintVars
  BY <1>8, WritersGoOn DEF lintVars, Writes
<1>9. QED
  BY <1>1, <1>2, <1>3, <1>4, <1>5, <1>6, <1>7, <1>8 DEF LintNext

LEMMA LintInvariance == LintSpec => []LintInv
<1>1. LintInv /\ [LintNext]_lintVars => LintInv'
  BY LintTypeStep, WritersStep, OpenedStep, BlocksStep DEF LintInv
<1>2. QED
  BY <1>1, LintInitInv, PTL DEF LintSpec

-----------------------------------------------------------------------------
(* However many lint processes install the same tools at the same time, a  *)
(* tool that is there in part is being written or an extraction of it was  *)
(* cut off (install.go:127-136, 213-326).                                  *)
THEOREM InstallersDoNotCollide == LintSpec => []PartialIsExplained
<1>1. LintInv => PartialIsExplained
  <2> SUFFICES ASSUME LintInv, NEW t \in Tool, file[t] \notin {Absent, Whole}, t \notin interrupted
               PROVE  \E p \in Process : lpc[p] = "copy" /\ tool[p] = t
    BY DEF PartialIsExplained
  <2>1. PICK i \in Whole : i \notin file[t]
    BY DEF LintInv, LintTypeOK, Files
  <2>2. PICK p \in Process : Writes(p, t, i)
    BY <2>1 DEF LintInv, BlocksAreComing
  <2>3. QED
    BY <2>2 DEF Writes
<1>2. QED
  BY <1>1, LintInvariance, PTL

(* A complete tool is only ever damaged by a process that looked for it    *)
(* before it was complete, and never while it is executed                  *)
(* (install.go:127-136, 240, 273).                                         *)
THEOREM CompleteToolsAreKept == LintSpec => WholeToolsAreKept
<1>1. LintInv /\ [LintNext]_lintVars =>
        [\A t \in Tool : file[t] = Whole /\ file'[t] # Whole =>
           ~Busy(t) /\ \E p \in Process : lpc'[p] = "copy" /\ tool[p] = t /\ t \in sawMissing[p]]_file
  <2> SUFFICES ASSUME LintInv, [LintNext]_lintVars, file' # file,
                      NEW t \in Tool, file[t] = Whole, file'[t] # Whole
               PROVE  ~Busy(t) /\ \E p \in Process :
                        lpc'[p] = "copy" /\ tool[p] = t /\ t \in sawMissing[p]
    OBVIOUS
  <2>1. PICK p \in Process : OpenTarget(p) \/ CopyBlock(p)
    BY DEF LintNext, lintVars, Launch, StartLint, LintEnds, Killed, Leave, SkipInstalled,
           Download, DownloadFails, RunTool, Installed, CopyFails, ToolEnds
  <2>2. CASE OpenTarget(p)
    BY <2>1, <2>2 DEF OpenTarget, LintInv, LintTypeOK, WritersAreSound
  <2>3. CASE CopyBlock(p)
    BY <2>3 DEF CopyBlock, LintInv, LintTypeOK, WritersAreSound
  <2>4. QED
    BY <2>1, <2>2, <2>3
<1>2. QED
  BY <1>1, LintInvariance, PTL DEF LintSpec, WholeToolsAreKept

-----------------------------------------------------------------------------
(***************************************************************************)
(* `render`: what is rendered is what the composites lead to.              *)
(***************************************************************************)

Further(S) == UNION {Children(x) : x \in S \cap graph.found}

Reached == tried.rendered \cup tried.failed \cup tried.unresolved

(* The composites at hand are those of the level the loop is at, and those *)
(* put aside are of the next.                                              *)
LevelInv ==
  /\ depth \in 0 .. RenderDepth - 1
  /\ pending \subseteq Chain[depth]
  /\ nextPending \subseteq Chain[depth + 1]
  /\ \A x \in Reached : \E n \in 0 .. depth : x \in Chain[n]

(* No composite is lost between the levels.                                *)
NothingDropped ==
  /\ depth = 0 => roots \subseteq Reached \cup pending
  /\ depth > 0 => roots \subseteq Reached
  /\ \A x \in tried.rendered : Children(x) \subseteq Reached \cup pending \cup nextPending

ResultInv ==
  /\ \A x \in tried.rendered : Leaves(x) \subseteq results
  /\ tried.unresolved \subseteq results
  /\ \A r \in results :
       \/ r \in tried.unresolved
       \/ \E x \in tried.rendered : r \in Leaves(x)
       \/ \E x \in tried.failed : r \in graph.builtin[x]

TriedInv ==
  /\ DOMAIN tried = {"rendered", "failed", "unresolved"}
  /\ tried = [rendered |-> tried.rendered, failed |-> tried.failed, unresolved |-> tried.unresolved]

BeforeStart == depth = 0 /\ pending = {} /\ nextPending = {} /\ results = {} /\ tried = NothingTried

EndInv == roots # {} /\ renderEnded => pending = {} /\ ~MoreLevels

RenderInv ==
  /\ roots = {} => BeforeStart /\ renderEnded
  /\ TriedInv /\ EndInv /\ LevelInv /\ NothingDropped /\ ResultInv

-----------------------------------------------------------------------------
(* The levels of the composites, by their recursive definition.            *)
LEMMA ChainLevels ==
  Chain[0] = roots /\ \A n \in Nat : Chain[n + 1] = Further(Chain[n])
<1> DEFINE Place == roots \cup UNION {Children(x) : x \in graph.found}
           F == [S \in SUBSET Place |-> Further(S)]
<1>1. roots \in SUBSET Place
  OBVIOUS
<1>2. ASSUME NEW S \in SUBSET Place PROVE Further(S) \in SUBSET Place
  BY DEF Further
<1>3. F \in [SUBSET Place -> SUBSET Place]
  BY <1>2
<1>4. PICK g \in [Nat -> SUBSET Place] : g[0] = roots /\ \A n \in Nat : g[n + 1] = F[g[n]]
  <2> DEFINE U == SUBSET Place
  <2>1. roots \in U /\ F \in [U -> U]
    BY <1>1, <1>3
  <2> HIDE DEF U, F
  <2>2. \E g \in [Nat -> U] : g[0] = roots /\ \A n \in Nat : g[n + 1] = F[g[n]]
    BY <2>1, RecursionExists
  <2>3. QED
    BY <2>2 DEF U
<1>5. g = [n \in Nat |-> IF n = 0 THEN roots ELSE Further(g[n - 1])]
  <2>1. ASSUME NEW n \in Nat, n # 0 PROVE g[n] = Further(g[n - 1])
    <3>1. n - 1 \in Nat /\ (n - 1) + 1 = n /\ g[n - 1] \in SUBSET Place
      BY <1>4, <2>1
    <3>2. F[g[n - 1]] = Further(g[n - 1])
      <4> HIDE DEF Place
      <4>1. QED
        BY <3>1 DEF F
    <3>3. QED
      BY <1>4, <3>1, <3>2
  <2>2. QED
    BY <1>4, <2>1
<1> HIDE DEF Place, F
<1>6. Chain = [n \in Nat |-> IF n = 0 THEN roots ELSE Further(Chain[n - 1])]
  BY <1>5 DEF Chain, Further
<1>7. Chain[0] = roots
  BY <1>6
<1>8. ASSUME NEW n \in Nat PROVE Chain[n + 1] = Further(Chain[n])
  <2>1. n + 1 \in Nat /\ n + 1 # 0 /\ (n + 1) - 1 = n
    OBVIOUS
  <2>2. QED
    BY <1>6, <2>1
<1>9. QED
  BY <1>7, <1>8

(* A render does not change what it renders from.                          *)
LEMMA SameChains ==
  ASSUME graph' = graph, roots' = roots
  PROVE  /\ Chain' = Chain
         /\ \A x : Children(x)' = Children(x) /\ Leaves(x)' = Leaves(x)
<1>1. \A x : Children(x)' = Children(x) /\ Leaves(x)' = Leaves(x)
  BY DEF Children, Leaves
<1>2. Chain' = Chain
  BY DEF Chain, Children
<1>3. QED
  BY <1>1, <1>2

LEMMA FirstLevel == Chain[0] = roots
BY ChainLevels

LEMMA RenderIdleInv == RenderIdle => RenderInv
<1> SUFFICES ASSUME RenderIdle PROVE RenderInv
  OBVIOUS
<1>1. TriedInv /\ BeforeStart /\ roots = {} /\ renderEnded
  BY DEF RenderIdle, TriedInv, BeforeStart, NothingTried
<1>2. LevelInv /\ NothingDropped /\ ResultInv
  BY <1>1, RenderAssumption
     DEF BeforeStart, NothingTried, LevelInv, NothingDropped, ResultInv, Reached
<1>3. QED
  BY <1>1, <1>2 DEF RenderInv, EndInv

LEMMA RenderBeginsStep == RenderInv /\ RenderBegins => RenderInv'
<1> SUFFICES ASSUME RenderInv, RenderBegins PROVE RenderInv'
  OBVIOUS
<1>1. /\ depth' = 0 /\ nextPending' = {} /\ results' = {} /\ tried' = NothingTried
      /\ pending' = roots' /\ roots' # {} /\ renderEnded' = FALSE
  <2>1. PICK xrs \in (SUBSET Rendered) \ {{}} : RenderStart(xrs)
    BY DEF RenderBegins
  <2>2. BeforeStart
    BY DEF RenderInv, RenderBegins
  <2>3. QED
    BY <2>1, <2>2 DEF RenderStart, BeforeStart
<1>2. TriedInv' /\ EndInv' /\ NothingDropped' /\ ResultInv' /\ Reached' = {}
  BY <1>1 DEF TriedInv, EndInv, NothingDropped, ResultInv, NothingTried, Reached
<1>3. (Chain[0] = roots)'
  BY FirstLevel, PTL
<1>4. LevelInv'
  BY <1>1, <1>2, <1>3, RenderAssumption DEF LevelInv
<1>5. QED
  BY <1>1, <1>2, <1>4 DEF RenderInv

(* A composite of the level is rendered, in whatever way.                  *)
LEMMA TakeUpStep ==
  ASSUME RenderInv, NEW x \in pending, TakeUp(x), TriedInv',
         Reached' = Reached \cup {x},
         nextPending \subseteq nextPending',
         \A r \in nextPending' : r \in nextPending \/ r \in Chain[depth + 1],
         \A y \in tried'.rendered : y \in tried.rendered \/ Children(y) \subseteq nextPending',
         ResultInv'
  PROVE  RenderInv'
<1>1. /\ pending' = pending \ {x} /\ depth' = depth /\ graph' = graph /\ roots' = roots
      /\ ~renderEnded /\ ~renderEnded'
  BY DEF TakeUp
<1>2. Chain' = Chain /\ \A y : Children(y)' = Children(y)
  BY <1>1, SameChains
<1>3. roots # {} /\ EndInv'
  BY <1>1 DEF RenderInv, EndInv
<1>4. LevelInv'
  <2>1. \A y \in Reached' : \E n \in 0 .. depth : y \in Chain[n]
    <3>1. depth \in 0 .. depth /\ x \in Chain[depth]
      BY RenderAssumption DEF RenderInv, LevelInv
    <3>2. QED
      BY <3>1 DEF RenderInv, LevelInv
  <2>2. pending' \subseteq Chain[depth] /\ nextPending' \subseteq Chain[depth + 1]
    BY <1>1 DEF RenderInv, LevelInv
  <2>3. QED
    BY <1>1, <1>2, <2>1, <2>2 DEF RenderInv, LevelInv
<1>5. NothingDropped'
  BY <1>1, <1>2 DEF RenderInv, NothingDropped
<1>6. QED
  BY <1>1, <1>3, <1>4, <1>5 DEF RenderInv

LEMMA UnresolvedStep ==
  ASSUME RenderInv, NEW x \in pending, Unresolved(x)
  PROVE  RenderInv'
<1>1. /\ tried' = [tried EXCEPT !.unresolved = @ \cup {x}]
      /\ results' = results \cup {x} /\ nextPending' = nextPending
      /\ graph' = graph /\ roots' = roots
  BY DEF Unresolved, TakeUp
<1>2. /\ tried'.rendered = tried.rendered /\ tried'.failed = tried.failed
      /\ tried'.unresolved = tried.unresolved \cup {x}
      /\ TriedInv'
  BY <1>1 DEF RenderInv, TriedInv
<1>3. Reached' = Reached \cup {x}
  BY <1>2 DEF Reached
<1>4. ResultInv'
  BY <1>1, <1>2, SameChains DEF RenderInv, ResultInv
<1>5. TakeUp(x)
  BY DEF Unresolved
<1>6. QED
  BY <1>1, <1>2, <1>3, <1>4, <1>5, TakeUpStep

(* What is put aside is of the next level, as the composite is of this one.*)
LEMMA RenderOneStep ==
  ASSUME RenderInv, NEW x \in pending, RenderOne(x)
  PROVE  RenderInv'
<1> DEFINE rendered == {r \in parseRenderedOutput(x) : ~Echo(x, r)}
<1>1. /\ tried' = [tried EXCEPT !.rendered = @ \cup {x}]
      /\ nextPending' = nextPending \cup Children(x)
      /\ results' = results \cup Leaves(x)
      /\ graph' = graph /\ roots' = roots /\ x \in graph.found
  <2>1. /\ {r \in rendered : isCompositeKind(r)} = Children(x)
        /\ {r \in rendered : ~isCompositeKind(r)} = Leaves(x)
    BY DEF Children, Leaves, Echo, isCompositeKind, parseRenderedOutput
  <2>2. QED
    BY <2>1 DEF RenderOne, TakeUp
<1>2. /\ tried'.rendered = tried.rendered \cup {x} /\ tried'.failed = tried.failed
      /\ tried'.unresolved = tried.unresolved
      /\ TriedInv'
  BY <1>1 DEF RenderInv, TriedInv
<1>3. Reached' = Reached \cup {x}
  BY <1>2 DEF Reached
<1>4. ResultInv'
  BY <1>1, <1>2, SameChains DEF RenderInv, ResultInv
<1>5. Children(x) \subseteq Chain[depth + 1]
  <2>1. x \in Chain[depth] /\ depth \in Nat
    BY RenderAssumption DEF RenderInv, LevelInv
  <2>2. Chain[depth + 1] = Further(Chain[depth])
    BY <2>1, ChainLevels
  <2>3. QED
    BY <1>1, <2>1, <2>2 DEF Further
<1>6. TakeUp(x)
  BY DEF RenderOne
<1>7. QED
  BY <1>1, <1>2, <1>3, <1>4, <1>5, <1>6, TakeUpStep

LEMMA FallBackStep ==
  ASSUME RenderInv, NEW x \in pending, FallBack(x)
  PROVE  RenderInv'
<1>1. /\ tried' = [tried EXCEPT !.failed = @ \cup {x}]
      /\ results' = results \cup graph.builtin[x] /\ nextPending' = nextPending
      /\ graph' = graph /\ roots' = roots
  BY DEF FallBack, TakeUp
<1>2. /\ tried'.rendered = tried.rendered /\ tried'.failed = tried.failed \cup {x}
      /\ tried'.unresolved = tried.unresolved
      /\ TriedInv'
  BY <1>1 DEF RenderInv, TriedInv
<1>3. Reached' = Reached \cup {x}
  BY <1>2 DEF Reached
<1>4. ResultInv'
  BY <1>1, <1>2, SameChains DEF RenderInv, ResultInv
<1>5. TakeUp(x)
  BY DEF FallBack
<1>6. QED
  BY <1>1, <1>2, <1>3, <1>4, <1>5, TakeUpStep

LEMMA NextLevelStep ==
  ASSUME RenderInv, NextLevel
  PROVE  RenderInv'
<1>1. /\ depth' = depth + 1 /\ pending = {} /\ pending' = nextPending /\ nextPending' = {}
      /\ graph' = graph /\ roots' = roots /\ results' = results /\ tried' = tried
      /\ ~renderEnded /\ renderEnded' = renderEnded
  BY DEF NextLevel
<1>2. /\ Chain' = Chain /\ Reached' = Reached
      /\ \A x : Children(x)' = Children(x) /\ Leaves(x)' = Leaves(x)
  BY <1>1, SameChains DEF Reached
<1>3. roots # {} /\ EndInv' /\ TriedInv'
  BY <1>1 DEF RenderInv, EndInv, TriedInv
<1>4. LevelInv'
  <2>1. depth + 1 \in 0 .. RenderDepth - 1 /\ depth \in Nat
    BY RenderAssumption DEF RenderInv, LevelInv, NextLevel, MoreLevels
  <2>2. \A x \in Reached : \E n \in 0 .. depth + 1 : x \in Chain[n]
    BY <2>1 DEF RenderInv, LevelInv
  <2>3. QED
    BY <1>1, <1>2, <2>1, <2>2 DEF RenderInv, LevelInv
<1>5. NothingDropped'
  <2>1. depth + 1 > 0 /\ (depth = 0 \/ depth > 0)
    BY RenderAssumption DEF RenderInv, LevelInv
  <2>2. QED
    BY <1>1, <1>2, <2>1 DEF RenderInv, NothingDropped
<1>6. ResultInv'
  BY <1>1, <1>2 DEF RenderInv, ResultInv
<1>7. QED
  BY <1>1, <1>3, <1>4, <1>5, <1>6 DEF RenderInv

LEMMA EndRenderStep ==
  ASSUME RenderInv, EndRender
  PROVE  RenderInv'
<1>1. /\ UNCHANGED <<graph, roots, depth, pending, nextPending, results, tried>>
      /\ ~renderEnded /\ pending = {} /\ ~MoreLevels
  BY DEF EndRender
<1>2. /\ Chain' = Chain /\ Reached' = Reached
      /\ \A x : Children(x)' = Children(x) /\ Leaves(x)' = Leaves(x)
  BY <1>1, SameChains DEF Reached
<1>3. roots' # {} /\ EndInv' /\ TriedInv'
  BY <1>1 DEF RenderInv, EndInv, TriedInv, MoreLevels
<1>4. LevelInv' /\ NothingDropped' /\ ResultInv'
  BY <1>1, <1>2 DEF RenderInv, LevelInv, NothingDropped, ResultInv
<1>5. QED
  BY <1>3, <1>4 DEF RenderInv

LEMMA RenderNextInv == RenderInv /\ [RenderBegins \/ RenderNext]_renderVars => RenderInv'
<1> SUFFICES ASSUME RenderInv, [RenderBegins \/ RenderNext]_renderVars PROVE RenderInv'
  OBVIOUS
<1>1. CASE RenderBegins
  BY <1>1, RenderBeginsStep
<1>2. CASE \E x \in pending : Unresolved(x) \/ RenderOne(x) \/ FallBack(x)
  BY <1>2, UnresolvedStep, RenderOneStep, FallBackStep
<1>3. CASE NextLevel
  BY <1>3, NextLevelStep
<1>4. CASE EndRender
  BY <1>4, EndRenderStep
<1>5. CASE UNCHANGED renderVars
  <2>1. UNCHANGED <<graph, roots, depth, pending, nextPending, results, tried, renderEnded>>
    BY <1>5 DEF renderVars
  <2>2. /\ Chain' = Chain /\ Reached' = Reached
        /\ \A x : Children(x)' = Children(x) /\ Leaves(x)' = Leaves(x)
    BY <2>1, SameChains DEF Reached
  <2>3. (BeforeStart <=> BeforeStart') /\ EndInv' /\ TriedInv'
    BY <2>1 DEF RenderInv, BeforeStart, EndInv, TriedInv, MoreLevels
  <2>4. LevelInv' /\ NothingDropped' /\ ResultInv'
    BY <2>1, <2>2 DEF RenderInv, LevelInv, NothingDropped, ResultInv
  <2>5. QED
    BY <2>1, <2>3, <2>4 DEF RenderInv
<1>6. QED
  BY <1>1, <1>2, <1>3, <1>4, <1>5 DEF RenderNext

LEMMA RenderInvariance == RenderSpec => []RenderInv
<1>1. QED
  BY RenderIdleInv, RenderNextInv, PTL DEF RenderSpec

(* When the loop ends, the composites that are left over are of the level  *)
(* at the limit, if there are any.                                         *)
LEMMA EndIsReachable == RenderInv => RenderedIsReachable
<1> SUFFICES ASSUME RenderInv, roots # {}, renderEnded
             PROVE  /\ roots \subseteq Reached
                    /\ Reached \subseteq UNION {Chain[n] : n \in 0 .. RenderDepth - 1}
                    /\ \A x \in tried.rendered :
                         /\ Leaves(x) \subseteq results
                         /\ Chain[RenderDepth] = {} => Children(x) \subseteq Reached
                    /\ \A x \in tried.unresolved : x \in results
                    /\ results \subseteq tried.unresolved \cup (UNION {Leaves(x) : x \in tried.rendered})
                                           \cup UNION {graph.builtin[x] : x \in tried.failed}
  BY DEF RenderedIsReachable, Reached
<1>1. pending = {} /\ ~MoreLevels /\ depth \in 0 .. RenderDepth - 1 /\ RenderDepth \in Nat
  BY RenderAssumption DEF RenderInv, EndInv, LevelInv
<1>2. roots \subseteq Reached
  BY <1>1 DEF RenderInv, NothingDropped
<1>3. Reached \subseteq UNION {Chain[n] : n \in 0 .. RenderDepth - 1}
  <2>1. ASSUME NEW x \in Reached PROVE \E n \in 0 .. RenderDepth - 1 : x \in Chain[n]
    BY <1>1 DEF RenderInv, LevelInv
  <2>2. QED
    BY <2>1
<1>4. Chain[RenderDepth] = {} => nextPending = {}
  <2>1. CASE depth + 1 < RenderDepth
    BY <1>1, <2>1 DEF MoreLevels
  <2>2. CASE ~(depth + 1 < RenderDepth)
    <3>1. depth + 1 = RenderDepth
      BY <1>1, <2>2
    <3>2. QED
      BY <3>1 DEF RenderInv, LevelInv
  <2>3. QED
    BY <2>1, <2>2
<1>5. \A x \in tried.rendered : Chain[RenderDepth] = {} => Children(x) \subseteq Reached
  BY <1>1, <1>4 DEF RenderInv, NothingDropped
<1>6. /\ \A x \in tried.rendered : Leaves(x) \subseteq results
      /\ \A x \in tried.unresolved : x \in results
  BY DEF RenderInv, ResultInv
<1>7. ASSUME NEW r \in results
      PROVE  r \in tried.unresolved \cup (UNION {Leaves(x) : x \in tried.rendered})
                   \cup UNION {graph.builtin[x] : x \in tried.failed}
  BY DEF RenderInv, ResultInv
<1>8. QED
  BY <1>2, <1>3, <1>5, <1>6, <1>7

(* A render reaches the composites it was given and those the chains lead  *)
(* to, keeps what hangs on each, and adds nothing: none is lost between    *)
(* the levels of renderWithCrossplane (crossplane.go:99-151), in whatever  *)
(* order a level is gone through and whichever of them fail.               *)
THEOREM RendersWhatIsReachable == RenderSpec => []RenderedIsReachable
<1>1. QED
  BY RenderInvariance, EndIsReachable, PTL

-----------------------------------------------------------------------------
(***************************************************************************)
(* `validate`: where the validator and the API server agree.               *)
(***************************************************************************)

Keys == (UNION {DOMAIN v.f : v \in Value}) \cup UNION {s.required : s \in Schema}

Problem == Keys \X {"missing", "type", "enum"}

(* What the recursive definitions say, one level at a time.                *)
LEMMA AdmittingUnfolds ==
  \A v \in Value : admitting[v] =
    {s \in Schema :
       /\ TypeAdmits(s, v)
       /\ s.enum = AnyValue \/ v \in s.enum
       /\ v \notin s.refuses
       /\ s.items # None => \A y \in v.e : s.items \in admitting[y]
       /\ v.t = "object" =>
            /\ s.required \subseteq Kept(s, v) \cup Defaulted(s)
            /\ \A k \in Kept(s, v) : SchemaOf(s, k) \in admitting[v.f[k]]}
<1> DEFINE V == SUBSET Schema
           W == [Value -> V]
           start == [v \in Value |-> {}]
           Step(h) == [v \in Value |->
             {s \in Schema :
                /\ TypeAdmits(s, v)
                /\ s.enum = AnyValue \/ v \in s.enum
                /\ v \notin s.refuses
                /\ s.items # None => \A y \in v.e : s.items \in h[y]
                /\ v.t = "object" =>
                     /\ s.required \subseteq Kept(s, v) \cup Defaulted(s)
                     /\ \A k \in Kept(s, v) : SchemaOf(s, k) \in h[v.f[k]]}]
           G == [h \in W |-> Step(h)]
<1>1. G \in [W -> W] /\ start \in W
  OBVIOUS
<1>2. ASSUME NEW f \in W, NEW g \in W, NEW v \in Value,
             \A y \in Value : Height[y] < Height[v] => f[y] = g[y]
      PROVE  G[f][v] = G[g][v]
  <2>1. /\ \A k \in DOMAIN v.f : f[v.f[k]] = g[v.f[k]]
        /\ \A y \in v.e : f[y] = g[y]
        /\ \A s \in Schema : Kept(s, v) \subseteq DOMAIN v.f
    BY <1>2, TreeAssumption DEF Kept
  <2>2. Step(f)[v] = Step(g)[v]
    BY <2>1
  <2>3. QED
    BY <2>2
<1>3. PICK h \in W : h = G[h]
  <2>1. Height \in [Value -> Nat]
    BY TreeAssumption
  <2>2. W = [Value -> V]
    OBVIOUS
  <2> HIDE DEF V, W, G, start
  <2>3. Descends(G, W, Value, Height)
    BY <1>2 DEF Descends
  <2>4. G \in [W -> W] /\ start \in W
    BY <1>1
  <2>5. HasFixedPoint(G, W)
    BY <2>1, <2>2, <2>3, <2>4, RankedRecursion
  <2>6. QED
    BY <2>5 DEF HasFixedPoint
<1>4. h = Step(h)
  BY <1>3
<1>5. admitting = Step(admitting)
  <2> HIDE DEF V, W, G, start
  <2>1. admitting = CHOOSE g : g = Step(g)
    BY ONLY Zenon DEF admitting
  <2> HIDE DEF Step
  <2>2. QED
    BY <1>4, <2>1, Zenon
<1>6. QED
  BY <1>5

LEMMA VisitsUnfold ==
  \A v \in Value : visits[v] =
    [s \in Schema |-> {<<v, s>>} \cup UNION {visits[v.f[k]][s.props[k]] : k \in DOMAIN v.f \cap DOMAIN s.props}]
<1> DEFINE V == [Schema -> SUBSET (Value \X Schema)]
           W == [Value -> V]
           start == [v \in Value |-> [s \in Schema |-> {}]]
           Step(h) == [v \in Value |->
             [s \in Schema |-> {<<v, s>>} \cup UNION {h[v.f[k]][s.props[k]] : k \in DOMAIN v.f \cap DOMAIN s.props}]]
           G == [h \in W |-> Step(h)]
<1>1. G \in [W -> W] /\ start \in W
  <2>1. ASSUME NEW h \in W, NEW v \in Value, NEW s \in Schema
        PROVE  Step(h)[v][s] \in SUBSET (Value \X Schema)
    <3>1. ASSUME NEW k \in DOMAIN v.f \cap DOMAIN s.props
          PROVE  h[v.f[k]][s.props[k]] \subseteq Value \X Schema
      <4>1. v.f[k] \in Value /\ s.props[k] \in Schema
        BY TreeAssumption
      <4>2. h[v.f[k]] \in V
        BY <4>1
      <4>3. QED
        BY <4>1, <4>2
    <3> HIDE DEF W
    <3>2. QED
      BY <3>1
  <2>2. ASSUME NEW h \in W, NEW v \in Value PROVE Step(h)[v] \in V
    BY <2>1, <2>2
  <2>3. ASSUME NEW h \in W PROVE Step(h) \in W
    <3> HIDE DEF V
    <3>1. QED
      BY <2>2
  <2> HIDE DEF Step
  <2>4. start \in W
    BY DEF V
  <2>5. QED
    BY <2>3, <2>4
<1>2. ASSUME NEW f \in W, NEW g \in W, NEW v \in Value,
             \A y \in Value : Height[y] < Height[v] => f[y] = g[y]
      PROVE  G[f][v] = G[g][v]
  <2>1. \A k \in DOMAIN v.f : f[v.f[k]] = g[v.f[k]]
    BY <1>2, TreeAssumption
  <2>2. Step(f)[v] = Step(g)[v]
    BY <2>1
  <2>3. QED
    BY <2>2
<1>3. PICK h \in W : h = G[h]
  <2>1. Height \in [Value -> Nat]
    BY TreeAssumption
  <2>2. W = [Value -> V]
    OBVIOUS
  <2> HIDE DEF V, W, G, start
  <2>3. Descends(G, W, Value, Height)
    BY <1>2 DEF Descends
  <2>4. G \in [W -> W] /\ start \in W
    BY <1>1
  <2>5. HasFixedPoint(G, W)
    BY <2>1, <2>2, <2>3, <2>4, RankedRecursion
  <2>6. QED
    BY <2>5 DEF HasFixedPoint
<1>4. h = Step(h)
  BY <1>3
<1>5. visits = Step(visits)
  <2> HIDE DEF V, W, G, start
  <2>1. QED
    BY ONLY <1>4, Zenon DEF visits
<1>6. QED
  BY <1>5

LEMMA ProblemsUnfold ==
  \A v \in Value : problemsOf[v] =
    [s \in Schema |->
       checkRequired(s, v) \cup
       UNION {checkField(s.props[k], v.f[k], k)
                \cup (IF v.f[k].t = "object" THEN problemsOf[v.f[k]][s.props[k]] ELSE {})
              : k \in DOMAIN v.f \cap DOMAIN s.props}]
<1> DEFINE V == [Schema -> SUBSET Problem]
           W == [Value -> V]
           start == [v \in Value |-> [s \in Schema |-> {}]]
           Step(h) == [v \in Value |->
             [s \in Schema |->
                checkRequired(s, v) \cup
                UNION {checkField(s.props[k], v.f[k], k)
                         \cup (IF v.f[k].t = "object" THEN h[v.f[k]][s.props[k]] ELSE {})
                       : k \in DOMAIN v.f \cap DOMAIN s.props}]]
           G == [h \in W |-> Step(h)]
<1>1. G \in [W -> W] /\ start \in W
  <2>1. ASSUME NEW h \in W, NEW v \in Value, NEW s \in Schema
        PROVE  Step(h)[v][s] \in SUBSET Problem
    <3>1. checkRequired(s, v) \subseteq Problem
      BY DEF checkRequired, Problem, Keys
    <3>2. ASSUME NEW k \in DOMAIN v.f \cap DOMAIN s.props
          PROVE  /\ checkField(s.props[k], v.f[k], k) \subseteq Problem
                 /\ h[v.f[k]][s.props[k]] \subseteq Problem
      <4>1. k \in Keys
        BY DEF Keys
      <4>2. v.f[k] \in Value /\ s.props[k] \in Schema
        BY TreeAssumption
      <4>3. h[v.f[k]] \in V
        BY <4>2
      <4>4. QED
        BY <4>1, <4>2, <4>3 DEF checkField, checkType, checkEnum, Problem
    <3> HIDE DEF W
    <3>3. QED
      BY <3>1, <3>2
  <2>2. ASSUME NEW h \in W, NEW v \in Value PROVE Step(h)[v] \in V
    BY <2>1, <2>2
  <2>3. ASSUME NEW h \in W PROVE Step(h) \in W
    <3> HIDE DEF V
    <3>1. QED
      BY <2>2
  <2> HIDE DEF Step
  <2>4. start \in W
    BY DEF V
  <2>5. QED
    BY <2>3, <2>4
<1>2. ASSUME NEW f \in W, NEW g \in W, NEW v \in Value,
             \A y \in Value : Height[y] < Height[v] => f[y] = g[y]
      PROVE  G[f][v] = G[g][v]
  <2>1. \A k \in DOMAIN v.f : f[v.f[k]] = g[v.f[k]]
    BY <1>2, TreeAssumption
  <2>2. Step(f)[v] = Step(g)[v]
    BY <2>1
  <2>3. QED
    BY <2>2
<1>3. PICK h \in W : h = G[h]
  <2>1. Height \in [Value -> Nat]
    BY TreeAssumption
  <2>2. W = [Value -> V]
    OBVIOUS
  <2> HIDE DEF V, W, G, start
  <2>3. Descends(G, W, Value, Height)
    BY <1>2 DEF Descends
  <2>4. G \in [W -> W] /\ start \in W
    BY <1>1
  <2>5. HasFixedPoint(G, W)
    BY <2>1, <2>2, <2>3, <2>4, RankedRecursion
  <2>6. QED
    BY <2>5 DEF HasFixedPoint
<1>4. h = Step(h)
  BY <1>3
<1>5. problemsOf = Step(problemsOf)
  <2> HIDE DEF V, W, G, start
  <2>1. QED
    BY ONLY <1>4, Zenon DEF problemsOf
<1>6. QED
  BY <1>5

(* A field is accepted as it is, whatever is inside it.                    *)
Accepted(s, v) ==
  /\ s.type = "any" \/ v.t = "null" \/ typesMatch(s.type, detectType(v))
  /\ s.enum = AnyValue \/ PrintedIn(v, s.enum)

Clean(s, v) == v.t = "object" => problemsOf[v][s] = {}

LEMMA NoProblems ==
  ASSUME NEW s \in Schema, NEW v \in Value
  PROVE  problemsOf[v][s] = {} <=>
           /\ s.required \subseteq DOMAIN v.f
           /\ \A k \in DOMAIN v.f \cap DOMAIN s.props :
                Accepted(s.props[k], v.f[k]) /\ Clean(s.props[k], v.f[k])
<1> DEFINE Inside(k) == IF v.f[k].t = "object" THEN problemsOf[v.f[k]][s.props[k]] ELSE {}
           all == {checkField(s.props[k], v.f[k], k) \cup Inside(k) : k \in DOMAIN v.f \cap DOMAIN s.props}
<1>1. problemsOf[v][s] = checkRequired(s, v) \cup UNION all
  BY ProblemsUnfold
<1>2. checkRequired(s, v) = {} <=> s.required \subseteq DOMAIN v.f
  BY DEF checkRequired
<1>3. ASSUME NEW k \in DOMAIN v.f \cap DOMAIN s.props
      PROVE  /\ checkField(s.props[k], v.f[k], k) = {} <=> Accepted(s.props[k], v.f[k])
             /\ Inside(k) = {} <=> Clean(s.props[k], v.f[k])
  BY DEF checkField, checkType, checkEnum, Accepted, Clean
<1> HIDE DEF Inside
<1>4. UNION all = {} <=> \A k \in DOMAIN v.f \cap DOMAIN s.props :
                           checkField(s.props[k], v.f[k], k) = {} /\ Inside(k) = {}
  OBVIOUS
<1> HIDE DEF all
<1>5. QED
  BY <1>1, <1>2, <1>3, <1>4

(* What is visited in a field is visited in the object.                    *)
LEMMA VisitsInside ==
  ASSUME NEW v \in Value, NEW s \in Schema
  PROVE  /\ <<v, s>> \in visits[v][s]
         /\ \A k \in DOMAIN v.f \cap DOMAIN s.props :
              visits[v.f[k]][s.props[k]] \subseteq visits[v][s]
<1> DEFINE all == {visits[v.f[k]][s.props[k]] : k \in DOMAIN v.f \cap DOMAIN s.props}
<1>1. visits[v][s] = {<<v, s>>} \cup UNION all
  BY VisitsUnfold
<1>2. \A k \in DOMAIN v.f \cap DOMAIN s.props : visits[v.f[k]][s.props[k]] \in all
  OBVIOUS
<1> HIDE DEF all
<1>3. QED
  BY <1>1, <1>2

(* Nothing visited in a value is a place where the validator is laxer, or  *)
(* one where it is stricter.                                               *)
NotLaxer(v, s) == \A spot \in visits[v][s] : ~Laxer(spot[1], spot[2])
NotStricter(v, s) == \A spot \in visits[v][s] : ~Stricter(spot[1], spot[2])

LEMMA NothingInside ==
  ASSUME NEW v \in Value, NEW s \in Schema, NEW k \in DOMAIN v.f \cap DOMAIN s.props
  PROVE  /\ NotLaxer(v, s) => ~Laxer(v, s) /\ NotLaxer(v.f[k], s.props[k])
         /\ NotStricter(v, s) => ~Stricter(v, s) /\ NotStricter(v.f[k], s.props[k])
BY VisitsInside DEF NotLaxer, NotStricter

LEMMA NothingHere ==
  ASSUME NEW v \in Value, NEW s \in Schema
  PROVE  /\ NotLaxer(v, s) => ~Laxer(v, s)
         /\ NotStricter(v, s) => ~Stricter(v, s)
BY VisitsInside DEF NotLaxer, NotStricter

(* A null that is not nullable is pruned, and never held to its schema.    *)
Pruned(s, v) == v.t = "null" /\ ~s.nullable

(* The fields of an object, when those in it are known to be admitted if   *)
(* the validator accepts them, and the other way round.                    *)
LEMMA FieldsAreAdmitted ==
  ASSUME NEW v \in Value, NEW s \in Schema, ~Laxer(v, s), problemsOf[v][s] = {},
         \A k \in DOMAIN v.f \cap DOMAIN s.props :
           /\ Accepted(s.props[k], v.f[k]) /\ Clean(s.props[k], v.f[k])
           /\ ~Pruned(s.props[k], v.f[k])
           => s.props[k] \in admitting[v.f[k]]
  PROVE  AdmitsSpec(s, v)
<1>1. /\ s.required \subseteq DOMAIN v.f
      /\ \A k \in DOMAIN v.f \cap DOMAIN s.props :
           Accepted(s.props[k], v.f[k]) /\ Clean(s.props[k], v.f[k])
  BY NoProblems
<1>2. s.required \subseteq Kept(s, v) \cup Defaulted(s)
  BY <1>1 DEF Laxer
<1>3. ASSUME NEW k \in Kept(s, v) PROVE SchemaOf(s, k) \in admitting[v.f[k]]
  <2>1. k \in DOMAIN v.f
    BY DEF Kept
  <2>2. CASE k \in DOMAIN s.props
    <3>1. SchemaOf(s, k) = s.props[k] /\ ~Pruned(s.props[k], v.f[k])
      BY <2>2 DEF SchemaOf, Kept, Pruned
    <3>2. QED
      BY <1>1, <2>1, <2>2, <3>1
  <2>3. CASE k \notin DOMAIN s.props
    <3>1. SchemaOf(s, k) = s.others
      BY <2>3 DEF SchemaOf
    <3>2. QED
      BY <2>3, <3>1 DEF Laxer
  <2>4. QED
    BY <2>2, <2>3
<1>4. QED
  BY <1>2, <1>3 DEF AdmitsSpec, Laxer

LEMMA FieldsAreClean ==
  ASSUME NEW v \in Value, NEW s \in Schema, ~Stricter(v, s), AdmitsSpec(s, v),
         \A k \in DOMAIN v.f \cap DOMAIN s.props :
           Pruned(s.props[k], v.f[k]) \/ s.props[k] \in admitting[v.f[k]]
             => Accepted(s.props[k], v.f[k]) /\ Clean(s.props[k], v.f[k])
  PROVE  problemsOf[v][s] = {}
<1>1. s.required \subseteq DOMAIN v.f
  BY DEF AdmitsSpec, Kept, Stricter
<1>2. ASSUME NEW k \in DOMAIN v.f \cap DOMAIN s.props
      PROVE  Pruned(s.props[k], v.f[k]) \/ s.props[k] \in admitting[v.f[k]]
  <2>1. SchemaOf(s, k) = s.props[k] /\ s.props[k] # None
    BY TreeAssumption, XrdAssumption DEF SchemaOf
  <2>2. ~Pruned(s.props[k], v.f[k]) => k \in Kept(s, v)
    BY <2>1 DEF Kept, Pruned
  <2>3. QED
    BY <2>1, <2>2 DEF AdmitsSpec
<1>3. QED
  BY <1>1, <1>2, NoProblems

(* Types, by what detectType tells of a value.                             *)
LEMMA TypesCompared ==
  ASSUME NEW v \in Value, NEW s \in Schema
  PROVE  /\ /\ s.type = "any" \/ v.t = "null" \/ typesMatch(s.type, detectType(v))
            /\ ~(s.type = "integer" /\ v.t = "number") /\ ~Pruned(s, v)
            => TypeAdmits(s, v)
         /\ TypeAdmits(s, v) =>
              s.type = "any" \/ v.t = "null" \/ typesMatch(s.type, detectType(v))
<1>1. v.t \in Types /\ s.type # "whole"
  BY TreeAssumption
<1>2. /\ detectType(v) = IF v.t = "whole" THEN "number" ELSE v.t
      /\ \A a : typesMatch(s.type, a) <=>
              \/ s.type = a
              \/ s.type = "integer" /\ a = "number"
              \/ s.type = "number" /\ a = "integer"
  BY DEF detectType, typesMatch
<1>3. ASSUME s.type = "any" \/ v.t = "null" \/ typesMatch(s.type, detectType(v)),
             ~(s.type = "integer" /\ v.t = "number"), ~Pruned(s, v)
      PROVE  TypeAdmits(s, v)
  <2>1. CASE s.type = "any" \/ v.t = "null"
    BY <1>3, <2>1 DEF TypeAdmits, Pruned
  <2>2. CASE typesMatch(s.type, detectType(v))
    <3>1. \/ s.type = detectType(v)
          \/ s.type = "integer" /\ detectType(v) = "number"
          \/ s.type = "number" /\ detectType(v) = "integer"
      BY <1>2, <2>2
    <3>2. QED
      BY <1>1, <1>2, <1>3, <3>1 DEF Types, TypeAdmits
  <2>3. QED
    BY <1>3, <2>1, <2>2
<1>4. ASSUME TypeAdmits(s, v)
      PROVE  s.type = "any" \/ v.t = "null" \/ typesMatch(s.type, detectType(v))
  <2>1. \/ s.type = "any" \/ v.t = "null" \/ s.type = v.t
        \/ s.type = "integer" /\ v.t = "whole"
        \/ s.type = "number" /\ v.t \in {"integer", "whole"}
    BY <1>4 DEF TypeAdmits
  <2>2. QED
    BY <1>1, <1>2, <2>1 DEF Types
<1>5. QED
  BY <1>3, <1>4

(* At every level: what the validator accepts the server admits if nothing *)
(* visited is a place where it is laxer, and what the server admits, or    *)
(* takes away, the validator accepts if nothing is one where it is         *)
(* stricter.                                                               *)
Agree(v, s) ==
  /\ NotLaxer(v, s) /\ Accepted(s, v) /\ Clean(s, v) /\ ~Pruned(s, v) => s \in admitting[v]
  /\ NotStricter(v, s) /\ (Pruned(s, v) \/ s \in admitting[v]) => Accepted(s, v) /\ Clean(s, v)

LEMMA RulesAgree ==
  \A v \in Value : \A s \in Schema : Agree(v, s)
<1> DEFINE S == {v \in Value : \A s \in Schema : Agree(v, s)}
<1>1. ASSUME NEW v \in Value, \A y \in Value : Height[y] < Height[v] => y \in S
      PROVE  v \in S
  <2> SUFFICES ASSUME NEW s \in Schema PROVE Agree(v, s)
    OBVIOUS
  <2>1. \A k \in DOMAIN v.f \cap DOMAIN s.props : Agree(v.f[k], s.props[k])
    BY <1>1, TreeAssumption
  <2> HIDE DEF S
  <2>2. ASSUME NotLaxer(v, s), Accepted(s, v), Clean(s, v), ~Pruned(s, v)
        PROVE  s \in admitting[v]
    <3>1. ~Laxer(v, s)
      BY <2>2, NothingHere
    <3>2. TypeAdmits(s, v)
      BY <2>2, <3>1, TypesCompared DEF Accepted, Laxer
    <3>3. s.enum = AnyValue \/ v \in s.enum
      BY <2>2, <3>1 DEF Accepted, Laxer
    <3>4. v \notin s.refuses /\ (s.items # None => \A y \in v.e : s.items \in admitting[y])
      BY <3>1 DEF Laxer
    <3>5. ASSUME v.t = "object" PROVE AdmitsSpec(s, v)
      <4>1. \A k \in DOMAIN v.f \cap DOMAIN s.props : NotLaxer(v.f[k], s.props[k])
        BY <2>2, NothingInside
      <4>2. problemsOf[v][s] = {}
        BY <2>2, <3>5 DEF Clean
      <4>3. \A k \in DOMAIN v.f \cap DOMAIN s.props :
              /\ Accepted(s.props[k], v.f[k]) /\ Clean(s.props[k], v.f[k])
              /\ ~Pruned(s.props[k], v.f[k])
              => s.props[k] \in admitting[v.f[k]]
        BY <2>1, <4>1 DEF Agree
      <4>4. QED
        BY <3>1, <4>2, <4>3, FieldsAreAdmitted
    <3>6. QED
      BY <3>2, <3>3, <3>4, <3>5, AdmittingUnfolds DEF AdmitsSpec
  <2>3. ASSUME NotStricter(v, s), Pruned(s, v)
        PROVE  Accepted(s, v) /\ Clean(s, v)
    <3>1. ~Stricter(v, s)
      BY <2>3, NothingHere
    <3>2. QED
      BY <2>3, <3>1 DEF Accepted, Clean, Pruned, Stricter
  <2>4. ASSUME NotStricter(v, s), s \in admitting[v]
        PROVE  Accepted(s, v) /\ Clean(s, v)
    <3>1. /\ TypeAdmits(s, v) /\ (s.enum = AnyValue \/ v \in s.enum)
          /\ v.t = "object" => AdmitsSpec(s, v)
      BY <2>4, AdmittingUnfolds DEF AdmitsSpec
    <3>2. Accepted(s, v)
      BY <3>1, TypesCompared DEF Accepted, PrintedIn
    <3>3. ASSUME v.t = "object" PROVE problemsOf[v][s] = {}
      <4>1. ~Stricter(v, s)
        BY <2>4, NothingHere
      <4>2. \A k \in DOMAIN v.f \cap DOMAIN s.props : NotStricter(v.f[k], s.props[k])
        BY <2>4, NothingInside
      <4>3. \A k \in DOMAIN v.f \cap DOMAIN s.props :
              Pruned(s.props[k], v.f[k]) \/ s.props[k] \in admitting[v.f[k]]
                => Accepted(s.props[k], v.f[k]) /\ Clean(s.props[k], v.f[k])
        BY <2>1, <4>2 DEF Agree
      <4>4. QED
        BY <3>1, <3>3, <4>1, <4>3, FieldsAreClean
    <3>4. QED
      BY <3>2, <3>3 DEF Clean
  <2>5. QED
    BY <2>2, <2>3, <2>4 DEF Agree
<1>2. Value \subseteq S
  <2>1. Height \in [Value -> Nat]
    BY TreeAssumption
  <2> HIDE DEF S
  <2>2. QED
    BY <1>1, <2>1, RankedInduction
<1>3. QED
  BY <1>2

-----------------------------------------------------------------------------
(* One XRD and one resource are looked at, and the verdict is whether the  *)
(* resource has an error by the XRD.                                       *)
ValidationInv ==
  \E x \in Xrds, r \in Resources :
    /\ manifests.xrds = {x} /\ manifests.resources = {r}
    /\ vstage \in {"scanned", "ended"}
    /\ vstage = "ended" => (verdict = 1 <=> r \in Composites /\ SchemaErrors(x, r) # {})

LEMMA ValidationInvariance == ValidationSpec => []ValidationInv
<1>1. ASSUME ValidationInit PROVE ValidationInv
  BY <1>1 DEF ValidationInit, ValidationInv
<1>2. ASSUME ValidationInv, Validate PROVE ValidationInv'
  <2>1. PICK x \in Xrds, r \in Resources : manifests.xrds = {x} /\ manifests.resources = {r}
    BY <1>2 DEF ValidationInv
  <2>2. manifests' = manifests /\ Composites' = Composites /\ Composites \subseteq {r}
    BY <1>2, <2>1 DEF Validate, Composites
  <2>3. validateXRDSchemas = IF r \in Composites THEN SchemaErrors(x, r) ELSE {}
    <3>1. manifests.xrds = {x} /\ (Composites = {r} \/ Composites = {})
      BY <2>1, <2>2
    <3>2. QED
      BY <3>1 DEF validateXRDSchemas
  <2>4. /\ \A p \in SchemaErrors(x, r) : p[1] = "error"
        /\ \A p \in validateProviderConfigRefs \cup validateCompositionRefs : p[1] = "warning"
    <3>1. \/ SchemaErrors(x, r) = {}
          \/ \E E : SchemaErrors(x, r) = {<<"error", r, e>> : e \in E}
      BY DEF SchemaErrors
    <3>2. \A p \in SchemaErrors(x, r) : p[1] = "error"
      BY <3>1
    <3>3. \A p \in validateProviderConfigRefs : p[1] = "warning"
      BY DEF validateProviderConfigRefs
    <3>4. \A p \in validateCompositionRefs : p[1] = "warning"
      <4> DEFINE C == {s \in manifests.resources :
                         s.class = "xr" /\ <<s.type, s.version>> \notin manifests.compositions}
      <4>1. validateCompositionRefs = {<<"warning", q, "composition">> : q \in C}
        BY DEF validateCompositionRefs
      <4> HIDE DEF C
      <4>2. QED
        BY <4>1
    <3>5. QED
      BY <3>2, <3>3, <3>4
  <2>5. (\E p \in problems' : p[1] = "error") <=> r \in Composites /\ SchemaErrors(x, r) # {}
    <3>1. problems' = validateXRDSchemas \cup (validateProviderConfigRefs \cup validateCompositionRefs)
      BY <1>2 DEF Validate
    <3>2. QED
      BY <2>3, <2>4, <3>1
  <2>6. verdict' = 1 <=> r \in Composites /\ SchemaErrors(x, r) # {}
    BY <1>2, <2>5 DEF Validate
  <2>7. vstage' = "ended"
    BY <1>2 DEF Validate
  <2>8. QED
    BY <2>1, <2>2, <2>6, <2>7 DEF ValidationInv
<1>3. ASSUME ValidationInv, UNCHANGED validationVars PROVE ValidationInv'
  BY <1>3 DEF ValidationInv, validationVars, Composites
<1>4. QED
  BY <1>1, <1>2, <1>3, PTL DEF ValidationSpec, ValidationNext

LEMMA VerdictAgrees == ValidationInv => ValidatorAgreesWithServer
<1> SUFFICES ASSUME ValidationInv, vstage = "ended",
                    NEW x \in manifests.xrds, NEW r \in Composites, NEW i \in VersionOf(r, x),
                    matchesXRD(r, x), HasSpec(r), x.versions[i].schema \notin {None, NoSpec},
                    \A j \in VersionOf(r, x) \cup ServedWithSchema(x.versions) : i <= j
             PROVE  LET s == x.versions[i].schema IN
                    /\ verdict = 1 => \/ ~AdmitsSpec(s, r.spec)
                                      \/ \E spot \in visits[r.spec][s] : Stricter(spot[1], spot[2])
                    /\ verdict = 0 => \/ AdmitsSpec(s, r.spec)
                                      \/ \E spot \in visits[r.spec][s] : Laxer(spot[1], spot[2])
  BY DEF ValidatorAgreesWithServer
<1> DEFINE s == x.versions[i].schema
<1>1. x \in Xrds /\ r \in Resources /\ (verdict = 1 <=> SchemaErrors(x, r) # {})
  <2>1. PICK y \in Xrds, q \in Resources :
          /\ manifests.xrds = {y} /\ manifests.resources = {q}
          /\ verdict = 1 <=> q \in Composites /\ SchemaErrors(y, q) # {}
    BY DEF ValidationInv
  <2>2. x = y /\ r = q
    BY <2>1 DEF Composites
  <2>3. QED
    BY <2>1, <2>2
<1>2. s \in Schema /\ r.spec \in Value /\ r.spec.t = "object"
  BY <1>1, XrdAssumption DEF VersionOf, HasSpec
<1>3. findServedVersionSchema(x.versions) = s
  <2>1. i \in ServedWithSchema(x.versions)
    BY DEF VersionOf, ServedWithSchema
  <2>2. \A j \in ServedWithSchema(x.versions) : j \in Nat
    BY <1>1, XrdAssumption DEF ServedWithSchema
  <2>3. Least(ServedWithSchema(x.versions)) = i
    BY <2>1, <2>2 DEF Least
  <2>4. QED
    BY <2>1, <2>3 DEF findServedVersionSchema
<1>4. SchemaErrors(x, r) # {} <=> problemsOf[r.spec][s] # {}
  <2>1. SchemaErrors(x, r) = {<<"error", r, e>> : e \in problemsOf[r.spec][s]}
    BY <1>3 DEF SchemaErrors, validateObject
  <2>2. QED
    BY <2>1
<1> HIDE DEF s
<1>5. \A k \in DOMAIN r.spec.f \cap DOMAIN s.props :
        r.spec.f[k] \in Value /\ s.props[k] \in Schema /\ Agree(r.spec.f[k], s.props[k])
  BY <1>2, TreeAssumption, RulesAgree
<1>6. ASSUME problemsOf[r.spec][s] = {}, NotLaxer(r.spec, s) PROVE AdmitsSpec(s, r.spec)
  <2>1. ~Laxer(r.spec, s)
    BY <1>2, <1>6, NothingHere
  <2>2. \A k \in DOMAIN r.spec.f \cap DOMAIN s.props : NotLaxer(r.spec.f[k], s.props[k])
    BY <1>2, <1>6, NothingInside
  <2>3. QED
    BY <1>2, <1>5, <1>6, <2>1, <2>2, FieldsAreAdmitted DEF Agree
<1>7. ASSUME AdmitsSpec(s, r.spec), NotStricter(r.spec, s) PROVE problemsOf[r.spec][s] = {}
  <2>1. ~Stricter(r.spec, s)
    BY <1>2, <1>7, NothingHere
  <2>2. \A k \in DOMAIN r.spec.f \cap DOMAIN s.props : NotStricter(r.spec.f[k], s.props[k])
    BY <1>2, <1>7, NothingInside
  <2>3. QED
    BY <1>2, <1>5, <1>7, <2>1, <2>2, FieldsAreClean DEF Agree
<1>8. /\ verdict = 1 => ~AdmitsSpec(s, r.spec) \/ ~NotStricter(r.spec, s)
      /\ verdict = 0 => AdmitsSpec(s, r.spec) \/ ~NotLaxer(r.spec, s)
  BY <1>1, <1>4, <1>6, <1>7
<1>9. QED
  BY <1>8 DEF NotStricter, NotLaxer, s

(* Where `validate` and the API server may differ about a composite, on    *)
(* values and schemas of any shape and depth: only at a value it comes to  *)
(* of which one of the named differences is true (validate.go:180-219,     *)
(* 255-258, 293-306).                                                      *)
THEOREM ValidatorIsTheServer == ValidationSpec => []ValidatorAgreesWithServer
<1>1. QED
  BY ValidationInvariance, VerdictAgrees, PTL

-----------------------------------------------------------------------------
(***************************************************************************)
(* The scan of directories, however their kustomizations refer to each     *)
(* other: what the calls under way have still to come to, and what has     *)
(* been come to.                                                           *)
(***************************************************************************)

FrameType == [on : {"kust", "entries"}, dir : Dir, at : Nat]

ScanTypeInv ==
  /\ tree \in Trees
  /\ scanning \in {"follow", "look", "done", "failed"}
  /\ given \in 0 .. Len(tree.given)
  /\ stack \in Seq(FrameType)
  /\ visited \in SUBSET Dir
  /\ count \in [File -> Nat]

(* What is left of a directory: a call on the stack that comes to place i. *)
ToComeIn(s, on, d, i) ==
  \E j \in 1 .. Len(s) : s[j].on = on /\ s[j].dir = d /\ s[j].at < i

StillToCome(on, d, i) == ToComeIn(stack, on, d, i)

(* What need not be gone into any more.                                    *)
AllBelowRead(d) == \A f \in File : f \in FilesBelow[d] /\ Readable(f) => count[f] > 0
Covered(d) == IF Plain(d) THEN AllBelowRead(d) ELSE d \in visited
Handled(e) ==
  /\ e \in Dir => e \in visited
  /\ e \in File /\ Readable(e) => count[e] > 0

Discoverable == LeadsTo(Given, Inner)

FitsIn(x, dirs) ==
  /\ x.at <= Len(Through(x))
  /\ x.on = "kust" => x.dir \in dirs /\ Followable(x.dir)
  /\ x.on = "entries" => x.dir \in Discoverable /\ (x.dir \in Given \/ Plain(x.dir))

FramesFit == \A j \in 1 .. Len(stack) : FitsIn(stack[j], visited)

VisitedCovered ==
  scanning # "failed" =>
    \A d \in visited : Covered(d) /\ tree.kust[d] # BadKustomization

ListedHandled ==
  scanning # "failed" =>
    \A d \in visited : Followable(d) =>
      \A i \in 1 .. Len(tree.kust[d]) : StillToCome("kust", d, i) \/ Handled(tree.kust[d][i])

GivenCovered ==
  scanning # "failed" =>
    \A i \in 1 .. Len(tree.given) : (scanning = "follow" => i <= given) => Covered(tree.given[i])

NothingElse ==
  /\ scanning = "follow" => visited \subseteq Reachable(Roots) /\ Read \subseteq Expected(Given)
  /\ scanning = "look" => visited \subseteq Reachable(Discoverable) /\ Read \subseteq Expected(Discoverable)

LookedInto ==
  scanning = "look" =>
    /\ Expected(Given) \subseteq Read
    /\ \A f \in Expected(Given) : tree.kind[f] # "crossplane"
    /\ \A g \in 1 .. given : LET d == tree.given[g] IN
         \A i \in 1 .. Len(Entries[d]) :
           StillToCome("entries", d, i) \/ (Entries[d][i] \in Dir => Covered(Entries[d][i]))

(* The occurrences of a file that have been come to.                       *)
Seen(f) ==
  IF ~Readable(f) THEN {}
  ELSE {[given |-> i] : i \in {j \in PlacesGiven(f) : j <= given}}
       \cup UNION {{[dir |-> d, at |-> i] : i \in {k \in PlacesIn(d, f) : ~StillToCome("kust", d, k)}} :
                     d \in visited}

Counted ==
  scanning = "follow" =>
    /\ \A j \in 1 .. Len(stack) : stack[j].on = "kust"
    /\ \A j, k \in 1 .. Len(stack) : stack[j].dir = stack[k].dir => j = k
    /\ \A f \in File : IsFiniteSet(Seen(f)) /\ count[f] = Cardinality(Seen(f))

ScanInv ==
  /\ ScanTypeInv /\ FramesFit /\ VisitedCovered /\ ListedHandled /\ GivenCovered
  /\ NothingElse /\ LookedInto /\ Counted
  /\ FindsTheManifests /\ ReadsDirectoriesOnce

(* Where directories lead.                                                 *)
LEMMA LeadsToIsClosed ==
  ASSUME NEW start \in SUBSET Dir, NEW to, \A d \in Dir : to[d] \in SUBSET Dir
  PROVE  /\ start \subseteq LeadsTo(start, to) /\ LeadsTo(start, to) \subseteq Dir
         /\ \A d \in LeadsTo(start, to) : to[d] \subseteq LeadsTo(start, to)
<1>1. start \subseteq LeadsTo(start, to) /\ LeadsTo(start, to) \subseteq Dir
  BY DEF LeadsTo
<1>2. ASSUME NEW d \in LeadsTo(start, to), NEW e \in to[d] PROVE e \in LeadsTo(start, to)
  <2>1. d \in Dir /\ e \in Dir
    BY <1>1
  <2>2. ASSUME NEW dirs \in SUBSET Dir, start \subseteq dirs, \A x \in dirs : to[x] \subseteq dirs
        PROVE  e \in dirs
    <3>1. d \in dirs
      BY <2>2 DEF LeadsTo
    <3>2. QED
      BY <2>2, <3>1
  <2>3. QED
    BY <2>1, <2>2 DEF LeadsTo
<1>3. QED
  BY <1>1, <1>2

LEMMA LeadsToIsLeast ==
  ASSUME NEW start, NEW to, NEW dirs \in SUBSET Dir,
         start \subseteq dirs, \A d \in dirs : to[d] \subseteq dirs
  PROVE  LeadsTo(start, to) \subseteq dirs
BY DEF LeadsTo

LEMMA LeadsToGrows ==
  ASSUME NEW start, NEW more \in SUBSET Dir, start \subseteq more, NEW to,
         \A d \in Dir : to[d] \in SUBSET Dir
  PROVE  LeadsTo(start, to) \subseteq LeadsTo(more, to)
<1>1. /\ LeadsTo(more, to) \in SUBSET Dir /\ start \subseteq LeadsTo(more, to)
      /\ \A d \in LeadsTo(more, to) : to[d] \subseteq LeadsTo(more, to)
  BY LeadsToIsClosed
<1>2. QED
  BY <1>1, LeadsToIsLeast

LEMMA LeadersAreTyped ==
  /\ \A d \in Dir : Listed[d] \in SUBSET Dir
  /\ \A d \in Dir : Inner[d] \in SUBSET Dir
BY DEF Listed, Inner, Subdirectories

LEMMA TreeIs ==
  ASSUME tree \in Trees
  PROVE  /\ tree.given \in Seq(Dir) /\ Given \subseteq Dir /\ Roots \subseteq Given
         /\ \A d \in Dir : Followable(d) => tree.kust[d] \in Seq(Dir \cup File) /\ ~Plain(d)
         /\ \A d \in Dir : Plain(d) \/ Followable(d) \/ tree.kust[d] = BadKustomization
<1>1. tree.given \in Seq(Dir)
  BY TreesAssumption
<1>2. Given \subseteq Dir
  BY <1>1 DEF Given, ToSet
<1>3. QED
  BY <1>1, <1>2, TreesAssumption DEF Followable, Plain, Roots

LEMMA ReachableIsClosed ==
  ASSUME NEW start \in SUBSET Dir
  PROVE  /\ start \subseteq Reachable(start) /\ Reachable(start) \subseteq Dir
         /\ \A d \in Reachable(start) : Listed[d] \subseteq Reachable(start)
BY LeadsToIsClosed, LeadersAreTyped DEF Reachable

LEMMA DiscoverableIsClosed ==
  ASSUME tree \in Trees
  PROVE  /\ Given \subseteq Discoverable /\ Discoverable \subseteq Dir
         /\ \A d \in Discoverable : Inner[d] \subseteq Discoverable
<1>1. Given \in SUBSET Dir
  BY TreeIs
<1>2. QED
  BY <1>1, LeadsToIsClosed, LeadersAreTyped DEF Discoverable

LEMMA ExpectedGrows ==
  ASSUME NEW start \in SUBSET Dir, NEW more \in SUBSET Dir, start \subseteq more
  PROVE  Reachable(start) \subseteq Reachable(more) /\ Expected(start) \subseteq Expected(more)
<1>1. Reachable(start) \subseteq Reachable(more)
  BY LeadsToGrows, LeadersAreTyped DEF Reachable
<1>2. QED
  BY <1>1 DEF Expected

(* Everything but what is known of the scan stays as it is with the tree.  *)
LEMMA TreeStays ==
  ASSUME tree' = tree
  PROVE  /\ Given' = Given /\ Roots' = Roots /\ Discoverable' = Discoverable
         /\ Listed' = Listed /\ Inner' = Inner
         /\ \A S : Reachable(S)' = Reachable(S) /\ Expected(S)' = Expected(S)
         /\ \A d : /\ Plain(d)' <=> Plain(d)
                   /\ Followable(d)' <=> Followable(d)
         /\ \A f : Readable(f)' <=> Readable(f)
         /\ \A d, f : PlacesIn(d, f)' = PlacesIn(d, f) /\ PlacesGiven(f)' = PlacesGiven(f)
         /\ \A f : Occurrences(f)' = Occurrences(f)
         /\ \A s : Through(s)' = Through(s)
<1>1. \A d : /\ Plain(d)' <=> Plain(d)
             /\ Followable(d)' <=> Followable(d)
  BY DEF Plain, Followable
<1>2. \A f : Readable(f)' <=> Readable(f)
  BY DEF Readable
<1>3. Given' = Given
  BY DEF Given
<1>4. Roots' = Roots
  BY <1>1, <1>3 DEF Roots
<1>5. Listed' = Listed
  BY <1>1 DEF Listed
<1>6. Inner' = Inner
  BY <1>1, <1>3 DEF Inner
<1>7. \A S : Reachable(S)' = Reachable(S)
  BY <1>5 DEF Reachable
<1>8. \A S : Expected(S)' = Expected(S)
  <2>1. \A d, f : Contributes(d, f)' <=> Contributes(d, f)
    BY <1>1 DEF Contributes
  <2>2. QED
    BY <1>2, <1>7, <2>1 DEF Expected
<1>9. Discoverable' = Discoverable
  BY <1>3, <1>6 DEF Discoverable
<1>10. \A d, f : PlacesIn(d, f)' = PlacesIn(d, f) /\ PlacesGiven(f)' = PlacesGiven(f)
  BY <1>1 DEF PlacesIn, PlacesGiven
<1>11. \A f : Occurrences(f)' = Occurrences(f)
  <2> SUFFICES ASSUME NEW f PROVE Occurrences(f)' = Occurrences(f)
    OBVIOUS
  <2>1. Reachable(Roots)' = Reachable(Roots)
    BY <1>4, <1>5 DEF Reachable
  <2>2. PlacesGiven(f)' = PlacesGiven(f)
    BY <1>1 DEF PlacesGiven
  <2> DEFINE inDir(d) == {[dir |-> d, at |-> i] : i \in PlacesIn(d, f)}
  <2>3. \A d : inDir(d)' = inDir(d)
    BY <1>10
  <2>4. Occurrences(f) = IF ~Readable(f) THEN {}
                         ELSE {[given |-> i] : i \in PlacesGiven(f)} \cup
                              UNION {inDir(d) : d \in Reachable(Roots)}
    BY DEF Occurrences
  <2>5. Occurrences(f)' = IF ~Readable(f)' THEN {}
                         ELSE {[given |-> i] : i \in PlacesGiven(f)'} \cup
                              UNION {inDir(d)' : d \in Reachable(Roots)'}
    BY DEF Occurrences
  <2> HIDE DEF inDir
  <2>6. QED
    BY <1>2, <2>1, <2>2, <2>3, <2>4, <2>5
<1>12. \A s : Through(s)' = Through(s)
  BY DEF Through
<1>13. QED
  BY <1>1, <1>2, <1>3, <1>4, <1>5, <1>6, <1>7, <1>8, <1>9, <1>10, <1>11, <1>12

(* Calls on the stack: one goes on, ends, or is added.                     *)
Onward(s) == <<[Head(s) EXCEPT !.at = @ + 1]>> \o Tail(s)

LEMMA OnwardIs ==
  ASSUME NEW s \in Seq(FrameType), s # << >>
  PROVE  /\ Onward(s) \in Seq(FrameType) /\ Len(Onward(s)) = Len(s)
         /\ Head(s) = s[1] /\ s[1] \in FrameType /\ Len(s) \in Nat \ {0}
         /\ Onward(s)[1] \in FrameType /\ Onward(s)[1].on = s[1].on
         /\ Onward(s)[1].dir = s[1].dir /\ Onward(s)[1].at = s[1].at + 1
         /\ \A j \in 2 .. Len(s) : Onward(s)[j] = s[j]
<1> DEFINE x == [Head(s) EXCEPT !.at = @ + 1]
           r == Tail(s)
<1>1. Head(s) = s[1] /\ s[1] \in FrameType /\ Len(s) \in Nat \ {0}
  OBVIOUS
<1>2. x \in FrameType /\ x.on = s[1].on /\ x.dir = s[1].dir /\ x.at = s[1].at + 1
  BY <1>1 DEF FrameType
<1>3. r \in Seq(FrameType) /\ Len(r) = Len(s) - 1 /\ \A j \in 1 .. Len(r) : r[j] = s[j + 1]
  OBVIOUS
<1>4. Onward(s) = <<x>> \o r
  BY DEF Onward
<1> HIDE DEF x, r
<1>5. Onward(s) \in Seq(FrameType) /\ Len(Onward(s)) = Len(s) /\ Onward(s)[1] = x
  BY <1>1, <1>2, <1>3, <1>4
<1>6. ASSUME NEW j \in 2 .. Len(s) PROVE Onward(s)[j] = s[j]
  <2>1. j - 1 \in 1 .. Len(r) /\ (j - 1) + 1 = j /\ j \in Nat
    BY <1>1, <1>3
  <2>2. Onward(s)[j] = r[j - 1]
    BY <1>2, <1>3, <1>4, <2>1
  <2>3. QED
    BY <1>3, <2>1, <2>2
<1>7. QED
  BY <1>1, <1>2, <1>5, <1>6

LEMMA AddedIs ==
  ASSUME NEW s \in Seq(FrameType), NEW x \in FrameType
  PROVE  /\ <<x>> \o s \in Seq(FrameType) /\ Len(<<x>> \o s) = Len(s) + 1 /\ Len(s) \in Nat
         /\ (<<x>> \o s)[1] = x
         /\ \A j \in 1 .. Len(s) : (<<x>> \o s)[j + 1] = s[j]
         /\ \A j \in 2 .. Len(s) + 1 : (<<x>> \o s)[j] = s[j - 1] /\ j - 1 \in 1 .. Len(s)
OBVIOUS

LEMMA EndedIs ==
  ASSUME NEW s \in Seq(FrameType), s # << >>
  PROVE  /\ Tail(s) \in Seq(FrameType) /\ Len(Tail(s)) = Len(s) - 1 /\ Len(s) \in Nat \ {0}
         /\ \A j \in 1 .. Len(Tail(s)) : Tail(s)[j] = s[j + 1]
         /\ \A j \in 2 .. Len(s) : Tail(s)[j - 1] = s[j] /\ j - 1 \in 1 .. Len(Tail(s))
OBVIOUS

LEMMA WaitsOnward ==
  ASSUME NEW s \in Seq(FrameType), s # << >>, NEW on, NEW d, NEW i \in Int
  PROVE  /\ ToComeIn(s, on, d, i) =>
              ToComeIn(Onward(s), on, d, i) \/ (on = s[1].on /\ d = s[1].dir /\ i = s[1].at + 1)
         /\ ToComeIn(Onward(s), on, d, i) => ToComeIn(s, on, d, i)
<1>1. ASSUME ToComeIn(s, on, d, i)
      PROVE  ToComeIn(Onward(s), on, d, i) \/ (on = s[1].on /\ d = s[1].dir /\ i = s[1].at + 1)
  <2>1. PICK j \in 1 .. Len(s) : s[j].on = on /\ s[j].dir = d /\ s[j].at < i
    BY <1>1 DEF ToComeIn
  <2>2. CASE j = 1
    <3>1. s[1].at \in Nat
      BY OnwardIs DEF FrameType
    <3>2. s[1].at + 1 < i \/ i = s[1].at + 1
      BY <2>1, <2>2, <3>1
    <3>3. QED
      BY <2>1, <2>2, <3>2, OnwardIs DEF ToComeIn
  <2>3. CASE j # 1
    <3>1. j \in 2 .. Len(s)
      BY <2>3
    <3>2. QED
      BY <2>1, <3>1, OnwardIs DEF ToComeIn
  <2>4. QED
    BY <2>2, <2>3
<1>2. ASSUME ToComeIn(Onward(s), on, d, i) PROVE ToComeIn(s, on, d, i)
  <2>1. PICK j \in 1 .. Len(s) : Onward(s)[j].on = on /\ Onward(s)[j].dir = d /\ Onward(s)[j].at < i
    BY <1>2, OnwardIs DEF ToComeIn
  <2>2. CASE j = 1
    <3>1. s[1].at \in Nat
      BY OnwardIs DEF FrameType
    <3>2. s[1].at < i
      BY <2>1, <2>2, <3>1, OnwardIs
    <3>3. QED
      BY <2>1, <2>2, <3>2, OnwardIs DEF ToComeIn
  <2>3. CASE j # 1
    <3>1. j \in 2 .. Len(s)
      BY <2>3
    <3>2. QED
      BY <2>1, <3>1, OnwardIs DEF ToComeIn
  <2>4. QED
    BY <2>2, <2>3
<1>3. QED
  BY <1>1, <1>2

LEMMA WaitsAdded ==
  ASSUME NEW s \in Seq(FrameType), NEW x \in FrameType, NEW on, NEW d, NEW i
  PROVE  ToComeIn(<<x>> \o s, on, d, i) <=>
           ToComeIn(s, on, d, i) \/ (x.on = on /\ x.dir = d /\ x.at < i)
<1>1. ASSUME ToComeIn(s, on, d, i) PROVE ToComeIn(<<x>> \o s, on, d, i)
  <2>1. PICK j \in 1 .. Len(s) : s[j].on = on /\ s[j].dir = d /\ s[j].at < i
    BY <1>1 DEF ToComeIn
  <2>2. j + 1 \in 1 .. Len(<<x>> \o s) /\ (<<x>> \o s)[j + 1] = s[j]
    BY AddedIs
  <2>3. QED
    BY <2>1, <2>2 DEF ToComeIn
<1>2. ASSUME x.on = on, x.dir = d, x.at < i PROVE ToComeIn(<<x>> \o s, on, d, i)
  <2>1. 1 \in 1 .. Len(<<x>> \o s) /\ (<<x>> \o s)[1] = x
    BY AddedIs
  <2>2. QED
    BY <1>2, <2>1 DEF ToComeIn
<1>3. ASSUME ToComeIn(<<x>> \o s, on, d, i)
      PROVE  ToComeIn(s, on, d, i) \/ (x.on = on /\ x.dir = d /\ x.at < i)
  <2> DEFINE w == <<x>> \o s
  <2>1. PICK j \in 1 .. Len(w) : w[j].on = on /\ w[j].dir = d /\ w[j].at < i
    BY <1>3 DEF ToComeIn
  <2>2. CASE j = 1
    BY <2>1, <2>2, AddedIs
  <2>3. CASE j # 1
    <3>1. j \in 2 .. Len(s) + 1
      BY <2>3, AddedIs
    <3>2. w[j] = s[j - 1] /\ j - 1 \in 1 .. Len(s)
      BY <3>1, AddedIs
    <3> HIDE DEF w
    <3>3. QED
      BY <2>1, <3>2 DEF ToComeIn
  <2>4. QED
    BY <2>2, <2>3
<1>4. QED
  BY <1>1, <1>2, <1>3

LEMMA WaitsEnded ==
  ASSUME NEW s \in Seq(FrameType), s # << >>, NEW on, NEW d, NEW i
  PROVE  /\ ToComeIn(s, on, d, i) =>
              ToComeIn(Tail(s), on, d, i) \/ (on = s[1].on /\ d = s[1].dir /\ s[1].at < i)
         /\ ToComeIn(Tail(s), on, d, i) => ToComeIn(s, on, d, i)
<1>1. ASSUME ToComeIn(s, on, d, i)
      PROVE  ToComeIn(Tail(s), on, d, i) \/ (on = s[1].on /\ d = s[1].dir /\ s[1].at < i)
  <2>1. PICK j \in 1 .. Len(s) : s[j].on = on /\ s[j].dir = d /\ s[j].at < i
    BY <1>1 DEF ToComeIn
  <2>2. CASE j # 1
    <3>1. j \in 2 .. Len(s)
      BY <2>2
    <3>2. Tail(s)[j - 1] = s[j] /\ j - 1 \in 1 .. Len(Tail(s))
      BY <3>1, EndedIs
    <3>3. QED
      BY <2>1, <3>2 DEF ToComeIn
  <2>3. QED
    BY <2>1, <2>2
<1>2. ASSUME ToComeIn(Tail(s), on, d, i) PROVE ToComeIn(s, on, d, i)
  <2>1. PICK j \in 1 .. Len(Tail(s)) : Tail(s)[j].on = on /\ Tail(s)[j].dir = d /\ Tail(s)[j].at < i
    BY <1>2 DEF ToComeIn
  <2>2. Tail(s)[j] = s[j + 1] /\ j + 1 \in 1 .. Len(s)
    BY EndedIs
  <2>3. QED
    BY <2>1, <2>2 DEF ToComeIn
<1>3. QED
  BY <1>1, <1>2

LEMMA NobodyWaits == \A on, d, i : ~ToComeIn(<< >>, on, d, i)
BY DEF ToComeIn

(* What a step may do with the directory or file e that it comes to.       *)
Rest == IF stack = << >> THEN << >> ELSE Onward(stack)

FromGiven(e) ==
  /\ stack = << >> /\ scanning = "follow" /\ given < Len(tree.given)
  /\ given' = given + 1 /\ e = tree.given[given + 1]

FromFrame(on, e) ==
  /\ stack # << >> /\ given' = given /\ stack[1].on = on
  /\ stack[1].at < Len(Through(stack[1]))
  /\ e = Through(stack[1])[stack[1].at + 1]

Skips == visited' = visited /\ count' = count /\ stack' = Rest

Calls(e) ==
  /\ e \in Dir \ visited /\ Followable(e)
  /\ visited' = visited \cup {e} /\ count' = count
  /\ stack' = <<Frame("kust", e, 0)>> \o Rest

Walks(e) ==
  /\ e \in Dir /\ Plain(e)
  /\ count' = Classified({f \in File : f \in FilesBelow[e] /\ Readable(f)})

Reads(e) ==
  /\ e \in File /\ count' = Classified({f \in {e} : Readable(f)})
  /\ visited' = visited /\ stack' = Rest

Takes(e) ==
  /\ tree' = tree /\ scanning' = scanning /\ scanning \in {"follow", "look"}
  /\ \/ FromGiven(e) /\ \/ Skips /\ e \in visited /\ ~Plain(e)
                        \/ Calls(e)
                        \/ Walks(e) /\ visited' = visited /\ stack' = Rest
     \/ FromFrame("kust", e) /\ \/ Skips /\ e \in visited
                                \/ Calls(e)
                                \/ Walks(e) /\ e \notin visited /\ visited' = visited \cup {e} /\ stack' = Rest
                                \/ Reads(e)
     \/ /\ FromFrame("entries", e) /\ scanning = "look"
        /\ \/ Skips /\ (e \in visited \/ e \notin Dir)
           \/ Calls(e)
           \/ Walks(e) /\ visited' = visited /\ stack' = <<Frame("entries", e, 0)>> \o Rest

Halts ==
  /\ tree' = tree /\ scanning' = "failed" /\ stack' = << >> /\ count' = count
  /\ visited' \in SUBSET Dir /\ given' \in 0 .. Len(tree.given)

LEMMA ScanIs ==
  ASSUME NEW d \in Dir, NEW rest, Plain(d), Scan(d, rest)
  PROVE  \/ scanning' = scanning /\ stack' = rest /\ Walks(d)
         \/ scanning' = "failed" /\ stack' = << >> /\ count' = count
<1> DEFINE files == {f \in File : f \in FilesBelow[d] /\ Yaml(f)}
<1>1. CASE /\ \A f \in files : Readable(f)
           /\ count' = Classified(files) /\ stack' = rest
           /\ UNCHANGED scanning
  <2>1. files = {f \in File : f \in FilesBelow[d] /\ Readable(f)}
    BY <1>1 DEF Yaml, Readable
  <2>2. QED
    BY <1>1, <2>1 DEF Walks
<1>2. QED
  BY <1>1 DEF Scan

LEMMA KustomizeIs ==
  ASSUME NEW d \in Dir, NEW rest, rest = Rest, scanKustomizeTree(d, rest), visited \in SUBSET Dir
  PROVE  \/ scanning' = scanning /\ Skips /\ d \in visited
         \/ scanning' = scanning /\ Calls(d)
         \/ /\ scanning' = scanning /\ Walks(d) /\ d \notin visited
            /\ visited' = visited \cup {d} /\ stack' = Rest
         \/ scanning' = "failed" /\ stack' = << >> /\ count' = count /\ visited' \in SUBSET Dir
<1>1. CASE d \notin visited /\ Plain(d) /\ visited' = Mark(d) /\ Scan(d, rest)
  BY <1>1, ScanIs DEF Mark
<1>2. QED
  BY <1>1 DEF scanKustomizeTree, Mark, Skips, Calls

LEMMA TopIs ==
  ASSUME stack # << >>, ScanTypeInv, FramesFit
  PROVE  /\ Top = stack[1] /\ stack[1] \in FrameType /\ Advanced = Rest
         /\ Len(Through(stack[1])) \in Nat /\ stack[1].at <= Len(Through(stack[1]))
         /\ Through(stack[1]) \in Seq(Dir \cup File)
         /\ ~AtEnd => stack[1].at < Len(Through(stack[1])) /\ Entry \in Dir \cup File
         /\ Entry = Through(stack[1])[stack[1].at + 1]
         /\ Len(stack) \in Nat \ {0}
<1>1. stack \in Seq(FrameType) /\ stack[1] \in FrameType /\ Len(stack) \in Nat \ {0} /\ Head(stack) = stack[1]
  BY OnwardIs DEF ScanTypeInv
<1>2. stack[1].at <= Len(Through(stack[1]))
  BY <1>1 DEF FramesFit, FitsIn
<1>3. Through(stack[1]) \in Seq(Dir \cup File)
  <2>1. CASE stack[1].on = "kust"
    <3>1. Followable(stack[1].dir) /\ stack[1].dir \in Dir
      BY <1>1, <2>1 DEF FramesFit, FitsIn, FrameType
    <3>2. QED
      BY <2>1, <3>1, TreeIs DEF ScanTypeInv, Through
  <2>2. CASE stack[1].on # "kust"
    <3>1. stack[1].dir \in Dir
      BY <1>1 DEF FrameType
    <3>2. QED
      BY <2>2, <3>1, PathsAssumption DEF Through
  <2>3. QED
    BY <2>1, <2>2
<1>4. Len(Through(stack[1])) \in Nat /\ stack[1].at \in Nat
  BY <1>1, <1>3 DEF FrameType
<1>5. Top = stack[1]
  BY <1>1 DEF Top
<1>6. Advanced = Rest
  BY DEF Advanced, Rest, Onward, Top
<1>7. ASSUME ~AtEnd PROVE stack[1].at < Len(Through(stack[1])) /\ Entry \in Dir \cup File
  <2>1. stack[1].at < Len(Through(stack[1]))
    BY <1>2, <1>4, <1>5, <1>7 DEF AtEnd
  <2>2. stack[1].at + 1 \in 1 .. Len(Through(stack[1]))
    BY <1>4, <2>1
  <2>3. QED
    BY <1>3, <1>5, <2>1, <2>2 DEF Entry
<1>8. QED
  BY <1>1, <1>2, <1>3, <1>4, <1>5, <1>6, <1>7 DEF Entry

(* Every step of the scan takes up one entry, fails, or is one of four.    *)
LEMMA ScanSteps ==
  ASSUME ScanTypeInv, FramesFit, ScanNext
  PROVE  Halts \/ (\E e \in Dir \cup File : Takes(e)) \/ Return \/ AllFollowed \/ LookInto \/ AllLookedInto
<1>0. /\ visited \in SUBSET Dir /\ given \in 0 .. Len(tree.given) /\ Len(tree.given) \in Nat
      /\ tree.given \in Seq(Dir) /\ scanning \in {"follow", "look", "done", "failed"}
  BY TreeIs DEF ScanTypeInv
<1>1. CASE ScanGiven
  <2> DEFINE e == tree.given[given + 1]
  <2>1. e \in Dir /\ given' \in 0 .. Len(tree.given) /\ FromGiven(e) /\ tree' = tree /\ Rest = << >>
    BY <1>0, <1>1 DEF ScanGiven, FromGiven, Rest
  <2>2. \/ ~Plain(e) /\ scanKustomizeTree(e, Rest)
        \/ Plain(e) /\ Scan(e, Rest) /\ UNCHANGED visited
    BY <1>1, <2>1 DEF ScanGiven
  <2>3. scanning = "follow"
    BY <1>1 DEF ScanGiven
  <2> HIDE DEF e
  <2>4. CASE ~Plain(e) /\ scanKustomizeTree(e, Rest)
    <3>1. Halts \/ \/ scanning' = scanning /\ Skips /\ e \in visited
                   \/ scanning' = scanning /\ Calls(e)
                   \/ scanning' = scanning /\ Walks(e) /\ e \notin visited /\ visited' = visited \cup {e} /\ stack' = Rest
      BY <1>0, <2>1, <2>4, KustomizeIs DEF Halts
    <3>2. QED
      BY <2>1, <2>3, <2>4, <3>1 DEF Takes, Walks
  <2>5. CASE Plain(e) /\ Scan(e, Rest) /\ UNCHANGED visited
    <3>1. \/ scanning' = scanning /\ stack' = Rest /\ Walks(e)
          \/ scanning' = "failed" /\ stack' = << >> /\ count' = count
      BY <2>1, <2>5, ScanIs
    <3>2. QED
      BY <1>0, <2>1, <2>3, <2>5, <3>1 DEF Takes, Halts
  <2>6. QED
    BY <2>2, <2>4, <2>5
<1>2. CASE FollowDirectory
  <2>1. /\ Entry \in Dir /\ FromFrame("kust", Entry) /\ tree' = tree /\ given' = given
        /\ scanning \in {"follow", "look"} /\ scanKustomizeTree(Entry, Rest)
    BY <1>2, TopIs DEF FollowDirectory, FromFrame
  <2>2. Halts \/ \/ scanning' = scanning /\ Skips /\ Entry \in visited
                 \/ scanning' = scanning /\ Calls(Entry)
                 \/ /\ scanning' = scanning /\ Walks(Entry) /\ Entry \notin visited
                    /\ visited' = visited \cup {Entry} /\ stack' = Rest
    BY <1>0, <2>1, KustomizeIs DEF Halts
  <2>3. QED
    BY <2>1, <2>2 DEF Takes
<1>3. CASE ReadListed
  <2>1. /\ Entry \in File /\ FromFrame("kust", Entry) /\ tree' = tree /\ given' = given
        /\ scanning' = scanning /\ scanning \in {"follow", "look"} /\ Reads(Entry)
    BY <1>3, TopIs DEF ReadListed, FromFrame, Reads
  <2>2. QED
    BY <2>1 DEF Takes
<1>4. CASE LookAtEntry
  <2>1. /\ Entry \in Dir \cup File /\ FromFrame("entries", Entry) /\ tree' = tree /\ given' = given
        /\ scanning = "look" /\ Advanced = Rest
    BY <1>4, TopIs DEF LookAtEntry, FromFrame
  <2>2. CASE (Entry \notin Dir \/ Entry \in visited) /\ stack' = Advanced /\ UNCHANGED <<scanning, visited, count>>
    BY <2>1, <2>2 DEF Takes, Skips
  <2>3. CASE Entry \in Dir \ visited /\ ~Plain(Entry) /\ scanKustomizeTree(Entry, Advanced)
    <3>1. Halts \/ \/ scanning' = scanning /\ Calls(Entry)
                   \/ scanning' = scanning /\ Skips /\ Entry \in visited
                   \/ scanning' = scanning /\ Walks(Entry)
      BY <1>0, <2>1, <2>3, KustomizeIs DEF Halts
    <3>2. QED
      BY <2>1, <2>3, <3>1 DEF Takes, Walks
  <2>4. CASE /\ Entry \in Dir \ visited /\ Plain(Entry)
             /\ Scan(Entry, <<Frame("entries", Entry, 0)>> \o Advanced) /\ UNCHANGED visited
    <3> DEFINE more == <<Frame("entries", Entry, 0)>> \o Rest
    <3>1. \/ scanning' = scanning /\ stack' = more /\ Walks(Entry)
          \/ scanning' = "failed" /\ stack' = << >> /\ count' = count
      BY <2>1, <2>4, ScanIs
    <3>2. QED
      BY <1>0, <2>1, <2>4, <3>1 DEF Takes, Halts
  <2>5. QED
    BY <1>4, <2>2, <2>3, <2>4 DEF LookAtEntry
<1>5. QED
  BY <1>1, <1>2, <1>3, <1>4 DEF ScanNext

LEMMA ScanGrows ==
  ASSUME tree' = tree, visited \subseteq visited',
         \A f \in File : count[f] > 0 => count'[f] > 0
  PROVE  /\ \A d : Covered(d) => Covered(d)'
         /\ \A e : Handled(e) => Handled(e)'
         /\ Read \subseteq Read'
<1>1. \A d : (Plain(d)' <=> Plain(d)) /\ \A f : Readable(f)' <=> Readable(f)
  BY TreeStays
<1>2. QED
  BY <1>1 DEF Covered, Handled, AllBelowRead, Read

(* How often a file is in the result once files have been read.            *)
LEMMA ClassifiedIs ==
  ASSUME NEW files, count \in [File -> Nat], count' = Classified(files)
  PROVE  /\ count' \in [File -> Nat]
         /\ \A f \in File : /\ count'[f] = IF f \in files THEN count[f] + 1 ELSE count[f]
                            /\ count[f] > 0 => count'[f] > 0
                            /\ f \in files => count'[f] > 0
                            /\ count'[f] > 0 => count[f] > 0 \/ f \in files
BY DEF Classified

(* The files that the entry e brings.                                      *)
Brings(e, f) ==
  Readable(f) /\ ((Reads(e) /\ f = e) \/ (Walks(e) /\ f \in FilesBelow[e]))

LEMMA TakesFiles ==
  ASSUME ScanTypeInv, NEW e, Takes(e)
  PROVE  /\ count' \in [File -> Nat]
         /\ \A f \in File : /\ count'[f] = IF Brings(e, f) THEN count[f] + 1 ELSE count[f]
                            /\ count[f] > 0 => count'[f] > 0
                            /\ Brings(e, f) => count'[f] > 0
                            /\ count'[f] > 0 => count[f] > 0 \/ Brings(e, f)
<1>1. count \in [File -> Nat]
  BY DEF ScanTypeInv
<1>2. e \in File => ~(e \in Dir)
  BY PathsAssumption
<1>3. CASE Reads(e)
  <2>1. ~Walks(e)
    BY <1>2, <1>3 DEF Reads, Walks
  <2>2. \A f \in File : f \in {x \in {e} : Readable(x)} <=> Brings(e, f)
    <3> HIDE DEF Reads
    <3>1. QED
      BY <1>3, <2>1 DEF Brings
  <2>3. count' = Classified({x \in {e} : Readable(x)})
    BY <1>3 DEF Reads
  <2>4. QED
    BY <1>1, <2>2, <2>3, ClassifiedIs
<1>4. CASE Walks(e)
  <2>1. \A f \in File : f \in {x \in File : x \in FilesBelow[e] /\ Readable(x)} <=> Brings(e, f)
    BY <1>2, <1>4 DEF Brings, Reads, Walks
  <2>2. QED
    BY <1>1, <1>4, <2>1, ClassifiedIs DEF Walks
<1>5. CASE ~Reads(e) /\ ~Walks(e)
  <2>1. count' = count
    BY <1>5 DEF Takes, Skips, Calls
  <2>2. \A f : ~Brings(e, f)
    BY <1>5 DEF Brings
  <2>3. QED
    BY <1>1, <2>1, <2>2
<1>6. QED
  BY <1>3, <1>4, <1>5

LEMMA FramesAre ==
  ASSUME NEW e \in Dir
  PROVE  /\ Frame("kust", e, 0) \in FrameType /\ Frame("entries", e, 0) \in FrameType
         /\ Frame("kust", e, 0).on = "kust" /\ Frame("kust", e, 0).dir = e /\ Frame("kust", e, 0).at = 0
         /\ Frame("entries", e, 0).on = "entries" /\ Frame("entries", e, 0).dir = e
         /\ Frame("entries", e, 0).at = 0
BY DEF Frame, FrameType

(* What becomes of the calls, and of the directories visited.              *)
LEMMA TakesCalls ==
  ASSUME ScanTypeInv, FramesFit, NEW e \in Dir \cup File, Takes(e)
  PROVE  /\ tree' = tree /\ scanning' = scanning /\ scanning \in {"follow", "look"}
         /\ Rest \in Seq(FrameType)
         /\ \/ stack' = Rest
            \/ stack' = <<Frame("kust", e, 0)>> \o Rest /\ Calls(e)
            \/ /\ stack' = <<Frame("entries", e, 0)>> \o Rest /\ Walks(e)
               /\ FromFrame("entries", e) /\ scanning = "look"
         /\ visited' \in SUBSET Dir /\ visited \subseteq visited'
         /\ visited' = visited \/ (visited' = visited \cup {e} /\ e \notin visited /\ (Calls(e) \/ Walks(e)))
<1>1. visited \in SUBSET Dir /\ stack \in Seq(FrameType)
  BY DEF ScanTypeInv
<1>2. Rest \in Seq(FrameType)
  BY <1>1, OnwardIs DEF Rest
<1>3. tree' = tree /\ scanning' = scanning /\ scanning \in {"follow", "look"}
  BY DEF Takes
<1>4. \/ Skips \/ Calls(e) \/ Reads(e)
      \/ Walks(e) /\ visited' = visited /\ stack' = Rest
      \/ Walks(e) /\ e \notin visited /\ visited' = visited \cup {e} /\ stack' = Rest
      \/ /\ Walks(e) /\ visited' = visited /\ stack' = <<Frame("entries", e, 0)>> \o Rest
         /\ FromFrame("entries", e) /\ scanning = "look"
  BY DEF Takes
<1>5. Calls(e) => e \in Dir \ visited /\ visited' = visited \cup {e} /\ stack' = <<Frame("kust", e, 0)>> \o Rest
  BY DEF Calls
<1>6. Walks(e) => e \in Dir
  BY DEF Walks
<1>7. (Skips \/ Reads(e)) => visited' = visited /\ stack' = Rest
  BY DEF Skips, Reads
<1>8. QED
  BY <1>1, <1>2, <1>3, <1>4, <1>5, <1>6, <1>7

LEMMA TakesTypes ==
  ASSUME ScanTypeInv, FramesFit, NEW e \in Dir \cup File, Takes(e)
  PROVE  ScanTypeInv'
<1>1. stack' \in Seq(FrameType)
  <2>1. CASE stack' = Rest
    BY <2>1, TakesCalls
  <2>2. CASE stack' = <<Frame("kust", e, 0)>> \o Rest /\ Calls(e)
    <3>1. e \in Dir
      BY <2>2 DEF Calls
    <3>2. QED
      BY <2>2, <3>1, TakesCalls, FramesAre, AddedIs
  <2>3. CASE stack' = <<Frame("entries", e, 0)>> \o Rest /\ Walks(e)
    <3>1. e \in Dir
      BY <2>3 DEF Walks
    <3>2. QED
      BY <2>3, <3>1, TakesCalls, FramesAre, AddedIs
  <2>4. QED
    BY <2>1, <2>2, <2>3, TakesCalls
<1>2. given' \in 0 .. Len(tree'.given)
  <2>0. tree.given \in Seq(Dir)
    BY TreeIs DEF ScanTypeInv
  <2>1. given \in 0 .. Len(tree.given) /\ tree' = tree /\ Len(tree.given) \in Nat
    <3>1. Len(tree.given) \in Nat
      BY <2>0
    <3>2. QED
      BY <3>1, TakesCalls DEF ScanTypeInv
  <2>2. given' = given \/ (given < Len(tree.given) /\ given' = given + 1)
    BY DEF Takes, FromGiven, FromFrame
  <2>3. QED
    BY <2>1, <2>2
<1>3. visited' \in SUBSET Dir
  BY TakesCalls
<1>4. count' \in [File -> Nat]
  BY TakesFiles
<1>5. tree' \in Trees /\ scanning' \in {"follow", "look", "done", "failed"}
  BY TakesCalls DEF ScanTypeInv
<1>6. QED
  BY <1>1, <1>2, <1>3, <1>4, <1>5 DEF ScanTypeInv

LEMMA TakesGrows ==
  ASSUME ScanTypeInv, FramesFit, NEW e \in Dir \cup File, Takes(e)
  PROVE  /\ \A d : Covered(d) => Covered(d)'
         /\ \A x : Handled(x) => Handled(x)'
         /\ Read \subseteq Read'
BY TakesCalls, TakesFiles, ScanGrows

LEMMA TakesWaiting ==
  ASSUME ScanTypeInv, FramesFit, NEW e \in Dir \cup File, Takes(e),
         NEW on, NEW d, NEW i \in Int, StillToCome(on, d, i)
  PROVE  StillToCome(on, d, i)' \/ (FromFrame(on, e) /\ d = stack[1].dir /\ i = stack[1].at + 1)
<1>1. stack \in Seq(FrameType) /\ ToComeIn(stack, on, d, i)
  BY DEF ScanTypeInv, StillToCome
<1>2. stack # << >> /\ Rest = Onward(stack)
  BY <1>1, NobodyWaits DEF Rest
<1>3. \E how \in {"kust", "entries"} : FromFrame(how, e)
  BY <1>2 DEF Takes, FromGiven
<1>4. \A how : FromFrame(how, e) /\ on = stack[1].on => FromFrame(on, e)
  BY DEF FromFrame
<1>5. ToComeIn(Rest, on, d, i) \/ (FromFrame(on, e) /\ d = stack[1].dir /\ i = stack[1].at + 1)
  BY <1>1, <1>2, <1>3, <1>4, WaitsOnward
<1>6. ToComeIn(Rest, on, d, i) => ToComeIn(stack', on, d, i)
  <2>1. CASE stack' = Rest
    BY <2>1
  <2>2. CASE stack' = <<Frame("kust", e, 0)>> \o Rest /\ Calls(e)
    <3>1. e \in Dir
      BY <2>2 DEF Calls
    <3>2. QED
      BY <2>2, <3>1, TakesCalls, FramesAre, WaitsAdded
  <2>3. CASE stack' = <<Frame("entries", e, 0)>> \o Rest /\ Walks(e)
    <3>1. e \in Dir
      BY <2>3 DEF Walks
    <3>2. QED
      BY <2>3, <3>1, TakesCalls, FramesAre, WaitsAdded
  <2>4. QED
    BY <2>1, <2>2, <2>3, TakesCalls
<1>7. StillToCome(on, d, i)' <=> ToComeIn(stack', on, d, i)
  BY DEF StillToCome, ToComeIn
<1>8. QED
  BY <1>5, <1>6, <1>7

(* The entry taken up needs nothing more, except for the call for it.      *)
LEMMA TakesEntry ==
  ASSUME ScanTypeInv, FramesFit, VisitedCovered, NEW e \in Dir \cup File, Takes(e)
  PROVE  /\ FromFrame("kust", e) => Handled(e)'
         /\ FromFrame("entries", e) /\ e \in Dir => Covered(e)'
         /\ FromGiven(e) => Covered(e)'
         /\ e \in visited' => Covered(e)' /\ tree.kust[e] # BadKustomization
<1>1. \A d : (Plain(d)' <=> Plain(d)) /\ \A f : Readable(f)' <=> Readable(f)
  BY TakesCalls, TreeStays
<1>2. visited \in SUBSET Dir /\ scanning # "failed" /\ Dir \cap File = {}
  BY PathsAssumption, TakesCalls DEF ScanTypeInv
<1>3. e \in visited => e \in visited' /\ Covered(e)' /\ tree.kust[e] # BadKustomization
  BY <1>2, TakesGrows, TakesCalls DEF VisitedCovered
<1>4. Calls(e) => e \in Dir /\ e \in visited' /\ Covered(e)' /\ tree.kust[e] # BadKustomization
  BY <1>1 DEF Calls, Covered, Followable, Plain
<1>5. Walks(e) => e \in Dir /\ Covered(e)' /\ tree.kust[e] # BadKustomization
  <2> SUFFICES ASSUME Walks(e) PROVE e \in Dir /\ Covered(e)' /\ tree.kust[e] # BadKustomization
    OBVIOUS
  <2>1. e \in Dir /\ Plain(e) /\ \A f \in File : f \in FilesBelow[e] /\ Readable(f) => count'[f] > 0
    BY TakesFiles DEF Brings, Walks
  <2>2. NoKustomization # BadKustomization
    BY DEF NoKustomization, BadKustomization
  <2>3. QED
    BY <1>1, <2>1, <2>2 DEF Covered, AllBelowRead, Plain
<1>6. Reads(e) => e \in File /\ (Readable(e) => count'[e] > 0)
  BY TakesFiles DEF Brings, Reads
<1>7. FromFrame("kust", e) => Handled(e)'
  <2> SUFFICES ASSUME FromFrame("kust", e) PROVE Handled(e)'
    OBVIOUS
  <2>1. \/ e \in visited \/ Calls(e) \/ (Walks(e) /\ visited' = visited \cup {e}) \/ Reads(e)
    BY DEF Takes, FromFrame, FromGiven
  <2>2. CASE Reads(e)
    BY <1>1, <1>2, <1>6, <2>2 DEF Handled
  <2>3. CASE e \in visited' /\ e \in Dir
    BY <1>2, <2>3 DEF Handled
  <2>4. QED
    BY <1>2, <1>3, <1>4, <1>5, <2>1, <2>2, <2>3
<1>8. FromFrame("entries", e) /\ e \in Dir => Covered(e)'
  <2> SUFFICES ASSUME FromFrame("entries", e), e \in Dir PROVE Covered(e)'
    OBVIOUS
  <2>1. e \in visited \/ Calls(e) \/ Walks(e)
    BY DEF Takes, FromFrame, FromGiven
  <2>2. QED
    BY <1>3, <1>4, <1>5, <2>1
<1>9. FromGiven(e) => Covered(e)'
  <2> SUFFICES ASSUME FromGiven(e) PROVE Covered(e)'
    OBVIOUS
  <2>1. e \in visited \/ Calls(e) \/ Walks(e)
    BY DEF Takes, FromFrame, FromGiven
  <2>2. QED
    BY <1>3, <1>4, <1>5, <2>1
<1>10. e \in visited' => Covered(e)' /\ tree.kust[e] # BadKustomization
  BY <1>3, <1>4, <1>5, TakesCalls
<1>11. QED
  BY <1>7, <1>8, <1>9, <1>10

LEMMA TakesCovers ==
  ASSUME ScanTypeInv, FramesFit, VisitedCovered, GivenCovered, NEW e \in Dir \cup File, Takes(e)
  PROVE  VisitedCovered' /\ GivenCovered'
<1>1. tree' = tree /\ scanning' = scanning /\ scanning \in {"follow", "look"}
  BY TakesCalls
<1>2. ASSUME NEW d \in visited' PROVE Covered(d)' /\ tree'.kust[d] # BadKustomization
  <2>1. CASE d \in visited
    BY <1>1, <2>1, TakesGrows DEF VisitedCovered
  <2>2. CASE d \notin visited
    <3>1. d = e
      BY <1>2, <2>2, TakesCalls
    <3>2. QED
      BY <1>1, <1>2, <3>1, TakesEntry
  <2>3. QED
    BY <2>1, <2>2
<1>3. VisitedCovered'
  BY <1>2 DEF VisitedCovered
<1>4. ASSUME NEW i \in 1 .. Len(tree.given), scanning = "follow" => i <= given'
      PROVE  Covered(tree.given[i])'
  <2>1. CASE scanning = "follow" => i <= given
    BY <1>1, <1>4, <2>1, TakesGrows DEF GivenCovered
  <2>2. CASE ~(scanning = "follow" => i <= given)
    <3>1. given \in Nat /\ i \in Nat /\ ~(i <= given) /\ i <= given'
      BY <1>4, <2>2 DEF ScanTypeInv
    <3>2. FromGiven(e)
      BY <3>1 DEF Takes, FromFrame
    <3>3. i = given + 1 /\ e = tree.given[i]
      BY <3>1, <3>2 DEF FromGiven
    <3>4. QED
      BY <1>1, <3>2, <3>3, TakesEntry
  <2>3. QED
    BY <2>1, <2>2
<1>5. GivenCovered'
  BY <1>1, <1>4 DEF GivenCovered
<1>6. QED
  BY <1>3, <1>5

(* The entry that the innermost call comes to.                             *)
LEMMA EntryIs ==
  ASSUME ScanTypeInv, FramesFit, NEW e \in Dir \cup File, NEW on, FromFrame(on, e)
  PROVE  /\ stack[1] \in FrameType /\ stack[1].on = on /\ FitsIn(stack[1], visited)
         /\ stack[1].dir \in Dir /\ stack[1].at \in Nat
         /\ stack[1].at + 1 \in 1 .. Len(Through(stack[1]))
         /\ e = Through(stack[1])[stack[1].at + 1]
         /\ on = "kust" => Through(stack[1]) = tree.kust[stack[1].dir]
         /\ on = "entries" => Through(stack[1]) = Entries[stack[1].dir]
         /\ Through(stack[1]) \in Seq(Dir \cup File) /\ stack # << >> /\ Rest = Onward(stack)
<1>1. /\ stack # << >> /\ stack[1].on = on /\ stack[1].at < Len(Through(stack[1]))
      /\ e = Through(stack[1])[stack[1].at + 1]
  BY DEF FromFrame
<1>2. /\ stack[1] \in FrameType /\ Len(Through(stack[1])) \in Nat /\ Len(stack) \in Nat \ {0}
      /\ Through(stack[1]) \in Seq(Dir \cup File)
  BY <1>1, TopIs
<1>3. stack[1].dir \in Dir /\ stack[1].at \in Nat
  BY <1>2 DEF FrameType
<1>4. FitsIn(stack[1], visited)
  BY <1>2 DEF FramesFit
<1>5. stack[1].at + 1 \in 1 .. Len(Through(stack[1]))
  BY <1>1, <1>2, <1>3
<1>6. QED
  BY <1>1, <1>2, <1>3, <1>4, <1>5 DEF Through, Rest

LEMMA EntryIsDiscoverable ==
  ASSUME ScanTypeInv, FramesFit, NEW e \in Dir, FromFrame("entries", e)
  PROVE  e \in Discoverable
<1> DEFINE d == stack[1].dir
<1>1. /\ d \in Discoverable /\ (d \in Given \/ Plain(d)) /\ d \in Dir
      /\ stack[1].at + 1 \in 1 .. Len(Entries[d]) /\ e = Entries[d][stack[1].at + 1]
  BY EntryIs DEF FitsIn
<1>2. e \in Inner[d]
  <2>1. Entries[d] \in Seq(Dir \cup File)
    BY <1>1, PathsAssumption
  <2> HIDE DEF d
  <2>2. e \in ToSet(Entries[d])
    BY <1>1, <2>1 DEF ToSet
  <2>3. QED
    BY <1>1, <2>2 DEF Inner, Subdirectories
<1> HIDE DEF d
<1>3. QED
  BY <1>1, <1>2, DiscoverableIsClosed DEF ScanTypeInv

LEMMA TakesFit ==
  ASSUME ScanTypeInv, FramesFit, NEW e \in Dir \cup File, Takes(e)
  PROVE  FramesFit'
<1>1. tree' = tree /\ visited \subseteq visited' /\ Rest \in Seq(FrameType)
  BY TakesCalls
<1>2. \A x : FitsIn(x, visited) => FitsIn(x, visited')
  BY <1>1 DEF FitsIn
<1>3. \A x, dirs : FitsIn(x, dirs)' <=> FitsIn(x, dirs)
  BY <1>1, TreeStays DEF FitsIn
<1>4. ASSUME NEW j \in 1 .. Len(Rest) PROVE FitsIn(Rest[j], visited')
  <2>1. stack # << >> /\ Rest = Onward(stack) /\ stack \in Seq(FrameType)
    BY <1>4 DEF Rest, ScanTypeInv
  <2>2. CASE j = 1
    <3>1. PICK on : FromFrame(on, e)
      BY <2>1 DEF Takes, FromGiven
    <3>2. stack[1].at + 1 <= Len(Through(stack[1])) /\ FitsIn(stack[1], visited)
      BY <3>1, EntryIs
    <3>3. Rest[1].on = stack[1].on /\ Rest[1].dir = stack[1].dir /\ Rest[1].at = stack[1].at + 1
      BY <2>1, OnwardIs
    <3>4. Through(Rest[1]) = Through(stack[1])
      BY <3>3 DEF Through
    <3>5. FitsIn(Rest[1], visited)
      BY <3>2, <3>3, <3>4 DEF FitsIn
    <3>6. QED
      BY <1>2, <2>2, <3>5
  <2>3. CASE j # 1
    <3>1. j \in 2 .. Len(stack)
      BY <2>1, <2>3, OnwardIs
    <3>2. Rest[j] = stack[j]
      BY <2>1, <3>1, OnwardIs
    <3>3. FitsIn(stack[j], visited)
      BY <3>1 DEF FramesFit
    <3>4. QED
      BY <1>2, <3>2, <3>3
  <2>4. QED
    BY <2>2, <2>3
<1>10. (\A j \in 1 .. Len(stack') : FitsIn(stack'[j], visited')) => FramesFit'
  BY <1>3 DEF FramesFit
<1>5. ASSUME NEW x \in FrameType, FitsIn(x, visited'), stack' = <<x>> \o Rest
      PROVE  FramesFit'
  <2>1. ASSUME NEW j \in 1 .. Len(stack') PROVE FitsIn(stack'[j], visited')
    <3>1. CASE j = 1
      BY <1>1, <1>5, <3>1, AddedIs
    <3>2. CASE j # 1
      <4>1. j \in 2 .. Len(Rest) + 1
        BY <1>1, <1>5, <3>2, AddedIs
      <4>2. stack'[j] = Rest[j - 1] /\ j - 1 \in 1 .. Len(Rest)
        BY <1>1, <1>5, <4>1, AddedIs
      <4>3. QED
        BY <1>4, <4>2
    <3>3. QED
      BY <3>1, <3>2
  <2>2. QED
    BY <1>10, <2>1
<1>6. CASE stack' = Rest
  BY <1>4, <1>6, <1>10
<1>7. CASE stack' = <<Frame("kust", e, 0)>> \o Rest /\ Calls(e)
  <2>1. e \in Dir /\ e \in visited' /\ Followable(e)
    BY <1>7 DEF Calls
  <2>2. Len(Through(Frame("kust", e, 0))) \in Nat
    BY <2>1, TreeIs, FramesAre DEF Through, ScanTypeInv
  <2>3. FitsIn(Frame("kust", e, 0), visited')
    BY <2>1, <2>2, FramesAre DEF FitsIn
  <2>4. QED
    BY <1>5, <1>7, <2>1, <2>3, FramesAre
<1>8. CASE /\ stack' = <<Frame("entries", e, 0)>> \o Rest /\ Walks(e)
           /\ FromFrame("entries", e)
  <2>1. e \in Dir /\ e \in Discoverable /\ Plain(e)
    BY <1>8, EntryIsDiscoverable DEF Walks
  <2>2. Through(Frame("entries", e, 0)) = Entries[e]
    BY <2>1, FramesAre DEF Through
  <2>3. Len(Entries[e]) \in Nat
    BY <2>1, PathsAssumption
  <2>4. FitsIn(Frame("entries", e, 0), visited')
    BY <2>1, <2>2, <2>3, FramesAre DEF FitsIn
  <2>5. QED
    BY <1>5, <1>8, <2>1, <2>4, FramesAre
<1>9. QED
  BY <1>6, <1>7, <1>8, TakesCalls

LEMMA TakesListed ==
  ASSUME ScanTypeInv, FramesFit, VisitedCovered, ListedHandled, NEW e \in Dir \cup File, Takes(e)
  PROVE  ListedHandled'
<1>1. /\ tree' = tree /\ scanning' = scanning /\ scanning # "failed"
      /\ visited \subseteq visited' /\ visited' \in SUBSET Dir /\ Rest \in Seq(FrameType)
  BY TakesCalls
<1>2. ASSUME NEW d \in visited', Followable(d)', NEW i \in 1 .. Len(tree.kust[d])
      PROVE  StillToCome("kust", d, i)' \/ Handled(tree.kust[d][i])'
  <2>1. Followable(d) /\ i \in 1 .. Len(tree.kust[d]) /\ d \in Dir
    BY <1>1, <1>2, TreeStays
  <2>2. CASE d \in visited
    <3>1. StillToCome("kust", d, i) \/ Handled(tree.kust[d][i])
      BY <1>1, <2>1, <2>2 DEF ListedHandled
    <3>2. CASE Handled(tree.kust[d][i])
      BY <1>1, <3>2, TakesGrows
    <3>3. CASE FromFrame("kust", e) /\ d = stack[1].dir /\ i = stack[1].at + 1
      <4>1. e = tree.kust[d][i]
        BY <3>3, EntryIs
      <4>2. QED
        BY <1>1, <3>3, <4>1, TakesEntry
    <3>4. QED
      BY <3>1, <3>2, <3>3, TakesWaiting
  <2>3. CASE d \notin visited
    <3>1. d = e /\ (Calls(e) \/ Walks(e))
      BY <1>2, <2>3, TakesCalls
    <3>2. ~Plain(e)
      BY <2>1, <3>1 DEF Followable, Plain
    <3>3. Calls(e) /\ e \in Dir
      BY <2>1, <3>1, <3>2 DEF Walks
    <3>4. stack' = <<Frame("kust", e, 0)>> \o Rest
      BY <3>3 DEF Calls
    <3>5. ToComeIn(stack', "kust", e, i)
      BY <1>1, <2>1, <3>3, <3>4, FramesAre, WaitsAdded
    <3>6. QED
      BY <3>1, <3>5 DEF StillToCome, ToComeIn
  <2>4. QED
    BY <2>2, <2>3
<1>3. QED
  BY <1>1, <1>2 DEF ListedHandled

(* The directories from which what has been visited, and read, is reached. *)
VisitsFrom == IF scanning = "follow" THEN Roots ELSE Discoverable
ReadsFrom == IF scanning = "follow" THEN Given ELSE Discoverable

LEMMA ReachIs ==
  ASSUME ScanTypeInv
  PROVE  /\ VisitsFrom \in SUBSET Dir /\ ReadsFrom \in SUBSET Dir /\ Given \subseteq ReadsFrom
         /\ Reachable(VisitsFrom) \subseteq Reachable(ReadsFrom)
         /\ scanning \in {"follow", "look"} =>
              (NothingElse <=> visited \subseteq Reachable(VisitsFrom) /\ Read \subseteq Expected(ReadsFrom))
<1>1. Given \in SUBSET Dir /\ Roots \subseteq Given /\ Given \subseteq Discoverable /\ Discoverable \subseteq Dir
  BY TreeIs, DiscoverableIsClosed DEF ScanTypeInv
<1>2. /\ VisitsFrom \in SUBSET Dir /\ ReadsFrom \in SUBSET Dir /\ VisitsFrom \subseteq ReadsFrom
      /\ Given \subseteq ReadsFrom
  BY <1>1 DEF VisitsFrom, ReadsFrom
<1>3. Reachable(VisitsFrom) \subseteq Reachable(ReadsFrom)
  BY <1>2, ExpectedGrows
<1>4. scanning \in {"follow", "look"} =>
        (NothingElse <=> visited \subseteq Reachable(VisitsFrom) /\ Read \subseteq Expected(ReadsFrom))
  BY DEF NothingElse, VisitsFrom, ReadsFrom
<1>5. QED
  BY <1>2, <1>3, <1>4

LEMMA EntryReached ==
  ASSUME ScanTypeInv, FramesFit, NothingElse, NEW e \in Dir \cup File, Takes(e)
  PROVE  /\ e \in visited' => e \in Reachable(VisitsFrom)
         /\ \A f \in File : Brings(e, f) => \E d \in Reachable(ReadsFrom) : Contributes(d, f)
<1>1. /\ visited \subseteq Reachable(VisitsFrom) /\ scanning \in {"follow", "look"}
      /\ visited \in SUBSET Dir /\ VisitsFrom \subseteq Reachable(VisitsFrom)
      /\ Given \subseteq Reachable(ReadsFrom) /\ Reachable(VisitsFrom) \subseteq Reachable(ReadsFrom)
  BY TakesCalls, ReachIs, ReachableIsClosed DEF ScanTypeInv
<1>2. e \in File => e \notin Dir
  BY PathsAssumption
<1>3. \A d \in Reachable(VisitsFrom) : Listed[d] \subseteq Reachable(VisitsFrom)
  BY ReachIs, ReachableIsClosed
<1>4. \A f \in File : Brings(e, f) /\ Walks(e) /\ e \in Reachable(ReadsFrom) =>
                        \E d \in Reachable(ReadsFrom) : Contributes(d, f)
  <2> SUFFICES ASSUME NEW f \in File, Brings(e, f), Walks(e), e \in Reachable(ReadsFrom)
               PROVE  Contributes(e, f)
    OBVIOUS
  <2>1. Plain(e) /\ e \in Dir
    BY DEF Walks
  <2>2. f \in FilesBelow[e]
    BY <1>2, <2>1 DEF Brings, Reads
  <2>3. QED
    BY <2>1, <2>2 DEF Contributes
<1>5. CASE FromGiven(e)
  <2>1. e \in Given /\ scanning = "follow"
    <3>1. tree.given \in Seq(Dir)
      BY TreeIs DEF ScanTypeInv
    <3>2. given + 1 \in 1 .. Len(tree.given)
      BY <1>5, <3>1 DEF FromGiven, ScanTypeInv
    <3>3. QED
      BY <1>5, <3>1, <3>2 DEF FromGiven, Given, ToSet
  <2>2. \/ e \in visited /\ ~Walks(e) /\ ~Reads(e)
        \/ Calls(e) /\ ~Plain(e)
        \/ Walks(e) /\ visited' = visited
    <3>1. e \in Dir /\ ~Reads(e)
      BY <1>2, <2>1, TreeIs DEF ScanTypeInv, Reads
    <3>2. Skips /\ e \in visited /\ ~Plain(e) => ~Walks(e)
      BY DEF Walks
    <3>3. Calls(e) => ~Plain(e)
      BY DEF Calls, Plain, Followable
    <3>4. QED
      BY <1>5, <3>1, <3>2, <3>3 DEF Takes, FromGiven, FromFrame
  <2>3. ~Plain(e) => e \in VisitsFrom
    BY <2>1 DEF VisitsFrom, Roots
  <2>4. e \in visited' => e \in Reachable(VisitsFrom)
    BY <1>1, <2>2, <2>3
  <2>5. ~Walks(e) => \A f \in File : ~Brings(e, f)
    <3>1. e \in Dir
      BY <2>1, TreeIs DEF ScanTypeInv
    <3>2. QED
      BY <1>2, <3>1 DEF Brings, Reads
  <2>6. e \in Reachable(ReadsFrom)
    BY <1>1, <2>1
  <2>7. QED
    BY <1>4, <2>4, <2>5, <2>6
<1>6. CASE FromFrame("kust", e)
  <2> DEFINE d == stack[1].dir
  <2>1. /\ d \in visited /\ Followable(d) /\ stack[1].at + 1 \in 1 .. Len(tree.kust[d])
        /\ e = tree.kust[d][stack[1].at + 1] /\ tree.kust[d] \in Seq(Dir \cup File) /\ d \in Dir
    BY <1>6, EntryIs DEF FitsIn
  <2> HIDE DEF d
  <2>2. d \in Reachable(VisitsFrom) /\ d \in Reachable(ReadsFrom) /\ ~Plain(d)
    BY <1>1, <2>1 DEF Plain, Followable
  <2>3. e \in ToSet(tree.kust[d])
    BY <2>1 DEF ToSet
  <2>4. e \in Dir => e \in Reachable(VisitsFrom)
    <3>1. e \in Dir => e \in Listed[d]
      BY <2>1, <2>2, <2>3 DEF Listed
    <3>2. QED
      BY <1>3, <2>2, <3>1
  <2>5. \A f \in File : Brings(e, f) /\ ~Walks(e) => Contributes(d, f)
    BY <2>2, <2>3 DEF Brings, Contributes
  <2>6. Walks(e) => e \in Reachable(ReadsFrom)
    BY <1>1, <2>4 DEF Walks
  <2>7. e \in visited' => e \in Reachable(VisitsFrom)
    BY <2>4, TakesCalls
  <2>8. QED
    BY <1>4, <2>2, <2>5, <2>6, <2>7
<1>7. CASE FromFrame("entries", e) /\ scanning = "look"
  <2>1. e \in Dir => e \in Reachable(VisitsFrom)
    BY <1>1, <1>7, EntryIsDiscoverable DEF VisitsFrom
  <2>2. e \in visited' => e \in Reachable(VisitsFrom)
    BY <2>1, TakesCalls
  <2>3. Walks(e) => e \in Reachable(ReadsFrom)
    BY <1>1, <2>1 DEF Walks
  <2>4. ASSUME NEW f \in File, Brings(e, f) PROVE Walks(e)
    <3>1. Skips \/ Calls(e) \/ Walks(e)
      BY <1>7 DEF Takes, FromFrame, FromGiven
    <3>2. count'[f] = count[f] + 1 /\ count[f] \in Nat
      BY <2>4, TakesFiles DEF ScanTypeInv
    <3>3. ~Skips
      BY <3>2 DEF Skips
    <3>4. Calls(e) => e \notin File
      BY <1>2 DEF Calls
    <3>5. QED
      BY <2>4, <3>1, <3>3, <3>4 DEF Brings, Reads
  <2>5. QED
    BY <1>4, <2>2, <2>3, <2>4
<1>8. QED
  BY <1>5, <1>6, <1>7 DEF Takes

LEMMA TakesNothingElse ==
  ASSUME ScanTypeInv, FramesFit, NothingElse, NEW e \in Dir \cup File, Takes(e)
  PROVE  NothingElse'
<1>1. tree' = tree /\ scanning' = scanning /\ scanning \in {"follow", "look"}
  BY TakesCalls
<1>2. visited \subseteq Reachable(VisitsFrom) /\ Read \subseteq Expected(ReadsFrom)
  BY <1>1, ReachIs
<1>3. visited' \subseteq Reachable(VisitsFrom)
  BY <1>2, TakesCalls, EntryReached
<1>4. Read' \subseteq Expected(ReadsFrom)
  <2> SUFFICES ASSUME NEW f \in File, count'[f] > 0, count[f] = 0 PROVE f \in Expected(ReadsFrom)
    BY <1>2 DEF Read, ScanTypeInv
  <2>1. Brings(e, f)
    BY TakesFiles
  <2>2. QED
    BY <2>1, EntryReached DEF Expected, Brings
<1>5. VisitsFrom' = VisitsFrom /\ ReadsFrom' = ReadsFrom
  BY <1>1, TreeStays DEF VisitsFrom, ReadsFrom
<1>6. Reachable(VisitsFrom)' = Reachable(VisitsFrom) /\ Expected(ReadsFrom)' = Expected(ReadsFrom)
  <2>1. Reachable(VisitsFrom)' = LeadsTo(VisitsFrom', Listed')
    BY DEF Reachable, LeadsTo
  <2>2. QED
    BY <1>1, <1>5, TreeStays
<1>7. NothingElse' <=> visited' \subseteq Reachable(VisitsFrom) /\ Read' \subseteq Expected(ReadsFrom)
  BY <1>1, <1>5, <1>6 DEF NothingElse, VisitsFrom, ReadsFrom
<1>8. QED
  BY <1>3, <1>4, <1>7

LEMMA TakesLooked ==
  ASSUME ScanTypeInv, FramesFit, VisitedCovered, LookedInto, NEW e \in Dir \cup File, Takes(e)
  PROVE  LookedInto'
<1>1. /\ tree' = tree /\ scanning' = scanning /\ Read \subseteq Read'
      /\ tree.given \in Seq(Dir)
  BY TakesCalls, TakesGrows, TreeIs DEF ScanTypeInv
<1>2. CASE scanning # "look"
  BY <1>1, <1>2 DEF LookedInto
<1>3. CASE scanning = "look"
  <2>1. Expected(Given) \subseteq Read /\ \A f \in Expected(Given) : tree.kind[f] # "crossplane"
    BY <1>3 DEF LookedInto
  <2>2. given' = given
    BY <1>3 DEF Takes, FromGiven, FromFrame
  <2>3. ASSUME NEW g \in 1 .. given, NEW i \in 1 .. Len(Entries[tree.given[g]]),
               Entries[tree.given[g]][i] \in Dir
        PROVE  StillToCome("entries", tree.given[g], i)' \/ Covered(Entries[tree.given[g]][i])'
    <3> DEFINE d == tree.given[g]
    <3>1. StillToCome("entries", d, i) \/ Covered(Entries[d][i])
      BY <1>3, <2>3 DEF LookedInto
    <3>2. CASE Covered(Entries[d][i])
      BY <1>1, <3>2, TakesGrows
    <3>3. CASE StillToCome("entries", d, i)
      <4>1. StillToCome("entries", tree.given[g], i)' \/ (FromFrame("entries", e) /\ d = stack[1].dir /\ i = stack[1].at + 1)
        BY <1>1, <3>3, TakesWaiting
      <4>2. CASE FromFrame("entries", e) /\ d = stack[1].dir /\ i = stack[1].at + 1
        <5>1. e = Entries[d][i]
          BY <4>2, EntryIs
        <5>2. QED
          BY <1>1, <2>3, <4>2, <5>1, TakesEntry
      <4>3. QED
        BY <4>1, <4>2
    <3>4. QED
      BY <3>1, <3>2, <3>3
  <2>4. Expected(Given)' = Expected(Given)
    <3>1. Given' = Given /\ \A S : Expected(S)' = Expected(S)
      BY <1>1, TreeStays
    <3>2. QED
      BY <3>1
  <2>5. QED
    BY <1>1, <1>3, <2>1, <2>2, <2>3, <2>4 DEF LookedInto
<1>4. QED
  BY <1>2, <1>3

(* The occurrence of f at place k of directory d has been come to.         *)
CameTo(f, d, k) == d \in visited /\ k \in PlacesIn(d, f) /\ ~StillToCome("kust", d, k)

LEMMA OccurrencesDiffer ==
  ASSUME NEW i, NEW d, NEW k
  PROVE  /\ [given |-> i] # [dir |-> d, at |-> k]
         /\ \A j : [given |-> i] = [given |-> j] => i = j
         /\ \A x, y : [dir |-> d, at |-> k] = [dir |-> x, at |-> y] => d = x /\ k = y
<1>1. [given |-> i] # [dir |-> d, at |-> k]
  <2>1. "given" \in DOMAIN [given |-> i]
    OBVIOUS
  <2>2. "given" \notin DOMAIN [dir |-> d, at |-> k]
    OBVIOUS
  <2>3. QED
    BY <2>1, <2>2
<1>2. ASSUME NEW j, [given |-> i] = [given |-> j] PROVE i = j
  <2>1. [given |-> i].given = i /\ [given |-> j].given = j
    OBVIOUS
  <2>2. QED
    BY <1>2, <2>1
<1>3. ASSUME NEW x, NEW y, [dir |-> d, at |-> k] = [dir |-> x, at |-> y] PROVE d = x /\ k = y
  <2>1. /\ [dir |-> d, at |-> k].dir = d /\ [dir |-> x, at |-> y].dir = x
        /\ [dir |-> d, at |-> k].at = k /\ [dir |-> x, at |-> y].at = y
    OBVIOUS
  <2>2. QED
    BY <1>3, <2>1
<1>4. QED
  BY <1>1, <1>2, <1>3

LEMMA SeenIs ==
  \A f, z : z \in Seen(f) <=>
     /\ Readable(f)
     /\ \/ \E i \in PlacesGiven(f) : i <= given /\ z = [given |-> i]
        \/ \E d, k : CameTo(f, d, k) /\ z = [dir |-> d, at |-> k]
BY DEF Seen, CameTo

LEMMA SeenWillBe ==
  ASSUME tree' = tree
  PROVE  \A f, z : z \in Seen(f)' <=>
           /\ Readable(f)
           /\ \/ \E i \in PlacesGiven(f) : i <= given' /\ z = [given |-> i]
              \/ \E d, k : CameTo(f, d, k)' /\ z = [dir |-> d, at |-> k]
<1>1. /\ \A f : (Readable(f)' <=> Readable(f)) /\ PlacesGiven(f)' = PlacesGiven(f)
      /\ \A d, f : PlacesIn(d, f)' = PlacesIn(d, f)
  BY TreeStays
<1>2. QED
  BY <1>1 DEF Seen, CameTo

LEMMA SeenStays ==
  ASSUME tree' = tree, NEW f,
         \A i \in PlacesGiven(f) : i <= given' <=> i <= given,
         \A d, k : CameTo(f, d, k)' <=> CameTo(f, d, k)
  PROVE  Seen(f)' = Seen(f)
<1>1. \A z : z \in Seen(f)' <=> z \in Seen(f)
  BY SeenIs, SeenWillBe
<1>2. QED
  BY <1>1

LEMMA UnreadableIsNotSeen ==
  ASSUME tree' = tree, NEW f, ~Readable(f)
  PROVE  Seen(f)' = Seen(f)
<1>1. \A z : z \in Seen(f)' <=> z \in Seen(f)
  BY SeenIs, SeenWillBe
<1>2. QED
  BY <1>1

LEMMA SeenInDirectory ==
  ASSUME tree' = tree, NEW f, Readable(f), NEW dn, NEW kn,
         \A i \in PlacesGiven(f) : i <= given' <=> i <= given,
         \A d, k : CameTo(f, d, k)' <=> CameTo(f, d, k) \/ (d = dn /\ k = kn),
         ~CameTo(f, dn, kn)
  PROVE  \E z : z \notin Seen(f) /\ Seen(f)' = Seen(f) \cup {z}
<1> DEFINE n == [dir |-> dn, at |-> kn]
<1>1. n \notin Seen(f)
  BY SeenIs, OccurrencesDiffer
<1>2. \A z : z \in Seen(f)' <=> z \in Seen(f) \/ z = n
  <2> SUFFICES ASSUME NEW z PROVE z \in Seen(f)' <=> z \in Seen(f) \/ z = n
    OBVIOUS
  <2>1. (\E d, k : CameTo(f, d, k)' /\ z = [dir |-> d, at |-> k]) <=>
          (\E d, k : CameTo(f, d, k) /\ z = [dir |-> d, at |-> k]) \/ z = n
    OBVIOUS
  <2>2. QED
    BY <2>1, SeenIs, SeenWillBe
<1>3. Seen(f)' = Seen(f) \cup {n}
  BY <1>2
<1>4. QED
  BY <1>1, <1>3

LEMMA SeenGiven ==
  ASSUME tree' = tree, NEW f, Readable(f), NEW new \in PlacesGiven(f),
         \A i \in PlacesGiven(f) : i <= given' <=> i <= given \/ i = new,
         ~(new <= given),
         \A d, k : CameTo(f, d, k)' <=> CameTo(f, d, k)
  PROVE  \E z : z \notin Seen(f) /\ Seen(f)' = Seen(f) \cup {z}
<1> DEFINE n == [given |-> new]
<1>1. n \notin Seen(f)
  BY SeenIs, OccurrencesDiffer
<1>2. \A z : z \in Seen(f)' <=> z \in Seen(f) \/ z = n
  <2> SUFFICES ASSUME NEW z PROVE z \in Seen(f)' <=> z \in Seen(f) \/ z = n
    OBVIOUS
  <2>1. (\E i \in PlacesGiven(f) : i <= given' /\ z = [given |-> i]) <=>
          (\E i \in PlacesGiven(f) : i <= given /\ z = [given |-> i]) \/ z = n
    OBVIOUS
  <2>2. QED
    BY <2>1, SeenIs, SeenWillBe
<1>3. Seen(f)' = Seen(f) \cup {n}
  BY <1>2
<1>4. QED
  BY <1>1, <1>3

(* No two calls go through the same directory: only one waits for a place. *)
Distinct == \A j, k \in 1 .. Len(stack) : stack[j].dir = stack[k].dir => j = k

LEMMA WaitsOnce ==
  ASSUME ScanTypeInv, FramesFit, Distinct, NEW e \in Dir \cup File, FromFrame("kust", e),
         NEW d, NEW k \in Int
  PROVE  ToComeIn(Rest, "kust", d, k) <=>
           ToComeIn(stack, "kust", d, k) /\ ~(d = stack[1].dir /\ k = stack[1].at + 1)
<1>1. stack \in Seq(FrameType) /\ stack # << >> /\ Rest = Onward(stack) /\ stack[1].on = "kust"
  BY EntryIs DEF ScanTypeInv
<1>2. ToComeIn(stack, "kust", d, k) /\ ~(d = stack[1].dir /\ k = stack[1].at + 1)
        => ToComeIn(Rest, "kust", d, k)
  BY <1>1, WaitsOnward
<1>3. ToComeIn(Rest, "kust", d, k) => ToComeIn(stack, "kust", d, k)
  BY <1>1, WaitsOnward
<1>4. ASSUME ToComeIn(Rest, "kust", d, k), d = stack[1].dir, k = stack[1].at + 1 PROVE FALSE
  <2>1. PICK j \in 1 .. Len(Rest) : Rest[j].dir = d /\ Rest[j].at < k
    BY <1>4 DEF ToComeIn
  <2>2. j # 1
    <3>1. Rest[1].at = k /\ k \in Nat
      BY <1>1, <1>4, OnwardIs, EntryIs
    <3>2. QED
      BY <2>1, <3>1
  <2>3. j \in 2 .. Len(stack) /\ Len(stack) \in Nat \ {0}
    BY <1>1, <2>2, OnwardIs
  <2>4. Rest[j] = stack[j]
    BY <1>1, <2>3, OnwardIs
  <2>5. 1 \in 1 .. Len(stack) /\ j \in 1 .. Len(stack)
    BY <2>3
  <2>6. QED
    BY <1>4, <2>1, <2>2, <2>4, <2>5 DEF Distinct
<1>5. QED
  BY <1>2, <1>3, <1>4

LEMMA PlacesAreNumbers ==
  ASSUME tree \in Trees, NEW d \in Dir, NEW f, NEW k \in PlacesIn(d, f)
  PROVE  /\ k \in Nat
         /\ Plain(d) => k = 0 /\ f \in FilesBelow[d]
         /\ Followable(d) => k \in 1 .. Len(tree.kust[d]) /\ tree.kust[d][k] = f
<1>1. CASE Plain(d)
  <2>1. k = 0 /\ f \in FilesBelow[d]
    BY <1>1 DEF PlacesIn
  <2>2. QED
    BY <1>1, <2>1 DEF Followable, Plain
<1>2. CASE ~Plain(d)
  <2>1. k \in 1 .. Len(tree.kust[d]) /\ tree.kust[d][k] = f
    BY <1>2 DEF PlacesIn
  <2>2. QED
    BY <1>2, <2>1
<1>3. QED
  BY <1>1, <1>2

(* Whether the entry e brings f: without a new file nothing is brought.    *)
LEMMA BringsIs ==
  ASSUME ScanTypeInv, NEW e, Takes(e), NEW f \in File
  PROVE  /\ Skips \/ Calls(e) => ~Brings(e, f)
         /\ Reads(e) => (Brings(e, f) <=> Readable(f) /\ f = e)
         /\ Walks(e) => (Brings(e, f) <=> Readable(f) /\ f \in FilesBelow[e])
<1>1. Brings(e, f) => count'[f] = count[f] + 1 /\ count[f] \in Nat
  BY TakesFiles DEF ScanTypeInv
<1>2. Skips \/ Calls(e) => count' = count
  BY DEF Skips, Calls
<1>3. ~(Reads(e) /\ Walks(e))
  BY PathsAssumption DEF Reads, Walks
<1>4. QED
  BY <1>1, <1>2, <1>3 DEF Brings

LEMMA NoneWaitsAtZero ==
  ASSUME NEW s \in Seq(FrameType), NEW on, NEW d
  PROVE  ~ToComeIn(s, on, d, 0)
<1>1. ASSUME NEW j \in 1 .. Len(s) PROVE ~(s[j].at < 0)
  <2>1. s[j] \in FrameType
    OBVIOUS
  <2>2. s[j].at \in Nat
    BY <2>1 DEF FrameType
  <2>3. QED
    BY <2>2
<1>2. QED
  BY <1>1 DEF ToComeIn

LEMMA TakesSeen ==
  ASSUME ScanTypeInv, FramesFit, Distinct, scanning = "follow",
         NEW e \in Dir \cup File, Takes(e), NEW f \in File, Readable(f)
  PROVE  IF Brings(e, f) THEN \E z : z \notin Seen(f) /\ Seen(f)' = Seen(f) \cup {z}
                         ELSE Seen(f)' = Seen(f)
<1>1. /\ tree' = tree /\ Rest \in Seq(FrameType) /\ visited \in SUBSET Dir /\ visited' \in SUBSET Dir
      /\ tree \in Trees /\ visited \subseteq visited'
  BY TakesCalls DEF ScanTypeInv
<1>2. e \in File => e \notin Dir
  BY PathsAssumption
<1>3. \A d, k : CameTo(f, d, k)' <=>
                  d \in visited' /\ k \in PlacesIn(d, f) /\ ~ToComeIn(stack', "kust", d, k)
  BY <1>1, TreeStays DEF CameTo, StillToCome, ToComeIn
<1>4. \A d, k : CameTo(f, d, k) <=>
                  d \in visited /\ k \in PlacesIn(d, f) /\ ~ToComeIn(stack, "kust", d, k)
  BY DEF CameTo, StillToCome
<1>5. \A d \in Dir : \A k \in PlacesIn(d, f) : k \in Nat
  BY <1>1, PlacesAreNumbers
<1>6. Calls(e) => /\ e \in Dir /\ e \notin visited /\ ~Plain(e)
                  /\ stack' = <<Frame("kust", e, 0)>> \o Rest
                  /\ \A k : ~CameTo(f, e, k)'
  <2> SUFFICES ASSUME Calls(e) PROVE /\ e \in Dir /\ e \notin visited /\ ~Plain(e)
                                     /\ stack' = <<Frame("kust", e, 0)>> \o Rest
                                     /\ \A k : ~CameTo(f, e, k)'
    OBVIOUS
  <2>1. e \in Dir /\ e \notin visited /\ Followable(e) /\ stack' = <<Frame("kust", e, 0)>> \o Rest
    BY DEF Calls
  <2>2. ASSUME NEW k \in PlacesIn(e, f) PROVE ToComeIn(stack', "kust", e, k)
    <3>1. k \in 1 .. Len(tree.kust[e])
      BY <1>1, <2>1, <2>2, PlacesAreNumbers
    <3>2. 0 < k
      BY <3>1
    <3>3. QED
      BY <1>1, <2>1, <3>2, FramesAre, WaitsAdded
  <2>3. QED
    BY <1>3, <2>1, <2>2 DEF Followable, Plain
<1>7. stack' = Rest \/ Calls(e) =>
        \A d \in visited : \A k : ToComeIn(stack', "kust", d, k) <=> ToComeIn(Rest, "kust", d, k)
  <2>1. CASE stack' = Rest
    BY <2>1
  <2>2. ASSUME Calls(e), NEW d \in visited, NEW k
        PROVE  ToComeIn(stack', "kust", d, k) <=> ToComeIn(Rest, "kust", d, k)
    <3>1. e \in Dir /\ d # e /\ stack' = <<Frame("kust", e, 0)>> \o Rest
      BY <1>6, <2>2
    <3>2. Frame("kust", e, 0) \in FrameType /\ Frame("kust", e, 0).dir = e
      BY <3>1, FramesAre
    <3>3. QED
      BY <1>1, <3>1, <3>2, WaitsAdded
  <2>3. QED
    BY <2>1, <2>2
<1>8. CASE FromGiven(e)
  <2>1. stack = << >> /\ Rest = << >> /\ given' = given + 1 /\ e = tree.given[given + 1] /\ e \in Dir
    <3>1. tree.given \in Seq(Dir) /\ given + 1 \in 1 .. Len(tree.given)
      BY <1>1, <1>8, TreeIs DEF FromGiven, ScanTypeInv
    <3>2. QED
      BY <1>8, <3>1 DEF FromGiven, Rest
  <2>2. \/ Skips /\ ~Plain(e)
        \/ Calls(e)
        \/ Walks(e) /\ visited' = visited /\ stack' = Rest
    BY <1>8, <2>1 DEF Takes, FromFrame
  <2>3. \A d, k : CameTo(f, d, k)' <=> CameTo(f, d, k)
    <3>1. stack' = Rest \/ Calls(e)
      BY <2>2 DEF Skips
    <3>2. \A d \in visited : \A k : CameTo(f, d, k)' <=> CameTo(f, d, k)
      BY <1>1, <1>3, <1>4, <1>7, <2>1, <3>1
    <3>3. visited' = visited \/ (Calls(e) /\ visited' = visited \cup {e})
      BY <2>2 DEF Skips, Calls
    <3>4. QED
      BY <1>3, <1>4, <1>6, <3>2, <3>3
  <2>4. \A i \in PlacesGiven(f) : i <= given' <=> i <= given \/ i = given + 1
    BY <2>1 DEF PlacesGiven, ScanTypeInv
  <2>5. given + 1 \in PlacesGiven(f) <=> Brings(e, f)
    <3>1. given + 1 \in 1 .. Len(tree.given)
      <4>1. tree.given \in Seq(Dir)
        BY <1>1, TreeIs
      <4>2. QED
        BY <1>8, <4>1 DEF FromGiven, ScanTypeInv
    <3>2. given + 1 \in PlacesGiven(f) <=> Plain(e) /\ f \in FilesBelow[e]
      BY <2>1, <3>1 DEF PlacesGiven
    <3>3. Walks(e) => Plain(e)
      BY DEF Walks
    <3>4. Brings(e, f) => Plain(e)
      BY <1>2, <2>1, <3>3 DEF Brings, Reads
    <3>5. Plain(e) => Walks(e)
      BY <1>6, <2>2
    <3>6. Walks(e) => (Brings(e, f) <=> f \in FilesBelow[e])
      BY BringsIs
    <3>7. QED
      BY <3>2, <3>4, <3>5, <3>6
  <2>6. CASE Brings(e, f)
    <3>1. ~(given + 1 <= given)
      BY DEF ScanTypeInv
    <3>2. QED
      BY <1>1, <2>3, <2>4, <2>5, <2>6, <3>1, SeenGiven
  <2>7. CASE ~Brings(e, f)
    BY <1>1, <2>3, <2>4, <2>5, <2>7, SeenStays
  <2>8. QED
    BY <2>6, <2>7
<1>9. CASE FromFrame("kust", e)
  <2> DEFINE d0 == stack[1].dir
             a == stack[1].at
  <2>1. /\ stack[1] \in FrameType /\ stack[1].on = "kust" /\ stack # << >> /\ d0 \in Dir /\ a \in Nat
        /\ d0 \in visited /\ Followable(d0) /\ a + 1 \in 1 .. Len(tree.kust[d0])
        /\ e = tree.kust[d0][a + 1]
    BY <1>9, EntryIs DEF FitsIn
  <2>2. \A i \in PlacesGiven(f) : i <= given' <=> i <= given
    BY <1>9 DEF FromFrame
  <2>3. a + 1 \in PlacesIn(d0, f) <=> e = f
    <3>1. ~Plain(d0)
      BY <2>1 DEF Plain, Followable
    <3>2. QED
      BY <2>1, <3>1 DEF PlacesIn
  <2>4. stack \in Seq(FrameType) /\ 1 \in 1 .. Len(stack)
    BY <2>1, OnwardIs DEF ScanTypeInv
  <2>5. ToComeIn(stack, "kust", d0, a + 1)
    BY <2>1, <2>4 DEF ToComeIn
  <2> HIDE DEF d0, a
  <2>6. \A d, k : k \in Int => (ToComeIn(Rest, "kust", d, k) <=>
                                  ToComeIn(stack, "kust", d, k) /\ ~(d = d0 /\ k = a + 1))
    BY <1>9, WaitsOnce DEF d0, a
  <2>7. stack' = Rest \/ Calls(e) =>
          \A d \in visited : \A k : CameTo(f, d, k)' <=>
             CameTo(f, d, k) \/ (d = d0 /\ k = a + 1 /\ e = f)
    <3> SUFFICES ASSUME stack' = Rest \/ Calls(e), NEW d \in visited, NEW k
                 PROVE  CameTo(f, d, k)' <=> CameTo(f, d, k) \/ (d = d0 /\ k = a + 1 /\ e = f)
      OBVIOUS
    <3>1. CASE k \in PlacesIn(d, f)
      <4>1. k \in Int
        BY <1>1, <1>5, <3>1
      <4>2. CameTo(f, d, k)' <=> ~ToComeIn(Rest, "kust", d, k)
        BY <1>1, <1>3, <1>7, <3>1
      <4>3. CameTo(f, d, k) <=> ~ToComeIn(stack, "kust", d, k)
        BY <1>4, <3>1
      <4>4. ToComeIn(Rest, "kust", d, k) <=>
              ToComeIn(stack, "kust", d, k) /\ ~(d = d0 /\ k = a + 1)
        BY <2>6, <4>1
      <4>5. d = d0 /\ k = a + 1 => e = f
        BY <2>3, <3>1
      <4>6. QED
        BY <4>2, <4>3, <4>4, <4>5
    <3>2. CASE k \notin PlacesIn(d, f)
      BY <1>3, <1>4, <2>3, <3>2
    <3>3. QED
      BY <3>1, <3>2
  <2>8. ~CameTo(f, d0, a + 1)
    BY <1>4, <2>5
  <2>9. \/ Skips /\ e \in visited
        \/ Calls(e)
        \/ Walks(e) /\ e \notin visited /\ visited' = visited \cup {e} /\ stack' = Rest
        \/ Reads(e) /\ e \in File /\ visited' = visited /\ stack' = Rest
    BY <1>9, <2>1 DEF Takes, FromFrame, FromGiven, Reads
  <2>10. CASE e = f
    <3>1. e \notin Dir
      BY <1>2, <2>10
    <3>2. Reads(e) /\ visited' = visited /\ stack' = Rest
      BY <1>1, <1>6, <2>9, <3>1 DEF Walks
    <3>3. Brings(e, f)
      BY <2>10, <3>2, BringsIs
    <3>4. \A d, k : CameTo(f, d, k)' <=> CameTo(f, d, k) \/ (d = d0 /\ k = a + 1)
      BY <1>3, <1>4, <2>1, <2>7, <2>10, <3>2 DEF d0
    <3>5. QED
      BY <1>1, <2>2, <2>8, <3>3, <3>4, SeenInDirectory
  <2>11. CASE e # f
    <3>1. stack' = Rest \/ Calls(e)
      BY <2>9 DEF Skips
    <3>2. \A d \in visited : \A k : CameTo(f, d, k)' <=> CameTo(f, d, k)
      BY <2>7, <2>11, <3>1
    <3>3. CASE visited' = visited \/ Calls(e)
      <4>1. visited' = visited \/ (Calls(e) /\ visited' = visited \cup {e})
        BY <3>3 DEF Calls
      <4>2. \A d, k : CameTo(f, d, k)' <=> CameTo(f, d, k)
        BY <1>3, <1>4, <1>6, <3>2, <4>1
      <4>3. ~Brings(e, f)
        <5>1. Skips \/ Calls(e) \/ Reads(e)
          BY <2>9, <3>3
        <5>2. QED
          BY <2>11, <5>1, BringsIs
      <4>4. QED
        BY <1>1, <2>2, <4>2, <4>3, SeenStays
    <3>4. CASE Walks(e) /\ e \notin visited /\ visited' = visited \cup {e} /\ stack' = Rest
      <4>1. e \in Dir /\ Plain(e)
        BY <3>4 DEF Walks
      <4>2. \A k : k \in PlacesIn(e, f) <=> k = 0 /\ f \in FilesBelow[e]
        BY <4>1 DEF PlacesIn
      <4>3. ~ToComeIn(stack', "kust", e, 0)
        BY <1>1, <3>4, NoneWaitsAtZero
      <4>4. \A k : CameTo(f, e, k)' <=> k = 0 /\ f \in FilesBelow[e]
        BY <1>3, <3>4, <4>2, <4>3
      <4>5. \A d, k : CameTo(f, d, k)' <=> CameTo(f, d, k) \/ (d = e /\ k = 0 /\ f \in FilesBelow[e])
        BY <1>3, <1>4, <3>2, <3>4, <4>4
      <4>6. Brings(e, f) <=> f \in FilesBelow[e]
        BY <3>4, BringsIs
      <4>7. ~CameTo(f, e, 0)
        BY <1>4, <3>4
      <4>8. CASE f \in FilesBelow[e]
        BY <1>1, <2>2, <4>5, <4>6, <4>7, <4>8, SeenInDirectory
      <4>9. CASE f \notin FilesBelow[e]
        BY <1>1, <2>2, <4>5, <4>6, <4>9, SeenStays
      <4>10. QED
        BY <4>8, <4>9
    <3>5. QED
      BY <2>9, <3>3, <3>4 DEF Skips
  <2>12. QED
    BY <2>10, <2>11
<1>10. QED
  BY <1>8, <1>9 DEF Takes

(* Rest goes through the directories of the stack, in the same way.        *)
LEMMA RestIs ==
  ASSUME ScanTypeInv
  PROVE  /\ Rest \in Seq(FrameType) /\ Len(Rest) = Len(stack)
         /\ \A j \in 1 .. Len(stack) : Rest[j].on = stack[j].on /\ Rest[j].dir = stack[j].dir
<1>1. stack \in Seq(FrameType)
  BY DEF ScanTypeInv
<1>2. CASE stack = << >>
  BY <1>2 DEF Rest
<1>3. CASE stack # << >>
  <2>1. Rest = Onward(stack)
    BY <1>3 DEF Rest
  <2>2. /\ Rest \in Seq(FrameType) /\ Len(Rest) = Len(stack) /\ Len(stack) \in Nat \ {0}
        /\ Rest[1].on = stack[1].on /\ Rest[1].dir = stack[1].dir
        /\ \A j \in 2 .. Len(stack) : Rest[j] = stack[j]
    BY <1>1, <1>3, <2>1, OnwardIs
  <2>3. \A j \in 1 .. Len(stack) : j = 1 \/ j \in 2 .. Len(stack)
    BY <2>2
  <2>4. QED
    BY <2>2, <2>3
<1>4. QED
  BY <1>2, <1>3

LEMMA TakesDistinct ==
  ASSUME ScanTypeInv, FramesFit, Counted, scanning = "follow", NEW e \in Dir \cup File, Takes(e)
  PROVE  (\A j \in 1 .. Len(stack') : stack'[j].on = "kust") /\ Distinct'
<1>1. /\ \A j \in 1 .. Len(stack) : stack[j].on = "kust"
      /\ \A j, k \in 1 .. Len(stack) : stack[j].dir = stack[k].dir => j = k
  BY DEF Counted
<1>2. \A j \in 1 .. Len(stack) : stack[j].dir \in visited
  BY <1>1 DEF FramesFit, FitsIn
<1>3. /\ \A j \in 1 .. Len(Rest) : Rest[j].on = "kust" /\ Rest[j].dir \in visited
      /\ \A j, k \in 1 .. Len(Rest) : Rest[j].dir = Rest[k].dir => j = k
      /\ Rest \in Seq(FrameType)
  BY <1>1, <1>2, RestIs
<1>4. CASE stack' = Rest
  BY <1>3, <1>4 DEF Distinct
<1>5. CASE stack' = <<Frame("kust", e, 0)>> \o Rest /\ Calls(e)
  <2> DEFINE x == Frame("kust", e, 0)
  <2>1. e \in Dir /\ e \notin visited
    BY <1>5 DEF Calls
  <2>2. x \in FrameType /\ x.on = "kust" /\ x.dir = e
    BY <2>1, FramesAre
  <2> HIDE DEF x
  <2>3. /\ Len(stack') = Len(Rest) + 1 /\ Len(Rest) \in Nat /\ stack'[1] = x
        /\ \A j \in 2 .. Len(Rest) + 1 : stack'[j] = Rest[j - 1] /\ j - 1 \in 1 .. Len(Rest)
    BY <1>3, <1>5, <2>2, AddedIs DEF x
  <2>4. \A j \in 1 .. Len(stack') : j = 1 \/ (j \in 2 .. Len(Rest) + 1 /\ j # 1)
    BY <2>3
  <2>5. \A j \in 1 .. Len(stack') : stack'[j].on = "kust"
    BY <1>3, <2>2, <2>3, <2>4
  <2>6. ASSUME NEW j \in 1 .. Len(stack'), NEW k \in 1 .. Len(stack'), stack'[j].dir = stack'[k].dir
        PROVE  j = k
    <3>1. \A i \in 1 .. Len(stack') : i # 1 => stack'[i].dir \in visited
      BY <1>3, <2>3, <2>4
    <3>2. (j = 1) <=> (k = 1)
      BY <2>1, <2>2, <2>3, <2>6, <3>1
    <3>3. CASE j # 1 /\ k # 1
      <4>1. /\ j \in 2 .. Len(Rest) + 1 /\ k \in 2 .. Len(Rest) + 1
        BY <2>4, <3>3
      <4>2. /\ stack'[j] = Rest[j - 1] /\ j - 1 \in 1 .. Len(Rest)
            /\ stack'[k] = Rest[k - 1] /\ k - 1 \in 1 .. Len(Rest)
        BY <2>3, <4>1
      <4>3. j - 1 = k - 1
        BY <1>3, <2>6, <4>2
      <4>4. QED
        BY <4>1, <4>3
    <3>4. QED
      BY <3>2, <3>3
  <2>7. QED
    BY <2>5, <2>6 DEF Distinct
<1>6. QED
  BY <1>4, <1>5, TakesCalls

LEMMA TakesCounted ==
  ASSUME ScanTypeInv, FramesFit, Counted, NEW e \in Dir \cup File, Takes(e)
  PROVE  Counted'
<1>1. tree' = tree /\ scanning' = scanning
  BY TakesCalls
<1>2. CASE scanning # "follow"
  BY <1>1, <1>2 DEF Counted
<1>3. CASE scanning = "follow"
  <2>1. Distinct /\ \A f \in File : IsFiniteSet(Seen(f)) /\ count[f] = Cardinality(Seen(f))
    BY <1>3 DEF Counted, Distinct
  <2>2. ASSUME NEW f \in File
        PROVE  IsFiniteSet(Seen(f))' /\ count'[f] = Cardinality(Seen(f))'
    <3>1. count'[f] = IF Brings(e, f) THEN count[f] + 1 ELSE count[f]
      BY TakesFiles
    <3>2. CASE Brings(e, f)
      <4>1. Readable(f)
        BY <3>2 DEF Brings
      <4>2. PICK z : z \notin Seen(f) /\ Seen(f)' = Seen(f) \cup {z}
        BY <1>3, <2>1, <3>2, <4>1, TakesSeen
      <4>3. /\ IsFiniteSet(Seen(f) \cup {z})
            /\ Cardinality(Seen(f) \cup {z}) = Cardinality(Seen(f)) + 1
        BY <2>1, <4>2, FS_AddElement
      <4>4. QED
        BY <2>1, <3>1, <3>2, <4>2, <4>3
    <3>3. CASE ~Brings(e, f)
      <4>1. Seen(f)' = Seen(f)
        BY <1>1, <1>3, <2>1, <3>3, TakesSeen, UnreadableIsNotSeen
      <4>2. QED
        BY <2>1, <3>1, <3>3, <4>1
    <3>4. QED
      BY <3>2, <3>3
  <2>3. (\A j \in 1 .. Len(stack') : stack'[j].on = "kust") /\ Distinct'
    BY <1>3, TakesDistinct
  <2>4. QED
    BY <2>2, <2>3 DEF Counted, Distinct
<1>4. QED
  BY <1>2, <1>3

LEMMA TakesKeepsScan ==
  ASSUME ScanInv, NEW e \in Dir \cup File, Takes(e)
  PROVE  ScanInv'
<1>1. scanning' # "done"
  BY TakesCalls DEF ScanInv
<1>2. FindsTheManifests' /\ ReadsDirectoriesOnce'
  BY <1>1 DEF FindsTheManifests, ReadsDirectoriesOnce
<1>3. QED
  BY <1>2, TakesTypes, TakesFit, TakesCovers, TakesListed, TakesNothingElse, TakesLooked, TakesCounted
  DEF ScanInv

LEMMA FailsKeepsScan ==
  ASSUME ScanInv, Halts
  PROVE  ScanInv'
<1>1. /\ tree' = tree /\ scanning' = "failed" /\ stack' = << >> /\ count' = count
      /\ visited' \in SUBSET Dir /\ given' \in 0 .. Len(tree.given)
  BY DEF Halts
<1>2. ScanTypeInv'
  BY <1>1 DEF ScanInv, ScanTypeInv
<1>3. FramesFit'
  BY <1>1 DEF FramesFit
<1>4. VisitedCovered' /\ ListedHandled' /\ GivenCovered'
  BY <1>1 DEF VisitedCovered, ListedHandled, GivenCovered
<1>5. NothingElse' /\ LookedInto' /\ Counted'
  BY <1>1 DEF NothingElse, LookedInto, Counted
<1>6. FindsTheManifests' /\ ReadsDirectoriesOnce'
  BY <1>1 DEF FindsTheManifests, ReadsDirectoriesOnce
<1>7. QED
  BY <1>2, <1>3, <1>4, <1>5, <1>6 DEF ScanInv

(* What stays when only the calls and the phase change.                    *)
LEMMA CoverageStays ==
  ASSUME tree' = tree, visited' = visited, count' = count
  PROVE  /\ \A d : Covered(d)' <=> Covered(d)
         /\ \A e : Handled(e)' <=> Handled(e)
         /\ Read' = Read
         /\ Expected(Given)' = Expected(Given)
         /\ Reachable(Roots)' = Reachable(Roots)
         /\ Expected(Discoverable)' = Expected(Discoverable)
         /\ Reachable(Discoverable)' = Reachable(Discoverable)
<1>1. \A d : (Plain(d)' <=> Plain(d)) /\ \A f : Readable(f)' <=> Readable(f)
  BY TreeStays
<1>2. Given' = Given /\ Roots' = Roots /\ Discoverable' = Discoverable
  BY TreeStays
<1>3. \A S : Reachable(S)' = Reachable(S) /\ Expected(S)' = Expected(S)
  BY TreeStays
<1>4. /\ \A d : Covered(d)' <=> Covered(d)
      /\ \A e : Handled(e)' <=> Handled(e)
      /\ Read' = Read
  BY <1>1 DEF Covered, Handled, AllBelowRead, Read
<1>5. QED
  BY <1>2, <1>3, <1>4

LEMMA ReturnKeepsScan ==
  ASSUME ScanInv, Return
  PROVE  ScanInv'
<1>1. /\ tree' = tree /\ visited' = visited /\ count' = count /\ scanning' = scanning /\ given' = given
      /\ scanning \in {"follow", "look"} /\ stack # << >> /\ stack' = Tail(stack) /\ AtEnd
  BY DEF Return
<1>2. /\ stack \in Seq(FrameType) /\ visited \in SUBSET Dir /\ tree \in Trees
      /\ ScanTypeInv /\ FramesFit
  BY DEF ScanInv, ScanTypeInv
<1>3. ScanTypeInv'
  BY <1>1, <1>2, EndedIs DEF ScanTypeInv
<1>4. FramesFit'
  <2>1. ASSUME NEW j \in 1 .. Len(stack') PROVE FitsIn(stack'[j], visited)
    <3>1. stack'[j] = stack[j + 1] /\ j + 1 \in 1 .. Len(stack)
      BY <1>1, <1>2, EndedIs
    <3>2. QED
      BY <1>2, <3>1 DEF FramesFit
  <2>2. \A x, dirs : FitsIn(x, dirs)' <=> FitsIn(x, dirs)
    BY <1>1, TreeStays DEF FitsIn
  <2>3. QED
    BY <1>1, <2>1, <2>2 DEF FramesFit
<1>5. /\ stack[1].at = Len(Through(stack[1])) /\ stack[1] \in FrameType
      /\ Len(Through(stack[1])) \in Nat
  BY <1>1, <1>2, TopIs DEF AtEnd
<1>6. /\ \A on, d, i : StillToCome(on, d, i)' => StillToCome(on, d, i)
      /\ \A on, d, i : StillToCome(on, d, i) =>
           StillToCome(on, d, i)' \/ (on = stack[1].on /\ d = stack[1].dir /\ Len(Through(stack[1])) < i)
  <2>1. \A on, d, i : StillToCome(on, d, i)' <=> ToComeIn(Tail(stack), on, d, i)
    BY <1>1 DEF StillToCome, ToComeIn
  <2>2. \A on, d, i : StillToCome(on, d, i) <=> ToComeIn(stack, on, d, i)
    BY DEF StillToCome
  <2>3. QED
    BY <1>1, <1>2, <1>5, <2>1, <2>2, WaitsEnded
<1>7. \A d : \A i \in 1 .. Len(tree.kust[d]) : StillToCome("kust", d, i) => StillToCome("kust", d, i)'
  <2> SUFFICES ASSUME NEW d, NEW i \in 1 .. Len(tree.kust[d]), StillToCome("kust", d, i)
               PROVE  StillToCome("kust", d, i)'
    OBVIOUS
  <2>1. CASE "kust" = stack[1].on /\ d = stack[1].dir
    <3>1. Len(tree.kust[d]) \in Nat /\ Through(stack[1]) = tree.kust[d]
      BY <1>5, <2>1 DEF Through
    <3>2. ~(Len(Through(stack[1])) < i)
      BY <3>1
    <3>3. QED
      BY <1>6, <3>2
  <2>2. QED
    BY <1>6, <2>1
<1>8. \A d : \A i \in 1 .. Len(Entries[d]) : StillToCome("entries", d, i) => StillToCome("entries", d, i)'
  <2> SUFFICES ASSUME NEW d, NEW i \in 1 .. Len(Entries[d]), StillToCome("entries", d, i)
               PROVE  StillToCome("entries", d, i)'
    OBVIOUS
  <2>1. CASE "entries" = stack[1].on /\ d = stack[1].dir
    <3>1. Len(Entries[d]) \in Nat /\ Through(stack[1]) = Entries[d]
      BY <1>5, <2>1 DEF Through
    <3>2. ~(Len(Through(stack[1])) < i)
      BY <3>1
    <3>3. QED
      BY <1>6, <3>2
  <2>2. QED
    BY <1>6, <2>1
<1>9. VisitedCovered'
  BY <1>1, CoverageStays DEF ScanInv, VisitedCovered
<1>10. ListedHandled'
  <2>1. \A d : Followable(d)' <=> Followable(d)
    BY <1>1, TreeStays
  <2>2. ASSUME NEW d \in visited, Followable(d), NEW i \in 1 .. Len(tree.kust[d])
        PROVE  StillToCome("kust", d, i)' \/ Handled(tree.kust[d][i])'
    <3>1. StillToCome("kust", d, i) \/ Handled(tree.kust[d][i])
      BY <1>1, <2>2 DEF ScanInv, ListedHandled
    <3>2. QED
      BY <1>1, <1>7, <3>1, CoverageStays
  <2>3. QED
    BY <1>1, <2>1, <2>2 DEF ListedHandled
<1>11. GivenCovered'
  BY <1>1, CoverageStays DEF ScanInv, GivenCovered
<1>12. NothingElse'
  BY <1>1, CoverageStays DEF ScanInv, NothingElse
<1>13. LookedInto'
  <2> SUFFICES ASSUME scanning = "look" PROVE LookedInto'
    BY <1>1 DEF LookedInto
  <2>1. Expected(Given) \subseteq Read /\ \A f \in Expected(Given) : tree.kind[f] # "crossplane"
    BY DEF ScanInv, LookedInto
  <2>2. ASSUME NEW g \in 1 .. given, NEW i \in 1 .. Len(Entries[tree.given[g]]),
               Entries[tree.given[g]][i] \in Dir
        PROVE  StillToCome("entries", tree.given[g], i)' \/ Covered(Entries[tree.given[g]][i])'
    <3>1. StillToCome("entries", tree.given[g], i) \/ Covered(Entries[tree.given[g]][i])
      BY <2>2 DEF ScanInv, LookedInto
    <3>2. QED
      BY <1>1, <1>8, <3>1, CoverageStays
  <2>3. QED
    BY <1>1, <2>1, <2>2, CoverageStays DEF LookedInto
<1>14. Counted'
  <2> SUFFICES ASSUME scanning = "follow" PROVE Counted'
    BY <1>1 DEF Counted
  <2>1. /\ \A j \in 1 .. Len(stack) : stack[j].on = "kust"
        /\ \A j, k \in 1 .. Len(stack) : stack[j].dir = stack[k].dir => j = k
        /\ \A f \in File : IsFiniteSet(Seen(f)) /\ count[f] = Cardinality(Seen(f))
    BY DEF ScanInv, Counted
  <2>2. /\ \A j \in 1 .. Len(stack') : stack'[j] = stack[j + 1] /\ j + 1 \in 1 .. Len(stack)
        /\ Len(stack) \in Nat
    BY <1>1, <1>2, EndedIs
  <2>3. \A j \in 1 .. Len(stack') : stack'[j].on = "kust"
    BY <2>1, <2>2
  <2>4. ASSUME NEW j \in 1 .. Len(stack'), NEW k \in 1 .. Len(stack'), stack'[j].dir = stack'[k].dir
        PROVE  j = k
    <3>1. j + 1 = k + 1
      BY <2>1, <2>2, <2>4
    <3>2. QED
      BY <3>1
  <2>5. ASSUME NEW f \in File PROVE Seen(f)' = Seen(f)
    <3>1. \A d \in visited : \A k \in PlacesIn(d, f) : StillToCome("kust", d, k) => StillToCome("kust", d, k)'
      <4> SUFFICES ASSUME NEW d \in visited, NEW k \in PlacesIn(d, f), StillToCome("kust", d, k)
                   PROVE  StillToCome("kust", d, k)'
        OBVIOUS
      <4>1. d \in Dir
        BY <1>2
      <4>2. Plain(d) \/ Followable(d)
        BY <1>1, <1>2, <4>1, TreeIs DEF ScanInv, VisitedCovered
      <4>3. CASE Plain(d)
        <5>1. k = 0
          BY <1>2, <4>1, <4>3, PlacesAreNumbers
        <5>2. QED
          BY <1>2, <5>1, NoneWaitsAtZero DEF StillToCome
      <4>4. CASE Followable(d)
        BY <1>2, <1>7, <4>1, <4>4, PlacesAreNumbers
      <4>5. QED
        BY <4>2, <4>3, <4>4
    <3>2. PlacesGiven(f)' = PlacesGiven(f) /\ \A d : PlacesIn(d, f)' = PlacesIn(d, f)
      BY <1>1, TreeStays
    <3>3. \A d, k : CameTo(f, d, k)' <=> CameTo(f, d, k)
      BY <1>1, <1>6, <3>1, <3>2 DEF CameTo
    <3>4. QED
      BY <1>1, <3>3, SeenStays
  <2>6. QED
    BY <1>1, <2>1, <2>3, <2>4, <2>5 DEF Counted
<1>15. FindsTheManifests' /\ ReadsDirectoriesOnce'
  BY <1>1 DEF FindsTheManifests, ReadsDirectoriesOnce
<1>16. QED
  BY <1>3, <1>4, <1>9, <1>10, <1>11, <1>12, <1>13, <1>14, <1>15 DEF ScanInv

(* With no call under way, what the covered directories lead to is read.   *)
LEMMA VisitedIsClosed ==
  ASSUME ScanTypeInv, VisitedCovered, ListedHandled, scanning # "failed", stack = << >>,
         NEW d \in visited
  PROVE  Listed[d] \subseteq visited /\ \A f \in File : Readable(f) /\ Contributes(d, f) => count[f] > 0
<1>1. d \in Dir /\ Covered(d) /\ (Plain(d) \/ Followable(d))
  BY TreeIs DEF ScanTypeInv, VisitedCovered
<1>2. CASE Plain(d)
  <2>1. Listed[d] = {}
    BY <1>1, <1>2 DEF Listed
  <2>2. QED
    BY <1>1, <1>2, <2>1 DEF Contributes, Covered, AllBelowRead
<1>3. CASE Followable(d) /\ ~Plain(d)
  <2>1. \A i \in 1 .. Len(tree.kust[d]) : Handled(tree.kust[d][i])
    BY <1>3, NobodyWaits DEF ListedHandled, StillToCome
  <2>2. \A e \in ToSet(tree.kust[d]) : Handled(e)
    <3>1. tree.kust[d] \in Seq(Dir \cup File)
      BY <1>1, <1>3, TreeIs DEF ScanTypeInv, Followable
    <3>2. ToSet(tree.kust[d]) = {tree.kust[d][i] : i \in 1 .. Len(tree.kust[d])}
      BY <3>1 DEF ToSet
    <3>3. QED
      BY <2>1, <3>2
  <2>3. Listed[d] = ToSet(tree.kust[d]) \cap Dir
    BY <1>1, <1>3 DEF Listed
  <2>4. QED
    BY <1>3, <2>2, <2>3 DEF Handled, Contributes
<1>4. QED
  BY <1>1, <1>2, <1>3

LEMMA CoveredIsRead ==
  ASSUME ScanTypeInv, VisitedCovered, ListedHandled, scanning # "failed", stack = << >>,
         NEW start \in SUBSET Dir, \A d \in start : Covered(d)
  PROVE  Expected(start) \subseteq Read
<1> DEFINE covered == {d \in Dir : Covered(d)}
<1>1. \A d \in covered : Listed[d] \subseteq covered
  <2> SUFFICES ASSUME NEW d \in covered PROVE Listed[d] \subseteq covered
    OBVIOUS
  <2>1. CASE Plain(d)
    BY <2>1 DEF Listed
  <2>2. CASE ~Plain(d)
    <3>1. d \in visited
      BY <2>2 DEF Covered
    <3>2. Listed[d] \subseteq visited
      BY <3>1, VisitedIsClosed
    <3>3. visited \subseteq covered
      BY DEF ScanTypeInv, VisitedCovered
    <3>4. QED
      BY <3>2, <3>3
  <2>3. QED
    BY <2>1, <2>2
<1>2. start \subseteq covered
  OBVIOUS
<1>3. Reachable(start) \subseteq covered
  <2>1. covered \in SUBSET Dir
    OBVIOUS
  <2> HIDE DEF covered
  <2>2. QED
    BY <1>1, <1>2, <2>1, LeadsToIsLeast DEF Reachable
<1>4. ASSUME NEW f \in File, Readable(f), NEW d \in Reachable(start), Contributes(d, f)
      PROVE  count[f] > 0
  <2>1. Covered(d)
    BY <1>3
  <2>2. CASE Plain(d)
    BY <1>4, <2>1, <2>2 DEF Contributes, Covered, AllBelowRead
  <2>3. CASE ~Plain(d)
    <3>1. d \in visited
      BY <2>1, <2>3 DEF Covered
    <3>2. QED
      BY <1>4, <3>1, VisitedIsClosed
  <2>4. QED
    BY <2>2, <2>3
<1>5. QED
  BY <1>4 DEF Expected, Read

(* Once every given directory has been followed.                           *)
LEMMA FollowedIs ==
  ASSUME ScanInv, scanning = "follow", stack = << >>, given = Len(tree.given)
  PROVE  /\ \A i \in 1 .. Len(tree.given) : Covered(tree.given[i])
         /\ Read = Expected(Given) /\ visited = Reachable(Roots)
         /\ \A f \in File : count[f] = Cardinality(Occurrences(f))
<1>1. /\ ScanTypeInv /\ VisitedCovered /\ ListedHandled /\ tree.given \in Seq(Dir)
      /\ Given \in SUBSET Dir /\ Roots \subseteq Given /\ visited \in SUBSET Dir
  BY TreeIs DEF ScanInv, ScanTypeInv
<1>2. \A i \in 1 .. Len(tree.given) : Covered(tree.given[i])
  BY DEF ScanInv, GivenCovered
<1>3. \A d \in Given : Covered(d)
  BY <1>2 DEF Given, ToSet
<1>4. Expected(Given) \subseteq Read
  BY <1>1, <1>3, CoveredIsRead
<1>5. Roots \subseteq visited
  BY <1>1, <1>3 DEF Covered, Roots
<1>6. Reachable(Roots) \subseteq visited
  <2>1. \A d \in visited : Listed[d] \subseteq visited
    BY <1>1, VisitedIsClosed
  <2>2. QED
    BY <1>1, <1>5, <2>1, LeadsToIsLeast DEF Reachable
<1>7. visited \subseteq Reachable(Roots) /\ Read \subseteq Expected(Given)
  BY DEF ScanInv, NothingElse
<1>8. ASSUME NEW f \in File PROVE count[f] = Cardinality(Occurrences(f))
  <2>1. count[f] = Cardinality(Seen(f))
    BY DEF ScanInv, Counted
  <2>2. \A d, k : CameTo(f, d, k) <=> d \in Reachable(Roots) /\ k \in PlacesIn(d, f)
    BY <1>6, <1>7, NobodyWaits DEF CameTo, StillToCome
  <2>3. \A i \in PlacesGiven(f) : i <= given
    BY <1>1 DEF PlacesGiven
  <2>4. \A z : z \in Seen(f) <=> z \in Occurrences(f)
    <3>1. \A z : z \in Occurrences(f) <=>
            /\ Readable(f)
            /\ \/ \E i \in PlacesGiven(f) : z = [given |-> i]
               \/ \E d \in Reachable(Roots) : \E k \in PlacesIn(d, f) : z = [dir |-> d, at |-> k]
      BY DEF Occurrences
    <3>2. QED
      BY <2>2, <2>3, <3>1, SeenIs
  <2>5. Seen(f) = Occurrences(f)
    BY <2>4
  <2>6. QED
    BY <2>1, <2>5
<1>9. QED
  BY <1>2, <1>4, <1>6, <1>7, <1>8

LEMMA AllFollowedKeepsScan ==
  ASSUME ScanInv, AllFollowed
  PROVE  ScanInv'
<1>1. /\ scanning = "follow" /\ stack = << >> /\ given = Len(tree.given)
      /\ tree' = tree /\ stack' = stack /\ visited' = visited /\ count' = count
      /\ \/ hasCrossplaneResources /\ scanning' = "done" /\ given' = given
         \/ ~hasCrossplaneResources /\ scanning' = "look" /\ given' = 0
  BY DEF AllFollowed
<1>2. /\ ScanTypeInv /\ tree.given \in Seq(Dir)
  BY TreeIs DEF ScanInv, ScanTypeInv
<1>3. /\ \A i \in 1 .. Len(tree.given) : Covered(tree.given[i])
      /\ Read = Expected(Given) /\ visited = Reachable(Roots)
      /\ \A f \in File : count[f] = Cardinality(Occurrences(f))
  BY <1>1, FollowedIs
<1>4. hasCrossplaneResources <=> \E f \in Expected(Given) : tree.kind[f] = "crossplane"
  <2>1. hasCrossplaneResources <=> \E f \in Read : tree.kind[f] = "crossplane"
    BY DEF hasCrossplaneResources, Read
  <2>2. QED
    BY <1>3, <2>1
<1>5. /\ \A d : Covered(d)' <=> Covered(d)
      /\ \A e : Handled(e)' <=> Handled(e)
      /\ Read' = Read /\ Expected(Given)' = Expected(Given)
      /\ Expected(Discoverable)' = Expected(Discoverable)
      /\ Reachable(Discoverable)' = Reachable(Discoverable)
  BY <1>1, CoverageStays
<1>6. ScanTypeInv'
  BY <1>1, <1>2 DEF ScanTypeInv
<1>7. FramesFit'
  BY <1>1 DEF FramesFit
<1>8. VisitedCovered'
  BY <1>1, <1>5 DEF ScanInv, VisitedCovered
<1>9. ListedHandled'
  <2>1. \A d : Followable(d)' <=> Followable(d)
    BY <1>1, TreeStays
  <2>2. ASSUME NEW d \in visited, Followable(d), NEW i \in 1 .. Len(tree.kust[d])
        PROVE  Handled(tree.kust[d][i])'
    <3>1. Handled(tree.kust[d][i])
      BY <1>1, <2>2, NobodyWaits DEF ScanInv, ListedHandled, StillToCome
    <3>2. QED
      BY <1>1, <1>5, <3>1
  <2>3. QED
    BY <1>1, <2>1, <2>2 DEF ListedHandled
<1>10. GivenCovered'
  BY <1>1, <1>3, <1>5 DEF GivenCovered
<1>11. NothingElse'
  <2>1. /\ Given \in SUBSET Dir /\ Roots \subseteq Given /\ Given \subseteq Discoverable
        /\ Discoverable \in SUBSET Dir
    BY <1>2, TreeIs, DiscoverableIsClosed DEF ScanTypeInv
  <2>2. Reachable(Roots) \subseteq Reachable(Discoverable) /\ Expected(Given) \subseteq Expected(Discoverable)
    BY <2>1, ExpectedGrows
  <2>3. QED
    BY <1>1, <1>3, <1>5, <2>2 DEF NothingElse
<1>12. LookedInto'
  BY <1>1, <1>3, <1>4, <1>5 DEF LookedInto
<1>13. Counted'
  BY <1>1 DEF Counted
<1>14. FindsTheManifests'
  <2> SUFFICES ASSUME hasCrossplaneResources PROVE FindsTheManifests'
    BY <1>1 DEF FindsTheManifests
  <2>1. \E f \in Expected(Given)' : tree'.kind[f] = "crossplane"
    BY <1>1, <1>4, <1>5
  <2>2. Read' = Expected(Given)'
    BY <1>3, <1>5
  <2>3. QED
    BY <2>1, <2>2 DEF FindsTheManifests
<1>15. ReadsDirectoriesOnce'
  <2>1. \A f : Occurrences(f)' = Occurrences(f)
    BY <1>1, TreeStays
  <2>2. QED
    BY <1>1, <1>3, <2>1 DEF ReadsDirectoriesOnce
<1>16. QED
  BY <1>6, <1>7, <1>8, <1>9, <1>10, <1>11, <1>12, <1>13, <1>14, <1>15 DEF ScanInv

LEMMA LookIntoKeepsScan ==
  ASSUME ScanInv, LookInto
  PROVE  ScanInv'
<1> DEFINE d0 == tree.given[given + 1]
           x == Frame("entries", d0, 0)
<1>1. /\ scanning = "look" /\ stack = << >> /\ given < Len(tree.given) /\ given' = given + 1
      /\ stack' = <<x>> /\ tree' = tree /\ scanning' = scanning /\ visited' = visited /\ count' = count
  BY DEF LookInto
<1>2. /\ ScanTypeInv /\ tree.given \in Seq(Dir) /\ Len(tree.given) \in Nat
      /\ given + 1 \in 1 .. Len(tree.given) /\ given \in Nat /\ d0 \in Dir
  <2>1. ScanTypeInv /\ tree.given \in Seq(Dir)
    BY TreeIs DEF ScanInv, ScanTypeInv
  <2>2. Len(tree.given) \in Nat /\ given + 1 \in 1 .. Len(tree.given) /\ given \in Nat
    BY <1>1, <2>1 DEF ScanTypeInv
  <2>3. QED
    BY <2>1, <2>2
<1>3. x \in FrameType /\ x.on = "entries" /\ x.dir = d0 /\ x.at = 0
  BY <1>2, FramesAre
<1> HIDE DEF d0, x
<1>4. /\ \A d : Covered(d)' <=> Covered(d)
      /\ \A e : Handled(e)' <=> Handled(e)
      /\ Read' = Read /\ Expected(Given)' = Expected(Given)
      /\ Expected(Discoverable)' = Expected(Discoverable)
      /\ Reachable(Discoverable)' = Reachable(Discoverable)
  BY <1>1, CoverageStays
<1>5. stack' \in Seq(FrameType) /\ Len(stack') = 1 /\ stack'[1] = x
  BY <1>1, <1>3
<1>6. ScanTypeInv'
  BY <1>1, <1>2, <1>5 DEF ScanTypeInv
<1>7. FramesFit'
  <2>1. d0 \in Given /\ Given \subseteq Discoverable
    BY <1>2, DiscoverableIsClosed DEF d0, Given, ToSet, ScanTypeInv
  <2>2. Through(x) = Entries[d0] /\ Len(Entries[d0]) \in Nat
    BY <1>2, <1>3, PathsAssumption DEF Through
  <2>3. FitsIn(x, visited)
    BY <1>3, <2>1, <2>2 DEF FitsIn
  <2>4. \A z, dirs : FitsIn(z, dirs)' <=> FitsIn(z, dirs)
    BY <1>1, TreeStays DEF FitsIn
  <2>5. \A j \in 1 .. Len(stack') : stack'[j] = x
    BY <1>5
  <2>6. QED
    BY <1>1, <2>3, <2>4, <2>5 DEF FramesFit
<1>8. VisitedCovered'
  BY <1>1, <1>4 DEF ScanInv, VisitedCovered
<1>9. ListedHandled'
  <2>1. \A d : Followable(d)' <=> Followable(d)
    BY <1>1, TreeStays
  <2>2. ASSUME NEW d \in visited, Followable(d), NEW i \in 1 .. Len(tree.kust[d])
        PROVE  Handled(tree.kust[d][i])'
    <3>1. Handled(tree.kust[d][i])
      BY <1>1, <2>2, NobodyWaits DEF ScanInv, ListedHandled, StillToCome
    <3>2. QED
      BY <1>1, <1>4, <3>1
  <2>3. QED
    BY <1>1, <2>1, <2>2 DEF ListedHandled
<1>10. GivenCovered'
  BY <1>1, <1>4 DEF ScanInv, GivenCovered
<1>11. NothingElse'
  BY <1>1, <1>4 DEF ScanInv, NothingElse
<1>12. LookedInto'
  <2>1. Expected(Given) \subseteq Read /\ \A f \in Expected(Given) : tree.kind[f] # "crossplane"
    BY <1>1 DEF ScanInv, LookedInto
  <2>2. ASSUME NEW g \in 1 .. given', NEW i \in 1 .. Len(Entries[tree.given[g]]),
               Entries[tree.given[g]][i] \in Dir
        PROVE  StillToCome("entries", tree.given[g], i)' \/ Covered(Entries[tree.given[g]][i])'
    <3>1. CASE g = given + 1
      <4>1. 0 < i
        OBVIOUS
      <4>2. ToComeIn(stack', "entries", d0, i)
        BY <1>3, <1>5, <4>1 DEF ToComeIn
      <4>3. QED
        BY <1>1, <3>1, <4>2 DEF StillToCome, ToComeIn, d0
    <3>2. CASE g \in 1 .. given
      <4>1. Covered(Entries[tree.given[g]][i])
        BY <1>1, <2>2, <3>2, NobodyWaits DEF ScanInv, LookedInto, StillToCome
      <4>2. QED
        BY <1>1, <1>4, <4>1
    <3>3. QED
      BY <1>1, <1>2, <3>1, <3>2
  <2>3. QED
    BY <1>1, <1>4, <2>1, <2>2 DEF LookedInto
<1>13. Counted' /\ FindsTheManifests' /\ ReadsDirectoriesOnce'
  BY <1>1 DEF Counted, FindsTheManifests, ReadsDirectoriesOnce
<1>14. QED
  BY <1>6, <1>7, <1>8, <1>9, <1>10, <1>11, <1>12, <1>13 DEF ScanInv

LEMMA AllLookedIntoKeepsScan ==
  ASSUME ScanInv, AllLookedInto
  PROVE  ScanInv'
<1>1. /\ scanning = "look" /\ stack = << >> /\ given = Len(tree.given) /\ scanning' = "done"
      /\ tree' = tree /\ given' = given /\ stack' = stack /\ visited' = visited /\ count' = count
  BY DEF AllLookedInto
<1>2. /\ ScanTypeInv /\ VisitedCovered /\ ListedHandled /\ tree.given \in Seq(Dir) /\ Given \in SUBSET Dir
  BY TreeIs DEF ScanInv, ScanTypeInv
<1>3. /\ \A d : Covered(d)' <=> Covered(d)
      /\ \A e : Handled(e)' <=> Handled(e)
      /\ Read' = Read /\ Expected(Given)' = Expected(Given)
      /\ Expected(Discoverable)' = Expected(Discoverable)
  BY <1>1, CoverageStays
<1>4. ScanTypeInv'
  BY <1>1, <1>2 DEF ScanTypeInv
<1>5. FramesFit'
  BY <1>1 DEF FramesFit
<1>6. VisitedCovered'
  BY <1>1, <1>3 DEF ScanInv, VisitedCovered
<1>7. ListedHandled'
  <2>1. \A d : Followable(d)' <=> Followable(d)
    BY <1>1, TreeStays
  <2>2. ASSUME NEW d \in visited, Followable(d), NEW i \in 1 .. Len(tree.kust[d])
        PROVE  Handled(tree.kust[d][i])'
    <3>1. Handled(tree.kust[d][i])
      BY <1>1, <2>2, NobodyWaits DEF ScanInv, ListedHandled, StillToCome
    <3>2. QED
      BY <1>1, <1>3, <3>1
  <2>3. QED
    BY <1>1, <2>1, <2>2 DEF ListedHandled
<1>8. \A i \in 1 .. Len(tree.given) : Covered(tree.given[i])
  BY <1>1 DEF ScanInv, GivenCovered
<1>9. GivenCovered'
  BY <1>1, <1>3, <1>8 DEF GivenCovered
<1>10. NothingElse' /\ LookedInto' /\ Counted'
  BY <1>1 DEF NothingElse, LookedInto, Counted
<1>11. \A f \in Expected(Given) : tree.kind[f] # "crossplane"
  BY <1>1 DEF ScanInv, LookedInto
<1>12. ReadsDirectoriesOnce'
  BY <1>1, <1>3, <1>11 DEF ReadsDirectoriesOnce
<1>13. FindsTheManifests'
  <2> DEFINE start == Given \cup UNION {Subdirectories(d) : d \in Given}
  <2>1. start \in SUBSET Dir
    BY <1>2 DEF Subdirectories
  <2>2. \A d \in start : Covered(d)
    <3>1. \A d \in Given : Covered(d)
      BY <1>2, <1>8 DEF Given, ToSet
    <3>2. ASSUME NEW d \in Given, NEW e \in Subdirectories(d) PROVE Covered(e)
      <4>1. PICK g \in 1 .. Len(tree.given) : d = tree.given[g]
        BY DEF Given, ToSet
      <4>2. PICK i \in 1 .. Len(Entries[d]) : e = Entries[d][i]
        BY DEF Subdirectories, ToSet
      <4>3. e \in Dir
        BY DEF Subdirectories
      <4>4. QED
        BY <1>1, <4>1, <4>2, <4>3, NobodyWaits DEF ScanInv, LookedInto, StillToCome
    <3>3. QED
      BY <3>1, <3>2
  <2> HIDE DEF start
  <2>3. Expected(start) \subseteq Read
    BY <1>1, <1>2, <2>1, <2>2, CoveredIsRead
  <2>4. Read \subseteq Expected(LeadsTo(Given, Inner))
    BY <1>1 DEF ScanInv, NothingElse, Discoverable
  <2>5. /\ Given' = Given /\ Inner' = Inner /\ \A d : Subdirectories(d)' = Subdirectories(d)
        /\ \A S : Expected(S)' = Expected(S)
    BY <1>1, TreeStays DEF Subdirectories
  <2>6. start' = start
    BY <2>5 DEF start
  <2>7. Expected(start)' = Expected(start) /\ Expected(LeadsTo(Given, Inner))' = Expected(LeadsTo(Given, Inner))
    <3>1. LeadsTo(Given, Inner)' = LeadsTo(Given, Inner)
      BY <2>5 DEF LeadsTo
    <3>2. QED
      BY <2>5, <2>6, <3>1
  <2>8. ~\E f \in Expected(Given)' : tree'.kind[f] = "crossplane"
    BY <1>1, <1>3, <1>11
  <2>9. Expected(start)' \subseteq Read' /\ Read' \subseteq Expected(LeadsTo(Given, Inner))'
    BY <1>3, <2>3, <2>4, <2>7
  <2>10. QED
    BY <2>8, <2>9 DEF FindsTheManifests, start
<1>14. QED
  BY <1>4, <1>5, <1>6, <1>7, <1>9, <1>10, <1>12, <1>13 DEF ScanInv

LEMMA ScanBegins == ScanInit => ScanInv
<1> SUFFICES ASSUME ScanInit PROVE ScanInv
  OBVIOUS
<1>1. /\ scanning = "follow" /\ tree \in Trees /\ given = 0 /\ stack = << >> /\ visited = {}
      /\ count = [f \in File |-> 0]
  BY DEF ScanInit, Nothing
<1>2. tree.given \in Seq(Dir)
  BY <1>1, TreesAssumption
<1>3. ScanTypeInv
  BY <1>1, <1>2 DEF ScanTypeInv
<1>4. FramesFit /\ VisitedCovered /\ ListedHandled
  BY <1>1 DEF FramesFit, VisitedCovered, ListedHandled
<1>5. GivenCovered
  BY <1>1 DEF GivenCovered
<1>6. NothingElse
  BY <1>1 DEF NothingElse, Read
<1>7. LookedInto
  BY <1>1 DEF LookedInto
<1>8. Counted
  <2>1. ASSUME NEW f \in File PROVE IsFiniteSet(Seen(f)) /\ count[f] = Cardinality(Seen(f))
    <3>1. Seen(f) = {}
      <4>1. \A z : z \notin Seen(f)
        BY <1>1, SeenIs DEF CameTo, PlacesGiven
      <4>2. QED
        BY <4>1
    <3>2. QED
      BY <1>1, <3>1, FS_EmptySet
  <2>2. QED
    BY <1>1, <2>1 DEF Counted
<1>9. FindsTheManifests /\ ReadsDirectoriesOnce
  BY <1>1 DEF FindsTheManifests, ReadsDirectoriesOnce
<1>10. QED
  BY <1>3, <1>4, <1>5, <1>6, <1>7, <1>8, <1>9 DEF ScanInv

LEMMA StutterKeepsScan == ScanInv /\ UNCHANGED scanVars => ScanInv'
<1> SUFFICES ASSUME ScanInv, UNCHANGED scanVars PROVE ScanInv'
  OBVIOUS
<1>1. /\ tree' = tree /\ scanning' = scanning /\ given' = given /\ stack' = stack
      /\ visited' = visited /\ count' = count
  BY DEF scanVars
<1>2. /\ \A d : Covered(d)' <=> Covered(d)
      /\ \A e : Handled(e)' <=> Handled(e)
      /\ Read' = Read /\ Expected(Given)' = Expected(Given)
      /\ Reachable(Roots)' = Reachable(Roots)
      /\ Expected(Discoverable)' = Expected(Discoverable)
      /\ Reachable(Discoverable)' = Reachable(Discoverable)
  BY <1>1, CoverageStays
<1>3. /\ \A d : Followable(d)' <=> Followable(d)
      /\ \A f : Occurrences(f)' = Occurrences(f)
      /\ \A f : PlacesGiven(f)' = PlacesGiven(f) /\ \A d : PlacesIn(d, f)' = PlacesIn(d, f)
  BY <1>1, TreeStays
<1>4. \A on, d, i : StillToCome(on, d, i)' <=> StillToCome(on, d, i)
  BY <1>1 DEF StillToCome, ToComeIn
<1>5. ScanTypeInv'
  BY <1>1 DEF ScanInv, ScanTypeInv
<1>6. FramesFit'
  <2>1. \A x, dirs : FitsIn(x, dirs)' <=> FitsIn(x, dirs)
    BY <1>1, TreeStays DEF FitsIn
  <2>2. QED
    BY <1>1, <2>1 DEF ScanInv, FramesFit
<1>7. VisitedCovered'
  BY <1>1, <1>2 DEF ScanInv, VisitedCovered
<1>8. ListedHandled'
  BY <1>1, <1>2, <1>3, <1>4 DEF ScanInv, ListedHandled
<1>9. GivenCovered'
  BY <1>1, <1>2 DEF ScanInv, GivenCovered
<1>10. NothingElse'
  BY <1>1, <1>2 DEF ScanInv, NothingElse
<1>11. LookedInto'
  BY <1>1, <1>2, <1>4 DEF ScanInv, LookedInto
<1>12. Counted'
  <2>1. \A f : Seen(f)' = Seen(f)
    BY <1>1, <1>3, <1>4, SeenStays DEF CameTo
  <2>2. QED
    BY <1>1, <2>1 DEF ScanInv, Counted
<1>13. FindsTheManifests'
  <2>1. /\ Given' = Given /\ Inner' = Inner /\ \A d : Subdirectories(d)' = Subdirectories(d)
        /\ \A S : Expected(S)' = Expected(S)
    BY <1>1, TreeStays DEF Subdirectories
  <2> DEFINE start == Given \cup UNION {Subdirectories(d) : d \in Given}
             found == LeadsTo(Given, Inner)
  <2>2. start' = start /\ found' = found
    BY <2>1 DEF LeadsTo
  <2> HIDE DEF start, found
  <2>3. Expected(start)' = Expected(start) /\ Expected(found)' = Expected(found)
    BY <2>1, <2>2
  <2>4. QED
    BY <1>1, <1>2, <2>3 DEF ScanInv, FindsTheManifests, start, found
<1>14. ReadsDirectoriesOnce'
  BY <1>1, <1>2, <1>3 DEF ScanInv, ReadsDirectoriesOnce
<1>15. QED
  BY <1>5, <1>6, <1>7, <1>8, <1>9, <1>10, <1>11, <1>12, <1>13, <1>14 DEF ScanInv

(* Of every scan: the invariant that the two theorems below follow from.   *)
(* Besides the types and what has been found so far, it says for each      *)
(* place of a directory that the scan is in that either a call on the      *)
(* stack has still to come to it or what stands there has been dealt with  *)
(* (kustomize.go:23-60, 62-160).                                           *)
THEOREM ScanStaysRight == ScanSpec => []ScanInv
<1>1. ScanInv /\ ScanNext => ScanInv'
  <2> SUFFICES ASSUME ScanInv, ScanNext PROVE ScanInv'
    OBVIOUS
  <2>1. Halts \/ (\E e \in Dir \cup File : Takes(e)) \/ Return \/ AllFollowed \/ LookInto \/ AllLookedInto
    BY ScanSteps DEF ScanInv
  <2>2. QED
    BY <2>1, FailsKeepsScan, TakesKeepsScan, ReturnKeepsScan, AllFollowedKeepsScan, LookIntoKeepsScan,
       AllLookedIntoKeepsScan
<1>2. QED
  BY <1>1, ScanBegins, StutterKeepsScan, PTL DEF ScanSpec

(* However kustomizations refer to each other, in circles too: a scan that *)
(* succeeds has read what they lead to from the directories given, and,    *)
(* as long as that holds something of Crossplane, nothing else; otherwise  *)
(* it has also read what the subdirectories lead to, and nothing that was  *)
(* neither below them nor listed on the way (kustomize.go:40-51, 62-160).  *)
THEOREM ScansFindTheManifests == ScanSpec => []FindsTheManifests
BY ScanStaysRight, PTL DEF ScanInv

(* As long as nothing has to be discovered, a file is in the result        *)
(* exactly as often as the directories that are followed list or hold it:  *)
(* the mark that is set before a directory is gone into keeps the second   *)
(* of two references to it from reading it again (kustomize.go:105-108).   *)
THEOREM ScansReadDirectoriesOnce == ScanSpec => []ReadsDirectoriesOnce
BY ScanStaysRight, PTL DEF ScanInv

-----------------------------------------------------------------------------
(***************************************************************************)
(* The command line as a whole: each command keeps what its own            *)
(* specification promises, whichever of them a process runs.               *)
(***************************************************************************)

(* The commands that do not run.                                           *)
OthersIdle ==
  /\ command # "render" => ScanIdle
  /\ command # "plan" => PlanIdle
  /\ command # "validate" => ValidationIdle
  /\ command # "live" => ClientIdle

(* A render gets its composites once, from the scan.                       *)
RenderFollowsScan == rstage = "scan" => roots = {}

LEMMA CommandsBegin ==
  ASSUME CliInit
  PROVE  /\ OthersIdle /\ RenderFollowsScan /\ RenderIdle /\ LintInit
         /\ command = "render" => ScanInit
         /\ command = "plan" => PlanInit
         /\ command = "validate" => ValidationInit
         /\ command = "live" => ClientInit
BY DEF CliInit, OthersIdle, RenderFollowsScan, RenderCommandInit, RenderCommandIdle, RenderIdle, LintInit

LEMMA OnlyOneCommandGoesOn ==
  ASSUME [CliNext]_cliVars
  PROVE  /\ command' = command
         /\ command # "render" => UNCHANGED commandRenderVars
         /\ command # "plan" => UNCHANGED planVars
         /\ command # "validate" => UNCHANGED validationVars
         /\ command # "live" => UNCHANGED clientVars
         /\ [PlanNext]_planVars /\ [ValidationNext]_validationVars /\ [ClientNext]_clientVars
         /\ [LintNext]_lintVars /\ [RenderCommandNext]_commandRenderVars
<1>1. CASE UNCHANGED cliVars
  BY <1>1 DEF cliVars
<1>2. CASE CliNext
  BY <1>2 DEF CliNext
<1>3. QED
  BY <1>1, <1>2

LEMMA RenderCommandSteps ==
  ASSUME [RenderCommandNext]_commandRenderVars, RenderFollowsScan
  PROVE  [ScanNext]_scanVars /\ [RenderBegins \/ RenderNext]_renderVars /\ RenderFollowsScan'
<1>1. CASE UNCHANGED commandRenderVars
  BY <1>1 DEF commandRenderVars, renderVars, RenderFollowsScan
<1>2. CASE ScanStep
  BY <1>2 DEF ScanStep, renderVars, RenderFollowsScan
<1>3. CASE RenderFound
  <2>1. XrsFound \in SUBSET Rendered
    BY XrsAssumption DEF XrsFound, Read
  <2>2. \/ UNCHANGED renderVars
        \/ XrsFound # {} /\ RenderStart(XrsFound)
    BY <1>3 DEF RenderFound
  <2>3. roots = {} /\ UNCHANGED scanVars /\ rstage' # "scan"
    BY <1>3 DEF RenderFound, RenderFollowsScan
  <2>4. QED
    BY <2>1, <2>2, <2>3 DEF RenderBegins, RenderFollowsScan
<1>4. CASE RenderStep
  BY <1>4 DEF RenderStep, RenderFollowsScan
<1>5. CASE PrintRendered
  BY <1>5 DEF PrintRendered, RenderFollowsScan
<1>6. QED
  BY <1>1, <1>2, <1>3, <1>4, <1>5 DEF RenderCommandNext

LEMMA OthersStayIdle ==
  ASSUME [CliNext]_cliVars, OthersIdle
  PROVE  OthersIdle'
<1>1. command' = command
  BY OnlyOneCommandGoesOn
<1>2. ASSUME command # "render" PROVE ScanIdle'
  <2>1. UNCHANGED scanVars /\ ScanIdle
    BY <1>2, OnlyOneCommandGoesOn DEF OthersIdle, commandRenderVars
  <2>2. QED
    BY <2>1 DEF ScanIdle, scanVars, Nothing
<1>3. ASSUME command # "plan" PROVE PlanIdle'
  <2>1. UNCHANGED planVars /\ PlanIdle
    BY <1>3, OnlyOneCommandGoesOn DEF OthersIdle
  <2>2. QED
    BY <2>1 DEF PlanIdle, CloudIdle, planVars, commandVars, cloudVars
<1>4. ASSUME command # "validate" PROVE ValidationIdle'
  <2>1. UNCHANGED validationVars /\ ValidationIdle
    BY <1>4, OnlyOneCommandGoesOn DEF OthersIdle
  <2>2. QED
    BY <2>1 DEF ValidationIdle, validationVars
<1>5. ASSUME command # "live" PROVE ClientIdle'
  <2>1. UNCHANGED clientVars /\ ClientIdle
    BY <1>5, OnlyOneCommandGoesOn DEF OthersIdle
  <2>2. QED
    BY <2>1 DEF ClientIdle, clientVars
<1>6. QED
  BY <1>1, <1>2, <1>3, <1>4, <1>5 DEF OthersIdle

(* An idle command claims nothing.                                         *)
LEMMA IdleIsRight ==
  /\ ScanIdle => FindsTheManifests /\ ReadsDirectoriesOnce
  /\ PlanIdle => NothingIsWithheld /\ ExitTellsTheDifference /\ CloudPlanMatchesCloud
  /\ ValidationIdle => ValidatorAgreesWithServer
  /\ ClientIdle => ReadyPodAnswersFully
<1>1. ScanIdle => FindsTheManifests /\ ReadsDirectoriesOnce
  BY DEF ScanIdle, FindsTheManifests, ReadsDirectoriesOnce
<1>2. PlanIdle => NothingIsWithheld /\ ExitTellsTheDifference /\ CloudPlanMatchesCloud
  BY DEF PlanIdle, CloudIdle, NothingIsWithheld, ExitTellsTheDifference, CloudPlanMatchesCloud, Ended
<1>3. ValidationIdle => ValidatorAgreesWithServer
  BY DEF ValidationIdle, ValidatorAgreesWithServer
<1>4. ClientIdle => ReadyPodAnswersFully
  BY DEF ClientIdle, ReadyPodAnswersFully
<1>5. QED
  BY <1>1, <1>2, <1>3, <1>4

(* A process of the command line behaves, in the variables of each of its  *)
(* commands, as that command by itself does, or leaves them alone: one     *)
(* RunE runs, and what a render is given comes from the scan before it     *)
(* (main.go:25-44, 71-130, 331-363).                                       *)
THEOREM CommandsStandAlone ==
  CliSpec => /\ RenderSpec /\ LintSpec
             /\ ScanSpec \/ []ScanIdle
             /\ PlanSpec \/ []PlanIdle
             /\ ValidationSpec \/ []ValidationIdle
             /\ ClientSpec \/ []ClientIdle
<1> DEFINE Inv == OthersIdle /\ RenderFollowsScan
           Step == /\ [ScanNext]_scanVars /\ [RenderBegins \/ RenderNext]_renderVars
                   /\ [PlanNext]_planVars /\ [ValidationNext]_validationVars /\ [ClientNext]_clientVars
                   /\ [LintNext]_lintVars
                   /\ (command # "render")' <=> command # "render"
                   /\ (command # "plan")' <=> command # "plan"
                   /\ (command # "validate")' <=> command # "validate"
                   /\ (command # "live")' <=> command # "live"
<1>1. CliInit => Inv /\ RenderIdle /\ LintInit
  BY CommandsBegin
<1>2. CliInit => /\ ScanInit \/ command # "render"
                 /\ PlanInit \/ command # "plan"
                 /\ ValidationInit \/ command # "validate"
                 /\ ClientInit \/ command # "live"
  BY CommandsBegin
<1>3. Inv /\ [CliNext]_cliVars => Inv' /\ Step
  <2> SUFFICES ASSUME Inv, [CliNext]_cliVars PROVE Inv' /\ Step
    OBVIOUS
  <2>1. command' = command /\ [RenderCommandNext]_commandRenderVars
    BY OnlyOneCommandGoesOn
  <2>2. [ScanNext]_scanVars /\ [RenderBegins \/ RenderNext]_renderVars /\ RenderFollowsScan'
    BY <2>1, RenderCommandSteps
  <2>3. OthersIdle'
    BY OthersStayIdle
  <2>4. QED
    BY <2>1, <2>2, <2>3, OnlyOneCommandGoesOn
<1>4. Inv => /\ command # "render" => ScanIdle
             /\ command # "plan" => PlanIdle
             /\ command # "validate" => ValidationIdle
             /\ command # "live" => ClientIdle
  BY DEF OthersIdle
<1> HIDE DEF Inv
<1>5. QED
  BY <1>1, <1>2, <1>3, <1>4, PTL DEF CliSpec, ScanSpec, RenderSpec, PlanSpec, ValidationSpec, ClientSpec, LintSpec

(* So all that has been proved of single commands holds of the program:    *)
(* what is read, rendered, planned, withheld, told by the exit code,       *)
(* validated, printed and installed is right, whichever command runs and   *)
(* however it goes (main.go:25-44, 71-197, 331-515, live.go:33-160).       *)
THEOREM CommandLineIsRight ==
  CliSpec => /\ []FindsTheManifests /\ []ReadsDirectoriesOnce /\ []RenderedIsReachable
             /\ []NothingIsWithheld /\ []ExitTellsTheDifference /\ []CloudPlanMatchesCloud
             /\ []ValidatorAgreesWithServer /\ []ReadyPodAnswersFully
             /\ []PartialIsExplained /\ WholeToolsAreKept
<1>1. /\ ScanIdle => FindsTheManifests /\ ReadsDirectoriesOnce
      /\ PlanIdle => NothingIsWithheld /\ ExitTellsTheDifference /\ CloudPlanMatchesCloud
      /\ ValidationIdle => ValidatorAgreesWithServer
      /\ ClientIdle => ReadyPodAnswersFully
  BY IdleIsRight
<1>2. QED
  BY <1>1, CommandsStandAlone, ScansFindTheManifests, ScansReadDirectoriesOnce, RendersWhatIsReachable,
     PlansAreComplete, ExitCodesAreTrue, CloudPlansAreTrue, ValidatorIsTheServer, ReadyPodsAnswerFully,
     InstallersDoNotCollide, CompleteToolsAreKept, PTL
=============================================================================
