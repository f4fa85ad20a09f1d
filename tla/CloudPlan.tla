------------------------------ MODULE CloudPlan ------------------------------
(***************************************************************************)
(* The cloud plan: hcl.Convert of both sides, one resource at a time, with *)
(* the provider schema fetched on demand, and tofu.Plan: init, import of   *)
(* what the base describes, plan and its JSON.                             *)
(*                                                                         *)
(* A set of resources is a function to contents, 0 for a resource that is  *)
(* not in it.  cloud says what really exists, by the same resources.       *)
(***************************************************************************)
EXTENDS Naturals, FiniteSets, Sequences

CONSTANTS Managed,      \* rendered resources of a provider's groups
          Content,      \* what a resource can be set to, 0 not among them
          Convertible,  \* those with a Terraform type and its required fields
          Importable,   \* those whose manifest tells the cloud id
          Schemas,      \* the ways a provider's schema can be indexed
          AddressOf     \* AddressOf[r][s]: type and sanitized name of r by schema s

Derived == "derived"    \* no schema: the type is derived from group and kind

ASSUME CloudAssumption ==
  /\ 0 \notin Content /\ Derived \notin Schemas
  /\ Convertible \subseteq Managed /\ Importable \subseteq Managed
  /\ \A r \in Managed : DOMAIN AddressOf[r] = Schemas \cup {Derived}

Sets == [Managed -> Content \cup {0}]
In(set) == {r \in Managed : set[r] # 0}
NoSet == [r \in Managed |-> 0]

VARIABLES cstage,
          cloud,         \* external: what exists, once the tool looks
          basis, wanted, \* the two sides; basis is NoSet for a live plan
          schemaCache,   \* schemaCache, for the provider of Managed
          toConvert,     \* what the loop of Convert has before it
          baseBlocks, targetBlocks,
          toImport, tfState,
          cloudPlan,     \* PlanResult
          faults         \* history: what went wrong without ending the plan

cloudVars == <<cstage, cloud, basis, wanted, schemaCache, toConvert, baseBlocks,
               targetBlocks, toImport, tfState, cloudPlan, faults>>

NoPlan == [changes |-> {}, hasChanges |-> FALSE]

CloudIdle ==
  /\ cstage = "off" /\ cloud = NoSet /\ basis = NoSet /\ wanted = NoSet
  /\ schemaCache = Derived /\ toConvert = {} /\ baseBlocks = {} /\ targetBlocks = {}
  /\ toImport = {} /\ tfState = <<>> /\ cloudPlan = NoPlan /\ faults = {}

(* A comparison of refs converts its base first, whatever is in it; a live *)
(* plan has no base to convert.                                            *)
CloudStart(hasBase, base, target) ==
  /\ cstage = "off"
  /\ basis' = (IF hasBase THEN base ELSE NoSet) /\ wanted' = target
  /\ cstage' = IF hasBase THEN "convertBase" ELSE "convertTarget"
  /\ toConvert' = IF hasBase THEN In(base) ELSE In(target)
  /\ UNCHANGED <<cloud, schemaCache, baseBlocks, targetBlocks, toImport, tfState, cloudPlan, faults>>

CloudFails ==
  /\ cstage' = "failed"
  /\ UNCHANGED <<cloud, basis, wanted, schemaCache, toConvert, baseBlocks, targetBlocks,
                 toImport, tfState, cloudPlan, faults>>

(* Mutant: the schema is fetched for each resource.                        *)
LoadWithoutCache == Schemas \cup {Derived}

(* The cached schema, or whatever terraform init and providers schema give *)
(* now: an order of the provider's types, or an error, which is not kept.  *)
LoadProviderSchema == IF schemaCache # Derived THEN {schemaCache} ELSE Schemas \cup {Derived}

(* Type and name together; the type is looked up in the schema, or derived *)
(* when there is none.                                                     *)
mapResourceType(r, s) == AddressOf[r][s]

resolveImportID(r) == r \in Importable

Block(r, set, s) == [addr |-> mapResourceType(r, s), key |-> r, content |-> set[r],
                     importable |-> resolveImportID(r)]

Side == IF cstage = "convertBase" THEN basis ELSE wanted

(* A resource that cannot be converted is skipped.                         *)
ConvertResource(r) ==
  \E s \in LoadProviderSchema :
    LET block == IF r \in Convertible THEN {Block(r, Side, s)} ELSE {} IN
    /\ cstage \in {"convertBase", "convertTarget"} /\ r \in toConvert
    /\ toConvert' = toConvert \ {r}
    /\ schemaCache' = s
    /\ baseBlocks' = IF cstage = "convertBase" THEN baseBlocks \cup block ELSE baseBlocks
    /\ targetBlocks' = IF cstage = "convertTarget" THEN targetBlocks \cup block ELSE targetBlocks
    /\ faults' = IF s = Derived THEN faults \cup {"schema"} ELSE faults
    /\ UNCHANGED <<cstage, cloud, basis, wanted, toImport, tfState, cloudPlan>>

(* Convert returns: without any block it is an error, so that an empty     *)
(* base ends the plan.                                                     *)
Converted ==
  /\ cstage \in {"convertBase", "convertTarget"} /\ toConvert = {}
  /\ IF (IF cstage = "convertBase" THEN baseBlocks ELSE targetBlocks) = {} THEN CloudFails
     ELSE /\ cstage' = IF cstage = "convertBase" THEN "convertTarget" ELSE "init"
          /\ toConvert' = IF cstage = "convertBase" THEN In(wanted) ELSE {}
          /\ UNCHANGED <<cloud, basis, wanted, schemaCache, baseBlocks, targetBlocks,
                         toImport, tfState, cloudPlan, faults>>

(* Two resource blocks of the same address are no configuration.           *)
UniqueAddresses == \A a, b \in targetBlocks : a.addr = b.addr => a = b

TofuInit ==
  /\ cstage = "init" /\ UniqueAddresses
  /\ cstage' = "import"
  /\ cloud' \in Sets
  /\ toImport' = {b \in baseBlocks : b.importable}
  /\ UNCHANGED <<basis, wanted, schemaCache, toConvert, baseBlocks, targetBlocks,
                 tfState, cloudPlan, faults>>

(* init, plan or show may fail, which ends the plan.                       *)
ToolFails == cstage \in {"init", "import"} /\ (cstage = "import" => toImport = {}) /\ CloudFails

(* External: what terraform import does.                                   *)
CanImport(b) ==
  /\ \E t \in targetBlocks : t.addr = b.addr
  /\ b.addr \notin DOMAIN tfState
  /\ cloud[b.key] # 0

With(f, a, v) == [x \in DOMAIN f \cup {a} |-> IF x = a THEN v ELSE f[x]]

ImportResource(b) ==
  /\ cstage = "import" /\ b \in toImport
  /\ toImport' = toImport \ {b}
  /\ \/ CanImport(b) /\ tfState' = With(tfState, b.addr, b.key) /\ UNCHANGED faults
     \/ ~CanImport(b) /\ UNCHANGED <<tfState, faults>>
     \/ CanImport(b) /\ faults' = faults \cup {"import"} /\ UNCHANGED tfState
  /\ UNCHANGED <<cstage, cloud, basis, wanted, schemaCache, toConvert, baseBlocks, targetBlocks,
                 cloudPlan>>

(* External: the actions of a change in the plan's JSON; a field that      *)
(* cannot be changed in place makes a replacement.                         *)
Actions(b) ==
  IF b.addr \notin DOMAIN tfState THEN {<<"create">>}
  ELSE IF cloud[tfState[b.addr]] = b.content THEN {<<"no-op">>}
  ELSE {<<"update">>, <<"delete", "create">>, <<"create", "delete">>}

mapAction(actions) == IF Len(actions) = 1 THEN actions[1] ELSE "update"

(* The result lists every change, and counts those that are none not.      *)
parsePlanJSON(actions) ==
  LET changes == {[action |-> mapAction(actions[b]), key |-> b.key] : b \in targetBlocks}
  IN [changes |-> changes, hasChanges |-> \E c \in changes : c.action # "no-op"]

PlanAndShow ==
  /\ cstage = "import" /\ toImport = {}
  /\ \E actions \in [targetBlocks -> UNION {Actions(b) : b \in targetBlocks}] :
       /\ \A b \in targetBlocks : actions[b] \in Actions(b)
       /\ cloudPlan' = parsePlanJSON(actions)
  /\ cstage' = "done"
  /\ UNCHANGED <<cloud, basis, wanted, schemaCache, toConvert, baseBlocks, targetBlocks,
                 toImport, tfState, faults>>

CloudNext ==
  \/ \E r \in toConvert : ConvertResource(r)
  \/ Converted
  \/ TofuInit
  \/ \E b \in toImport : ImportResource(b)
  \/ PlanAndShow
  \/ ToolFails

-----------------------------------------------------------------------------
Change(r) == (CHOOSE c \in cloudPlan.changes : c.key = r).action

(* A cloud plan tells the truth about what both sides describe and the     *)
(* base can name: created if it is not there, updated if it differs, as    *)
(* long as no import and no schema download failed and no two resources    *)
(* share an address.  The two conversions, of resources in any order, must *)
(* then give a resource the same address, or its import is lost and it is  *)
(* shown as created (schema.go:25-31, tofu.go:224-237).                    *)
CloudPlanMatchesCloud ==
  /\ cstage = "done" /\ faults = {}
  /\ \A a, b \in baseBlocks \cup targetBlocks : a.addr = b.addr => a.key = b.key
  =>
    /\ \A r \in In(basis) \cap In(wanted) \cap Convertible \cap Importable :
         Change(r) = IF cloud[r] = 0 THEN "create"
                     ELSE IF cloud[r] = wanted[r] THEN "no-op" ELSE "update"
    /\ {c.key : c \in cloudPlan.changes} = In(wanted) \cap Convertible
=============================================================================
