------------------------------ MODULE Validation ------------------------------
(***************************************************************************)
(* pkg/validate and the command `validate`: composites and claims are      *)
(* checked against the schema their XRD gives, before anything reaches a   *)
(* cluster.                                                                *)
(*                                                                         *)
(* A value is a record: its type t, its printed form v, its fields f (of   *)
(* an object) and the set e of its elements (of an array).  "integer" is   *)
(* an int64, "whole" a float64 without a fraction.                         *)
(*                                                                         *)
(* A schema has a type ("any" if it names none), the values enum allows    *)
(* (AnyValue if it has no enum), the required fields, the properties, and  *)
(* what only the API server looks at: the schemas of elements (items) and  *)
(* of other fields (others; None if there is none), the values its other   *)
(* rules refuse (patterns, bounds, lengths and such), nullable, and        *)
(* whether it has a default.                                               *)
(***************************************************************************)
EXTENDS Naturals, Sequences, FiniteSets

CONSTANTS Value,
          Height,      \* how deep a value is nested
          Schema,
          Xrds,        \* [type, claim, versions]: a sequence of [name, served, schema]
          Resources,   \* [class, type, version, spec, config]
          Configs,     \* names of ProviderConfigs
          AnyValue,    \* for enum: no restriction
          NoSpec,      \* an openAPIV3Schema without properties.spec
          None         \* no openAPIV3Schema, no spec, no reference

Types == {"null", "boolean", "string", "integer", "whole", "number", "array", "object"}

(* Value and Schema hold the values and schemas with what is inside them.  *)
ASSUME TreeAssumption ==
  /\ Height \in [Value -> Nat]
  /\ \A v \in Value :
       /\ v.t \in Types
       /\ \A k \in DOMAIN v.f : v.f[k] \in Value /\ Height[v.f[k]] < Height[v]
       /\ \A y \in v.e : y \in Value /\ Height[y] < Height[v]
  /\ \A s \in Schema :
       /\ s.type \in {"any", "boolean", "string", "integer", "number", "array", "object"}
       /\ \A k \in DOMAIN s.props : s.props[k] \in Schema
       /\ {s.items, s.others} \subseteq Schema \cup {None}

ASSUME XrdAssumption ==
  /\ None \notin Schema \cup Value /\ NoSpec \notin Schema
  /\ \A x \in Xrds : \A i \in DOMAIN x.versions :
       i \in Nat /\ x.versions[i].schema \in Schema \cup {None, NoSpec}
  /\ \A r \in Resources : r.spec \in Value \cup {None}

VARIABLES manifests,   \* what the scan found: [xrds, resources, configs, compositions]
          vstage, problems, verdict

validationVars == <<manifests, vstage, problems, verdict>>

NoManifests == [xrds |-> {}, resources |-> {}, configs |-> {}, compositions |-> {}]

ValidationIdle ==
  /\ manifests = NoManifests /\ vstage = "off" /\ problems = {} /\ verdict = 0

ValidationInit ==
  /\ \E x \in Xrds, r \in Resources, c \in SUBSET Configs :
     \E composed \in SUBSET {x.versions[i].name : i \in DOMAIN x.versions} :
       manifests = [xrds |-> {x}, resources |-> {r}, configs |-> c,
                    compositions |-> {r.type} \X composed]
  /\ vstage = "scanned" /\ problems = {} /\ verdict = 0

-----------------------------------------------------------------------------
ServedWithSchema(versions) ==
  {i \in DOMAIN versions : versions[i].served /\ versions[i].schema # None}

Least(S) == CHOOSE i \in S : \A j \in S : i <= j

(* Mutant: the first version, served or not.                               *)
FirstVersionSchema(versions) == versions[1].schema

(* The first served version that has a schema, otherwise the first version *)
findServedVersionSchema(versions) ==
  IF ServedWithSchema(versions) # {} THEN versions[Least(ServedWithSchema(versions))].schema
  ELSE versions[1].schema

(* By group and kind; the version does not count.                          *)
matchesXRD(r, x) == r.type = x.type \/ r.type = x.claim

typesMatch(expected, actual) ==
  expected = actual \/ {expected, actual} = {"integer", "number"}

detectType(value) == IF value.t = "whole" THEN "number" ELSE value.t

(* A problem is told by the field, without the path to it.  null has no    *)
(* type that could be wrong.                                               *)
checkType(schema, value, k) ==
  IF \/ schema.type = "any" \/ value.t = "null"
     \/ typesMatch(schema.type, detectType(value))
  THEN {} ELSE {<<k, "type">>}

(* Values are compared as they are printed.                                *)
PrintedIn(value, set) == \E y \in set : y.v = value.v

checkEnum(schema, value, k) ==
  IF schema.enum = AnyValue \/ PrintedIn(value, schema.enum) THEN {} ELSE {<<k, "enum">>}

checkRequired(schema, object) ==
  {<<k, "missing">> : k \in schema.required \ DOMAIN object.f}

checkField(schema, value, k) ==
  checkType(schema, value, k) \cup checkEnum(schema, value, k)

(* Fields without a schema are not looked at, and lists not into.          *)
problemsOf[v \in Value] ==
  [s \in Schema |->
     checkRequired(s, v) \cup
     UNION {checkField(s.props[k], v.f[k], k)
              \cup (IF v.f[k].t = "object" THEN problemsOf[v.f[k]][s.props[k]] ELSE {})
            : k \in DOMAIN v.f \cap DOMAIN s.props}]

validateObject(schema, object) == problemsOf[object][schema]

Composites == {r \in manifests.resources : r.class \in {"xr", "claim"}}

HasSpec(r) == r.spec # None /\ r.spec.t = "object"

(* An XRD without a schema is passed over, then one whose schema has none  *)
(* for spec, and a resource whose spec is missing or no object.            *)
SchemaErrors(x, r) ==
  LET schema == findServedVersionSchema(x.versions) IN
  IF schema \in {None, NoSpec} \/ ~HasSpec(r) \/ ~matchesXRD(r, x) THEN {}
  ELSE {<<"error", r, e>> : e \in validateObject(schema, r.spec)}

validateXRDSchemas == UNION {SchemaErrors(x, r) : x \in manifests.xrds, r \in Composites}

validateProviderConfigRefs ==
  {<<"warning", r, "config">> : r \in {s \in manifests.resources :
     s.class \in {"mr", "xr"} /\ s.config # None /\ s.config \notin manifests.configs}}

validateCompositionRefs ==
  {<<"warning", r, "composition">> : r \in {s \in manifests.resources :
     s.class = "xr" /\ <<s.type, s.version>> \notin manifests.compositions}}

(* The command: only errors make it fail.                                  *)
Validate ==
  /\ vstage = "scanned"
  /\ problems' = validateXRDSchemas \cup validateProviderConfigRefs \cup validateCompositionRefs
  /\ verdict' = IF \E p \in problems' : p[1] = "error" THEN 1 ELSE 0
  /\ vstage' = "ended"
  /\ UNCHANGED manifests

ValidationNext == Validate

ValidationSpec == ValidationInit /\ [][ValidationNext]_validationVars

-----------------------------------------------------------------------------
(* External: the API server, which Crossplane gives a CRD with the schemas *)
(* of the XRD; structural schemas and their pruning are the rule there.    *)
(* Of the schema of spec itself Crossplane takes the properties, required  *)
(* fields and rules.                                                       *)
TypeAdmits(s, v) ==
  \/ s.type \in {"any", v.t}
  \/ s.type = "integer" /\ v.t = "whole"
  \/ s.type = "number" /\ v.t \in {"integer", "whole"}
  \/ s.nullable /\ v.t = "null"

SchemaOf(s, k) == IF k \in DOMAIN s.props THEN s.props[k] ELSE s.others

(* Fields without a schema are pruned, and so is a null that is not        *)
(* nullable.                                                               *)
Kept(s, v) ==
  {k \in DOMAIN v.f : SchemaOf(s, k) # None /\ (v.f[k].t = "null" => SchemaOf(s, k).nullable)}

Defaulted(s) == {k \in DOMAIN s.props : s.props[k].default}

(* The schemas that admit a value.                                         *)
admitting[v \in Value] ==
  {s \in Schema :
     /\ TypeAdmits(s, v)
     /\ s.enum = AnyValue \/ v \in s.enum
     /\ v \notin s.refuses
     /\ s.items # None => \A y \in v.e : s.items \in admitting[y]
     /\ v.t = "object" =>
          /\ s.required \subseteq Kept(s, v) \cup Defaulted(s)
          /\ \A k \in Kept(s, v) : SchemaOf(s, k) \in admitting[v.f[k]]}

AdmitsSpec(s, v) ==
  /\ v \notin s.refuses
  /\ s.required \subseteq Kept(s, v) \cup Defaulted(s)
  /\ \A k \in Kept(s, v) : SchemaOf(s, k) \in admitting[v.f[k]]

(* The version a resource asks for.                                        *)
VersionOf(r, x) == {i \in DOMAIN x.versions : x.versions[i].name = r.version /\ x.versions[i].served}

(* What validateObject comes to: each value with the schema it is held to. *)
visits[v \in Value] ==
  [s \in Schema |-> {<<v, s>>} \cup UNION {visits[v.f[k]][s.props[k]] : k \in DOMAIN v.f \cap DOMAIN s.props}]

(* The one way of being stricter: it does not know of defaults, nor that a *)
(* null is taken away before an enum is looked at.                         *)
Stricter(v, s) ==
  \/ \E k \in s.required \cap Defaulted(s) : k \notin DOMAIN v.f
  \/ v.t = "null" /\ ~s.nullable /\ s.enum # AnyValue /\ ~PrintedIn(v, s.enum)

(* And of being laxer: fractions, values that look alike, other rules,     *)
(* elements and other fields, and required fields that are pruned.         *)
Laxer(v, s) ==
  \/ s.type = "integer" /\ v.t = "number"
  \/ s.enum # AnyValue /\ v \notin s.enum /\ PrintedIn(v, s.enum)
  \/ v \in s.refuses
  \/ s.items # None /\ \E y \in v.e : s.items \notin admitting[y]
  \/ \E k \in Kept(s, v) \ DOMAIN s.props : s.others \notin admitting[v.f[k]]
  \/ \E k \in s.required \cap DOMAIN v.f : k \notin Kept(s, v) \cup Defaulted(s)

(* `validate` and the API server tell different things about a composite,  *)
(* of the version that is looked at and with an object as its spec, only   *)
(* where the one is stricter or laxer than the other about some value it   *)
(* comes to: a verdict of 1 means that the server rejects the composite or *)
(* that there is a default or a null, one of 0 that it admits it or that   *)
(* one of the rules it does not know is broken (validate.go:299, 255-258,  *)
(* 84-109, 137-140).  The provider configs and compositions a set of       *)
(* manifests does not hold never make it fail.                             *)
ValidatorAgreesWithServer ==
  vstage = "ended" =>
    \A x \in manifests.xrds, r \in Composites :
      \A i \in VersionOf(r, x) :
        LET schema == x.versions[i].schema
            spots == visits[r.spec][schema]
        IN
        /\ matchesXRD(r, x) /\ HasSpec(r) /\ schema \notin {None, NoSpec}
        /\ \A j \in VersionOf(r, x) \cup ServedWithSchema(x.versions) : i <= j
        => /\ verdict = 1 => \/ ~AdmitsSpec(schema, r.spec)
                             \/ \E spot \in spots : Stricter(spot[1], spot[2])
           /\ verdict = 0 => \/ AdmitsSpec(schema, r.spec)
                             \/ \E spot \in spots : Laxer(spot[1], spot[2])
=============================================================================
