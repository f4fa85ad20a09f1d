# TLA+ models of crossplane-validation

crossplane-validation plans changes to Crossplane manifests before they are merged. A CLI
(`crossplane-validate`) compares manifests with a git branch or with the live cluster; for the
live comparison an operator in the cluster (`crossplane-validate-operator`) keeps an in-memory
copy of all Crossplane resources and answers plan, drift, status and resolve requests over HTTP.

This directory models the operator - its state cache, its process, its requests -, the comparison
that every plan rests on, and the commands of the CLI. TLC checks the models on small instances;
TLAPS proves most of the safety properties for every instance. `PROJECT.json` lists the runs, the
mutants that show each property can fail, the map from definitions to source lines, the findings
and the hazards.

## Inventory

### The operator

| component | state it keeps | operations | interacts with |
|---|---|---|---|
| State cache `pkg/operator/cache.go` | `resources` (map of key to object), `watchedGVRs`, `mu`, `stopChan` | `Start`, `rediscoveryLoop`, `startInformers`, `onAdd`, `onDelete`, `GetResourceSet`, `GetResource`, `Stop` | discovery API, client-go informers (callbacks from their goroutines), request handlers (readers) |
| Discovery `pkg/k8s/discovery.go` | none | `DiscoverCrossplaneResources`, `DiscoverXRGroups` | API server, which may answer in part |
| Operator process `cmd/crossplane-validate-operator/main.go` | `ready`, `errCh`, `sigCh`, `ctx`, the lease | start, run, leader election callbacks, final select, shutdown | cache, API server, health server |
| Plan and drift `pkg/operator/plan.go`, `drift.go` | the package variable `diff.ShowSensitive` | `ComputeLivePlan`, `scopeToProposed`, `ComputeDrift`, `detectDrift` | one snapshot of the cache, renderer, diff |
| Composition walks `pkg/operator/compose.go` | none | `ResolveComposedChanges`, `ResolveAllManagedResources`, `buildResourceTree`, `collectManagedResources` | single lookups in the cache |
| Service and HTTP `pkg/grpc/server.go`, `httpapi.go` | the server | one handler per request, each in a goroutine | everything above |

### Shared by operator and CLI

| component | state | operations |
|---|---|---|
| Manifest scanning `pkg/manifest` | result set, `visited` directories | `classify`, `ScanKustomize...` |
| Renderer `pkg/renderer` | the worklist of nested composites | `Render`, `findComposition`, `renderComposition`, `renderWithCrossplane` |
| Diff `pkg/diff/diff.go` | `ShowSensitive` | `Compute`, `computeFieldChanges` and the array comparisons |
| Plan output `pkg/plan/render.go` | none | one function for each of three formats |
| Validation `pkg/validate` | none | three checks of manifests against XRD schemas |
| Configuration, notification | none | one-shot I/O |

### The CLI only

| component | state it keeps | operations | interacts with |
|---|---|---|---|
| Commands `cmd/crossplane-validate` | flags, the exit code | plan, drift, status, render, validate, lint, diff, scan | everything below |
| Client and port-forward `pkg/grpc/client.go`, `pkg/k8s/portforward.go` | one connection; limits of 15 s and a few minutes, no retries | choice of a pod, `Connect`, requests | operator pods, which start, fill their cache and go |
| HCL conversion `pkg/hcl` | `schemaCache` | `Convert`, `LoadProviderSchema` | terraform, for the schema |
| OpenTofu runner `pkg/tofu` | a directory with a state file | init, import, plan, show | the tool and the cloud |
| Lint `pkg/lint` | the tool directory, shared by all processes of a user | `EnsureTools`, download and extraction, run | other lint processes |

### What is hard here

- The informers' goroutines write the map while rediscovery adds informers and handlers read.
  Events come late; deletions may come as tombstones only; discovery answers in part.
- `Start` and every rediscovery wait without a limit for first lists.
- Shutdown has four causes (signal, API error, cache error, lost lease) and may come at any point
  of a start.
- A plan takes a snapshot and renders two sides; they must resolve composites alike, and the live side
  lists a Go map in any order. Composed resources may share a key. A request's option travels through
  a package variable.
- The walks look up one object at a time in a map that changes under them, along references that
  may form a circle.
- A live command meets pods in any phase, and each of its waits must have an end.
- A resource is converted to Terraform twice, and the address must come out the same, although the
  schema may be fetched in between; an import that failed must not turn an update into a creation
  unnoticed; the output must not drop a part of the result in one format or for one combination.
- Nested composites are rendered by a worklist with an external tool that may fail, echo its input
  or nest without an end.
- Several lint processes install the same tool into one directory, and any may be killed.
- The comparison of arrays is heuristic (length limit, match key, printed values) and must not
  lose a difference.

What makes each part correct: the cache is a faithful, monotone, converging mirror with one
informer for a type; the process ends when it should and turns ready when it can; a plan is about
the proposal, of real live contents, empty when there is nothing to do and only one way to render it,
redacted unless asked; a
walk ends, invents nothing and misses nothing stable; the changes of a diff are exactly the
difference; a command ends, prints the answer of a filled cache, withholds nothing and tells with
its exit code whether something differs; a cloud plan says what is really the case; a tool that is
complete stays so.

The hazards, each at its line with the properties that cover it, are in `PROJECT.json`.

## Modules

```
ClusterMirror        what the cache promises of each object
  ^ implemented by   (refinement, proved)
StateCache           cache.go, discovery.go
  ^ extended by
Operator             main.go of the operator; implements Replica (proved)

ClusterMirror  <- Rendering <- AtomicPlan     one comparison at one moment
                      ^           ^ implemented by (refinement, proved)
                      +------- LivePlan       the handlers, step by step
ClusterMirror  <- ResourceWalk <- ComposedChanges
Diff           <- DiffReference               the comparison of two trees

Replica        <- LiveClient    plan --live, drift, status
Manifests, NestedRender <- RenderCommand    the scan, then what it found
CloudPlan      <- PlanCommand   plan of two refs, with a cloud plan
Validation, LintTools
RenderCommand, PlanCommand, Validation, LiveClient, LintTools <- Cli
```

**ClusterMirror** - the abstract specification. An object's life is a sequence of revisions, some
of which are deletions (`gone`). The mirror moves forwards through them (`at`), possibly skipping
some, and serves the content of the revision it is at (`cache`, 0 for no entry).

**StateCache** - `cache.go` and `discovery.go`. `pc` is the line `startInformers` is at; every
call to the API server is an action of its own, answers any part of what is served, or fails where
the code handles a failure. `RegisterInformers` is the loop over the gvrs, with the factory, the
`watchedGVRs` marks and `factory.Start`: nothing another goroutine reads changes within it except the
marks, which only this goroutine writes. `List`, `Watch` and `Resync` are client-go (external): a
store per factory, a queue per object in front of the handler. A list also stands for the relist
after a broken watch, which is where tombstones come from. `Handle` is `onAdd`/`onDelete` under the
lock. Types come and go, objects change at any time, and the context and `stopChan` may be closed at
any time in the order main closes them. `store` and `pending` are kept for each object and not for
each type: informers keep no order between objects.

**Operator** - `main.go` around `StateCache`: main itself, the goroutines of the API server, of `run`
and of the elector (`"off"` without `--leader-elect`), `errCh` as a counter with its capacity, and the
shutdown sequence. Start, Cancel and Stop of the cache happen only where the process calls them.

**LivePlan** - a plan or drift request over the mirror: snapshot, scoping, rendering of both sides
(managed resources as they are, composites through the composition `findComposition` picks,
unresolved ones as themselves), the write of `ShowSensitive`, the comparison one resource at a time
(so that other requests can interleave with its reads of the variable), the response. Parsing and
rendering happen in the action of the snapshot: they read nothing shared.

**ResourceWalk** - the two recursions of `compose.go` with an explicit stack; one action per lookup,
because the lock is held for each lookup only. History variable `touched` records what changed
during a walk, for the properties.

**Rendering** holds what both sides of a comparison are made of, for LivePlan and for its
specification **AtomicPlan**, in which a request is asked, evaluated in one step, and answered with
the complete difference. `AnsweredAtOneMoment` maps a request of LivePlan to a call of AtomicPlan.
Rendered sets are functions from keys (`Key`, what `ResourceKey` tells apart) to the contents they are made
from. A composed resource keeps its base's name, or gets one from the composite's, or is patched; so `Parts`
may give resources of two composites, or a composed one and a managed one, the same key. Of these
`indexByKey` keeps the last: composites come after managed resources and claims after the others, each in
the order of its list. `Orders` are the orders a list may have, which on the live side is that of a map;
`Choices` are the compositions that the first match gives under one of them, `Lasts` the composites that have
the last word, and `Renderings` all that may come of a set.

**ComposedChanges** - `ResolveComposedChanges` on top of ResourceWalk: the changed fields of a
resource are followed through the patches of its composition, one template at a time; name and old
values of each composed resource are separate lookups, each of which goes through the references of
the parent one by one, and the map moves in between. One further level for composites that are found
that way. What is gathered for a resource is what the plan updates on any resource of its kind and name
(`Namesakes`), in whatever group or namespace (server.go:192), and of an update only the fields that are
updated (`Updated`). A reference is a template's when the kind is the same or its apiVersion begins with the
template's group (`RefersTo`); the change is reported under the name of what was found, or else of the
template, and the next level is whatever has that name and the template's type (`Denotes`). `Plans`,
`Compositions`, and the kinds, names, apiVersions and group prefixes of the objects are constants.

**Diff** - `computeFieldChanges` over trees of maps, arrays and primitives. One level of the comparison
is an operator (`diffValues`); the comparison itself is the recursive function `differences` over the
set `Tree` of values, of which `Height` says how deep they are nested. A change has its path relative to
the value at hand, and `Below` puts the prefix on, which the code passes down instead. The two actions
(edit the manifest, apply it) let every pair of specs meet. **DiffReference** says what a set of changes
means, independently of how they are found: `made[v][w]` are the sets of changes that make w of v (a
recursive function over pairs of trees), and `Undo` turns a change around. `distinguished` says where a
match key tells the elements of the arrays apart that are compared by it, which the two properties need.

**Replica** - what a client may rely on about one life of an operator process: not listening, listening
over an empty cache, over a filled one, gone. `Operator!Phase` maps the process to it
(`ReplicaPhases`), and LiveClient's pods are replicas that also restart.

**LiveClient** - the live commands: which pod the port-forward gets, its three outcomes, the health
checks, the request, `decode`, and what the command prints. `--operator-address` is either a service,
which passes requests on to ready pods, or the end of a forward made by hand, which leads to one pod
whatever its phase, as in the pipeline of the repository's README (README.md:355-364). Each wait has a
timer; the only one without is the run of the tool.

**Manifests** - `ScanWithKustomize`, one action per entry of a directory. Its calls of itself are frames
of a stack (a directory, by its kustomization or by what is in it, and how far); the loops over the given
directories (`given`), the map `visited`, and the result as a count per file (`count`) are the other
variables. A directory has no kustomization, one that lists files and directories, or a YAML file that is
none; a file may be unreadable, missing, or hold nothing of Crossplane. `filepath.Walk`, which keeps no
state, is the recursive function `FilesBelow`. **NestedRender** - the
worklist of `renderWithCrossplane`: the tool renders one composite at a time, may fail (then
the built-in renderer answers), echoes its input, and nested composites are taken up until the depth
limit. **RenderCommand** composes the two into `render`.

**CloudPlan** - `hcl.Convert` of both sides, a resource at a time, with the schema that is fetched on
demand and kept; `tofu.Plan` with one import at a time, each of which may fail; the JSON of the plan.
The cloud is external and holds some content for each resource. A comparison of refs converts its base
first, and fails when it has nothing to convert; a live plan has no base. **PlanCommand** - the plan of two
refs, with `--cloud` the cloud plan after it, `--live --cloud`; issues; what each format shows;
the exit code. Files of a ref may be unreadable.

**Validation** - the three checks, and next to them what the API server says of the same object
(external: the rules of structural schemas, with elements, other fields, patterns and bounds as a set of
values refused, nullable, defaults and pruning; enums compare values, where the validator compares what they
print). Both descend into values and schemas as recursive functions over the sets `Value` and `Schema`. The
validator knows less: `Stricter` and `Laxer` list, of one value and the schema it is held to, all the ways
in which it can part with the server, and `ValidatorAgreesWithServer` says that there is no other.

**LintTools** - several processes run `lint`: look for a tool, download it to a temporary file, open the
target (which truncates it), copy block by block; each step may fail or be the last one of a killed
process. A running tool's file cannot be opened for writing.

**Cli** - one process runs one of the commands; `lint` stands for several processes. The disjunction
shares no state between commands; it makes them one run.

**MC...** modules give the constants small values. **...Proofs** hold the theorems, and **Induction** the
lemmas on induction and recursion that they rest on.

## Runs

| run | question | instance and bounds |
|---|---|---|
| `state_cache` | is the cache a faithful, converging mirror, and is a served type watched in the end? | 2 types (one found in each of the two ways), 1 object of the second, 3 writes, 2 factories, 2 undelivered events before a relist; safety and liveness together |
| `operator` | does the process end and turn ready as it should? | 1 type, 1 object, 1 write, 1 factory |
| `live_plan` | is a plan right whatever the cluster does meanwhile? | 1 request at a time; 1 managed resource, 2 composites and a claim that share keys among them and with it, 2 compositions; 4 writes, at most 2 of an object; 7 proposals |
| `resource_walk` | do the walks end, and with the right answer? are the changes those that the patches make, of the right resource? | claim, 2 composites referring to each other, 1 managed resource with the claim's kind and name in another group, 2 writes each; a composition with two patched resources, one of them a composite again whose template has the name of an object |
| `diff` | are the changes the difference? | 108 specs, every pair |
| `cli` | what does each command read, keep, show and leave behind, and does it end? | 3 nested directories, one or two of them given, 80 arrangements of kustomizations, 18 of files; 4 composites and a claim in 4 graphs; 2 resources, 2 contents, 2 provider schemas; 76 specs against 8 schemas in one or two versions, and versions without a schema; 2 pods, a service or a forward; 2 processes, 2 tools of 2 blocks |
| `autodiscover` (violated) | does discovery go on when a type cannot be listed? | as `state_cache`, one type not listable |
| `lost_leadership` (violated) | does a replica that lost its lease end? | as `operator` |
| `redaction` (violated) | are values shown only to who asked? | as `live_plan`, 3 proposals |
| `false_deletes` (violated) | is a proposed object never shown as deleted? | as `live_plan`, 3 proposals |
| `additions` (violated) | is a new object shown as added? | as `live_plan`, 3 proposals |
| `leaves` (violated) | are all crossplane.io leaves collected? | one composite, one leaf of another provider |

Why the bounds are enough. Three revisions are what it takes to create, delete and create again, or to
update between two events. Two factories are two informer generations, what a duplicate informer
needs; events of different objects do not interact, so one object shows all of an object's histories.
A queue of two lets an event be overtaken. One request is enough for `live_plan`: requests share
nothing but `ShowSensitive`, and the finding about that variable already shows with two requests one
after the other. Its cluster is written to four times (`MaxWrites`, in the constraint `FewWrites`): enough to
hold any of the proposals as proposed and then change, with two revisions of one composite and of the
compositions (`Rewritten`); the theorems have no such bound. The two composites, the claim and the managed
resource are what it takes for each way to share a key: two of one list, one of either list, a composed
resource and a managed one. In `resource_walk` the depth limits 5 and 4 of the code are 2 and 1; the stack grows
by the same rule at each level, and a circle of two composites exceeds every limit. In `diff` the
length limit 3 is 1, so that arrays of two and three elements are beyond it; elements compare by
value, so what matters is whether they are below or above the limit.

In `cli`, three nested directories let a kustomization skip a level, refer back up, list files or be
none; the second given directory is one that the first leads to, so that it may have been visited. The
nesting limit of the code, 5, is `RenderDepth` 2: chains of one, two and three composites and a circle
are within it, at it and beyond it. Two resources suffice for addresses: with one of the two schemas
they get the same one. Two pods let the first of the list be the wrong one, and be replaced. Two
processes and two blocks let an installation overtake, truncate or cut off another.

All bounds are the constants `MaxWrites`, `MaxRev`, `MaxFactory`, `MaxPending`, `CollectDepth`, `TreeDepth`, `Short`,
`RenderDepth` and `Blocks`, and the sets of objects, pods, processes and inputs that the MC modules
give. Deadlock is checked everywhere but in `cli` (`CHECK_DEADLOCK FALSE`), where it is normal that
nothing happens after a command has ended.

### Fairness

`FairSpec` (cache): the loop's goroutine and the informers' goroutines run (weak fairness of Start, the
tick, the loop's exit, the steps of `startInformers`, the first list, watch and delivery of each
informer). Relists, resyncs and everything the cluster or the user does have no fairness.
Strong fairness of three discovery outcomes says that not every discovery call there will ever be
fails or misses a type which is served: the code repeats them every minute and depends on just that.
`OpFairSpec`: each goroutine of the process runs until the process has exited; a signal, a failure,
and winning or losing the lease have no fairness.
`ClientFairness`: the client's own steps, and the timer of the call it waits in (`Expire`), which every
call of the client to the cluster has. Nothing is assumed of pods, or of the external tool of the
cloud plan, so `LiveCommandEnds` is about the client until it has its answer.

### Findings

Six runs end in a counterexample, each against a sentence of the repository (quoted in
`PROJECT.json`):

1. `autodiscover`: `WaitForCacheSync` waits for ever for a type the ClusterRole does not allow; the
   kustomize base of this repository allows a fixed list of groups only, composite types not among
   them. The rediscovery loop is stuck in it.
2. `lost_leadership`: the replica logs "shutting down" and lives on, without a cache loop, ready.
3. `redaction`: `ShowSensitive` stays set after a plan that asked for it; drift never sets it.
4. `false_deletes`: a composite live without its composition, proposed with it, is reported deleted.
5. `additions`: compositions never appear in a plan.
6. `leaves`: leaves of crossplane.io providers other than aws, gcp and azure are not collected.

More disagreements are contained in the models without a run of their own. The properties are stated
around them, each at its place. Of the cloud plan:

- `plan --live --cloud` writes "No changes detected." in the terminal whatever its cloud plan holds
  (render.go:77 returns without a structural diff, live.go:166 makes none), where the repository's
  README says that the cloud plan shows "real cloud impact" (README.md:481).
- It imports nothing (live.go:161 passes no base), so that what exists is planned as new; the
  README says "Imports existing resources" (README.md:480).
- With `--detailed-exitcode` changes that only a cloud plan sees end with 0 (main.go:99-102, 177); the
  README says 0 means no changes (README.md:151).
- `plan --cloud` fails when one of the refs has nothing to convert (main.go:146-153, converter.go:45-50).
  So the pull request that brings in the first resources, or takes away the last, has no plan at all, not
  even of the manifests. `ExitTellsTheDifference` says so.

Of the rest:

- A pod that fills its cache answers health checks and requests. Over a port-forward, the command's own or
  the one that the README's pipeline makes (README.md:355-364), its empty answer is printed as a plan
  without changes, or with everything as new. `ReadyPodAnswersFully` says where this can happen.
- Resources of two composites that come out with the same key overwrite each other (renderer.go:190, 247,
  diff.go:540), on the live side in the order of a map: a plan of what is applied may then show an update.
  The same goes for a composite with two compositions of its type. `OnlyAmbiguityIsReported` says that
  nothing else can show.
- Changed fields are gathered by kind and name only (server.go:192): fields of another resource with the same
  kind and name flow through the patches of a composition. `ChangesFollowPatches` says that no others do.

## Proofs

The theorems hold for all constants that satisfy the assumptions named in the modules
(`GvrAssumption`, `MaxRevAssumption`, `ObjectAssumption`, `DepthAssumption`, `NilAssumption`,
`LintAssumption`, ...: types of the two kinds are disjoint, every object has a type, a bound is a number,
a model value for "nothing" is not one of the values, the entries of a directory are files or directories and
nothing is both: `PathsAssumption`, `TreesAssumption`). Three are about data: `TreeAssumption` of `Diff` and
of `Validation` (a value is nested to a finite depth, and what is in it is less so; values and schemas
have the types there are), `SpecsAssumption` of `Diff` (a spec is a map, and `forProvider` is one in it) and
`XrdAssumption` of `Validation` (versions are numbered, and have a schema or none, resources a spec or
none). Nothing is assumed of the keys of composed resources (`CompositionAssumption` gives types only), nor
of the names and kinds of objects. TLC evaluates all of the assumptions on the instances of the runs.

| module | theorem | states |
|---|---|---|
| `StateCacheProofs` | `TypeCorrect`, `SingleInformer`, `MapFaithful` | `[]TypeOK`, `[]OneInformerPerGVR`, `[]MapFollowsInformer` |
| | `Implementation` | `Spec => MirrorOfCluster`: the cache implements `ClusterMirror` |
| `OperatorProofs` | `OpTypeCorrect`, `NoSenderBlocks` | `[]OpTypeOK`, `[]SendersNeverBlock` |
| | `ProcessDrivesCache`, `CacheGuaranteesOfProcess` | every behaviour of the process is one of the cache; so the four theorems above hold inside it |
| | `ProcessIsReplica` | `OpSpec => ReplicaPhases`: the process implements `Replica` |
| `LivePlanProofs` | `TypeCorrect`, `PlansAreScoped`, `LiveSidesAreReal`, `PlansFailInTheirScope` | `[]TypeOK`, `[]PlanIsScoped`, `[]LiveSideIsReal`, `[]PlanFailsInItsScope` |
| | `Atomicity` | `Spec => AnsweredAtOneMoment`: requests implement `AtomicPlan` |
| | `AppliedPlansShowAmbiguity` | `OnlyAmbiguityIsReported` |
| `ResourceWalkProofs` | `WalkTypeCorrect`, `RecursionIsBounded`, `AnswersAreReal`, `ChainsAreCollected` | `[]TypeOK`, `[]WalkIsBounded`, `[]NothingInvented`, `[]StableChainsAreCollected` |
| | `TracingIsSeparate` | `ComposedSpec => Spec` |
| | `PredictionsFollowPatches`, `ChangesNameTheirResource` | `[]ChangesFollowPatches`, `[]NamesItsResource` |
| `CommandProofs` | `PlansAreComplete`, `ExitCodesAreTrue`, `CloudPlansAreTrue` | `[]NothingIsWithheld`, `[]ExitTellsTheDifference`, `[]CloudPlanMatchesCloud` |
| | `ReadyPodsAnswerFully` | `[]ReadyPodAnswersFully` |
| | `InstallersDoNotCollide`, `CompleteToolsAreKept` | `[]PartialIsExplained`, `WholeToolsAreKept` |
| | `RendersWhatIsReachable` | `[]RenderedIsReachable` |
| | `ValidatorIsTheServer` | `[]ValidatorAgreesWithServer` |
| | `ScanStaysRight`, `ScansFindTheManifests`, `ScansReadDirectoriesOnce` | `[]ScanInv`, `[]FindsTheManifests`, `[]ReadsDirectoriesOnce` |
| | `CommandsStandAlone` | `CliSpec` implies the specification of each command, or that it is idle |
| | `CommandLineIsRight` | all safety properties of `cli` hold of `CliSpec` |
| `DiffProofs` | `NoDifferenceIsPassedOver` | `[]NothingPassedOver` |
| | `ChangesMakeTheTarget`, `ChangesUndoneGiveTheBase` | `[]ChangesLeadToTarget`, `[]ChangesUndoToBase` |

`MirrorProofs` holds the invariant of `ClusterMirror` that its readers share: an entry of the map is a
content the object has had. Most theorems in `CommandProofs` are about one part by itself: `PlanSpec`,
`ClientSpec`, `LintSpec`, `ValidationSpec`, `ScanSpec`, and `RenderSpec`, in which a render starts once, with
any set of composites. `CommandsStandAlone` carries them over to the program: `Cli` steps only the command
that runs and leaves the variables of the others idle (`OthersIdle`), and in `render` the composites
are handed over once, when the scan is over (`RenderFollowsScan`). `CommandLineIsRight` is the sum.

**The cache.** One inductive invariant `IInv`, six named parts:

- `TypeOK`;
- `ClusterInv`: deletions are among the revisions there were;
- `FactoryInv`: factories not yet used run nothing, what is listed is active, and what any factory runs
  is marked in `watched` - the fact that makes the `watchedGVRs` test sufficient;
- `OneInformerPerGVR`, which for a new factory follows from `FactoryInv` and `ToWatch`;
- `StreamInv`: the queue of an object is an ascending interval of revisions between what the map has
  applied (`at`) and what the informer's store knows, which is not beyond `rev`; before its type is
  listed the queue and the store are empty. It needs `OneInformerPerGVR`: with a second informer `at`
  could overtake the first one's queue;
- `MapInv`: the entry is the content of `at`, and only an object of a listed type has moved.

`OneInformerPerGVR` and `MapFollowsInformer` are not inductive alone; that is what the other parts are
for. `Implementation` uses `IInv` at each `Handle`: the head of the queue lies between `at` and `rev`,
so the step is an `Apply` of the mirror; every other step of the cache leaves the mirror alone or is a
`WriteObject`. The invariant is proved once per action of `Next`.

**The process.** `SendersNeverBlock` is not inductive. `ErrorsFromTheDone` is: the errors in `errCh` are
at most as many as the goroutines that are over, of which there are two. That each step of the
process moves `Phase` as a replica may needs the same invariant, for the types of the flags.

**Requests.** The difficulty is a request in the middle of its comparison. `ReqInv` says what each of
its sides is made of, and that what has been compared so far is the difference over the keys that are
done. With it the last step of a comparison is the answer of `AtomicPlan`, and the snapshot's action
the step in which `AtomicPlan` evaluates; all others stutter. `Real` (each content on the live side is
one the object has had) is stable because revisions only grow, and true at the snapshot by `MirrorInv`.
`OnlyAmbiguityIsReported` is about the step that takes the snapshot: when the mirror holds what is proposed,
both sides are renderings of the same set. A key that is not ambiguous is given by the same composites
whichever compositions are chosen (`SameGivers`), through the same compositions, and by at most one claim and
one other composite; so in any two orders the same one comes last (`SameLast`), and the two contents are
the same (`OnlyAmbiguityDiffers`).

**Walks.** `WalkInv` places each active call: the n-th on the stack is at the end of a path of n
objects, each of which was at some time referred to by the one before, and no call that has read its
object is deeper than the limit. So circles are bounded, and all that is collected has been there.

That nothing stable is missed needs more: `ChainInv` says of every path from the root along references
that have not changed since the walk began (`StablePath`) how far the walk has got with it. Either its
last resource is in the answer, or there is an i such that the call for its i-th object has not read it
yet or has the next object among its references left (`Awaits`). Each step hands a path on to the next
call; a path that is stable after the map moved was stable before. When the stack is empty no path can
be awaited any more. The property speaks of the composites at a distance n (a recursive function);
by induction on n each of them has such a path.

**Tracing.** `TraceOK` of the state of a trace: each change it has reported is what patches make of some
changed fields (`Reported`), of each template done with there is one if it follows from the changes
(`Covered`), and of the template at hand, what is written and what is still to be written are together just
what its patches follow (`InHand`). The property tells more: that nothing but the fields of the resource
itself and of its namesakes is behind a change. Both follow from `InHand` because what patches write grows
with what they read and comes from one path of it (`WrittenFrom`, `FollowGrows`). For the names, `NamesOK`
says that while the parent and the references that can be meant are unchanged (`Quiet`), a lookup in the
middle of the list has passed over no reference that it should have stopped at (`LooksFor`), so that the
lookup for the name and the ones for the old values end at the same one, the first (`WellNamed`).

**Commands.** `PlanInv` keeps what the comparison found until it is shown. `CloudInv` has the case with the
schema: as long as no download failed, one schema names all blocks (`SchemaInv`), so base and target agree
on addresses and no import is lost (`ImportInv`). `SidesInv` ties its sides to the refs: past a conversion
there are blocks, which come from what the ref has, so that with nothing convertible on a side no cloud plan
comes to its end. `ClientInv`: a pod that is taken to have stayed ready is ready, and an empty answer is one
of a forward. `LintInv`: of a file that nobody was cut off at, every block is in place or still ahead of a
process that writes it (`BlocksAreComing`); a writer has the whole download and had found the tool missing
(`WritersAreSound`).

`RenderInv`: a composite that has been found is reached, at hand, or put aside for the next level
(`NothingDropped`); those at hand are at the end of a chain as long as the level (`LevelInv`); every
result has an origin, and every rendered composite's resources are results (`ResultInv`). `Validation`
has no loop: `ValidationInv` says what each stage has in `problems`. The theorem's weight is in `RulesAgree`,
by induction on how deep a value is nested: when nothing that the descent comes to (`visits`) is a place
where the validator is laxer, what it accepts is admitted, and when nothing is one where it is stricter, what
the server admits, or prunes, it accepts.

**Trees.** The steps of `Diff` matter little: the specs compared are always among `Specs`. `SameHasNone` and
`NoneMeansAlike` are inductions on the depth of a value: a key that one side lacks gives a change; arrays of
maps that differ give one whatever their match key hides, by the fallback in `diffLongArrays`; so only
arrays of primitives that print the same can differ without one.

`ChangesMakeTheTarget` and `ChangesUndoneGiveTheBase` are one induction on the depth of two trees whose keys tell
elements apart (`DifferencesMakeBoth`): the differences are in `made[v][w]`, and undone in `made[w][v]`.
The changes of a map or of an array by its match key are layers, one for each field or element, each
behind a step of its own (`LayersAreBehind`), so that what is inside one step is what the comparison
of that field or element gave (`LayersAreFound`); `FieldByField` and `ElementByElement` then put together
what the induction says of each. Undoing commutes with going below a step (`UndoneBelow`), so the same
argument gives the way back. What is left is the arrays of primitives (`PrimitivesAreMade`) and the values
that are replaced as a whole (`WholeIsMade`).

**Scans.** `FindsTheManifests` says nothing before the end; `ScanInv` says it of a scan under way. For each
place in the kustomization of a directory that has been entered, a call on the stack has still to
come to it (`StillToCome`), or what is there has been handled (`ListedHandled`); the given directories that
the loop has taken up are covered (`GivenCovered`); and nothing has been read that nothing leads to
(`NothingElse`). The stack is empty at the end, so the visited directories are closed under what
kustomizations list, and hold all that is reachable. `LookedInto` says the same of the subdirectories
in the second part. `Counted` compares each count with the set of occurrences come to (`Seen`), which
are never two for one step because no two calls under way are in the same directory: the mark is set
before a directory is gone into, which is what breaks circles.

**Recursion.** A recursive function of TLA+ is a `CHOOSE`, of which nothing is known until such a function
is shown to exist. `Induction` derives what that takes from the well-foundedness of < on the naturals:
`SetInduction`, `RecursionExists` (functions on the naturals), `RankedInduction` and `RankedRecursion` (a
function whose value at x depends on its values at what has a lower rank than x). With them the
definitions of `Chain`, `admitting`, `visits`, `problemsOf`, `differences`, `alike`, `distinguished` and `made` are
unfolded, in lemmas of their own (`DifferencesUnfold`, ...). `FilesBelow` need not be: a scan is right
whatever files a walk finds, as long as it finds the same ones each time.

Only model-checked is liveness (`MapConverges`, `ServedIsWatched`, `SignalEndsProcess`,
`FatalErrorEndsProcess`, `EventuallyReady`, `LiveCommandEnds`), which needs fairness and `ENABLED`, and with
it the six violations, whose counterexamples are behaviours. Every safety property that a passing run
checks is also the statement of a theorem.

## Not modelled

- HTTP: authentication, size limits, the conversion of results to messages and back.
- Operator and CLI: flags, kubeconfig and configuration loading, the environment of the providers.
- `detectDrift`'s warnings and the validation issues of a live plan: advice attached to an answer.
- How a patch is applied and a composed resource put together: composed resources are keys with the
  contents they come from. `flattenFields`, which lists all fields of what is created or deleted.
- The commands `diff` (a `plan` without options) and `scan` (a listing); a git ref that does not exist.
- The tables of names of `pkg/hcl`, its rewriting of attributes and its output; layout in `pkg/plan`.
- What linters report; the installation of yamllint by pip.
- `pkg/notify`: one post from a goroutine of its own, without state, retry or influence on the answer.
- `internal/git` and the proto file, which no program uses; `pkg/operator/testing.go`.

Limits of what is modelled: the "full" answer of a ready pod is one of the types its first discovery
found, and no more; a namespaced composed resource is never found by the walks, and an entry of a
version that is no longer served stays in the map, which the models contain but no property is about,
because nothing in the repository says what is meant. `NothingIsWithheld` leaves the live cloud plan
out (see the findings). Some properties stop short of a hazard they are next to: `ReadsDirectoriesOnce`
speaks of scans without discovery, `RenderedIsReachable` of what is within the depth limit, `CloudPlanMatchesCloud`
of plans without a failed download or import, `NothingPassedOver` not of array elements with one match key that
are lost beside another change, and `PartialIsExplained` says where a partial tool comes from, not that it goes
away. Of the API server's validation, `oneOf` and its kin, formats and cross-field rules are in the set of values
that a schema refuses, without a structure of their own; of rendering, the path through the crossplane CLI is in
`NestedRender` only, and a live plan is modelled with the built-in renderer.
