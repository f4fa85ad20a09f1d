------------------------------ MODULE StateCache ------------------------------
(***************************************************************************)
(* pkg/operator/cache.go: the operator's in-memory copy of the Crossplane  *)
(* resources of a cluster.  startInformers asks the API server which       *)
(* resource types exist (pkg/k8s/discovery.go), starts one informer for    *)
(* each type it does not watch yet, and waits until they have all listed   *)
(* their objects; Start runs it once, rediscoveryLoop every 60 s.  Every   *)
(* informer feeds the shared map through onAdd and onDelete.               *)
(*                                                                         *)
(* The cluster and client-go's informers are external and are modelled as  *)
(* cache.go sees them: an informer lists, then watches, relists after a    *)
(* broken watch, resyncs every 30 s, and calls its handler once per event, *)
(* in order for each object, some time after its own store has changed.    *)
(***************************************************************************)
EXTENDS ClusterMirror, Sequences, FiniteSets

CONSTANTS CoreGVR,      \* types DiscoverCrossplaneResources finds by itself
          XRGVR,        \* types found only through DiscoverXRGroups
          Listable,     \* types the operator's ClusterRole lets it list
          GvrOf,        \* the type of each object
          MaxFactory,   \* bound: how many informer factories start informers
          MaxPending    \* bound: undelivered events before a relist or resync

GVR == CoreGVR \cup XRGVR
Factory == 1 .. MaxFactory

ASSUME GvrAssumption ==
  /\ CoreGVR \cap XRGVR = {}
  /\ Listable \subseteq GVR
  /\ GvrOf \in [Object -> GVR]

ASSUME BoundAssumption == MaxFactory \in Nat /\ MaxPending \in Nat

VARIABLES
  served,     \* types the API server serves
  pc,         \* where Start / rediscoveryLoop is
  started,    \* Start has returned nil: the loop runs
  found,      \* the gvrs of the running startInformers
  xrGroups,   \* the xrGroups of the running startInformers
  watched,    \* watchedGVRs
  factories,  \* informer factories that started informers
  active,     \* active[f]: the types factory f runs an informer for
  listed,     \* listed[f]: those of them whose HasSynced is true
  store,      \* store[f][o]: the revision of o in the informer's own store
  pending,    \* pending[f][o]: events of o not yet given to the handler
  stopped,    \* stopChan is closed
  ctxDone     \* the context given to Start is cancelled

clusterVars   == <<rev, gone, served>>
mapVars       == <<cache, at>>
informerVars  == <<active, listed, store, pending>>
discoveryVars == <<pc, started, found, xrGroups, watched, factories>>
signalVars    == <<stopped, ctxDone>>
vars == <<clusterVars, mapVars, informerVars, discoveryVars, signalVars>>

(* An event: a revision, and whether it is a deletion that only a relist   *)
(* revealed (cache.DeletedFinalStateUnknown).                              *)
Event == [rev : Nat, tomb : BOOLEAN]

Running == {"discover", "groups", "xrs", "register", "sync"}
PC == {"new", "idle", "failed", "stopped"} \cup Running

-----------------------------------------------------------------------------
(* Discovery and the start of informers.                                   *)

NewStateCache ==
  /\ cache = [o \in Object |-> 0]
  /\ at = [o \in Object |-> 0]
  /\ watched = {}
  /\ stopped = FALSE
  /\ pc = "new" /\ started = FALSE /\ found = {} /\ xrGroups = {}

Init ==
  /\ ClusterInit
  /\ served \in SUBSET GVR
  /\ NewStateCache
  /\ factories = 0
  /\ active = [f \in Factory |-> {}]
  /\ listed = [f \in Factory |-> {}]
  /\ store = [f \in Factory |-> [o \in Object |-> 0]]
  /\ pending = [f \in Factory |-> [o \in Object |-> << >>]]
  /\ ctxDone = FALSE

Start ==
  /\ pc = "new"
  /\ pc' = "discover" /\ found' = {} /\ xrGroups' = {}
  /\ UNCHANGED <<clusterVars, mapVars, informerVars, signalVars,
                 started, watched, factories>>

(* The ticker case of the loop's select: it may win although another case  *)
(* is ready too.                                                           *)
Tick ==
  /\ pc = "idle"
  /\ pc' = "discover" /\ found' = {} /\ xrGroups' = {}
  /\ UNCHANGED <<clusterVars, mapVars, informerVars, signalVars,
                 started, watched, factories>>

LoopExit ==
  /\ pc = "idle"
  /\ stopped \/ ctxDone
  /\ pc' = "stopped"
  /\ UNCHANGED <<clusterVars, mapVars, informerVars, signalVars,
                 started, found, xrGroups, watched, factories>>

(* Mutant: the loop returns on an error of startInformers.                 *)
ReturnErrorEndsLoop == pc' = IF started THEN "stopped" ELSE "failed"

(* startInformers returns an error: fatal for Start, logged by the loop.   *)
ReturnError == pc' = IF started THEN "idle" ELSE "failed"

(* startInformers returns nil: Start starts the loop, the loop goes on.    *)
ReturnNil == pc' = "idle" /\ started' = TRUE

(* ServerGroupsAndResources fails, or lists a part of what is served: the  *)
(* groups whose own discovery failed are missing and that is no error.     *)
DiscoverCrossplaneResources ==
  /\ pc = "discover"
  /\ \/ ReturnError /\ UNCHANGED found
     \/ \E some \in SUBSET (served \cap CoreGVR) : found' = some /\ pc' = "groups"
  /\ UNCHANGED <<clusterVars, mapVars, informerVars, signalVars,
                 started, xrGroups, watched, factories>>

(* Mutant: isXRAPIGroup without its IsCrossplaneGroup exclusion.           *)
DiscoverAnyGroups ==
  /\ pc = "groups"
  /\ \E some \in SUBSET served :
       /\ xrGroups' = some
       /\ pc' = IF some = {} THEN "register" ELSE "xrs"
  /\ UNCHANGED <<clusterVars, mapVars, informerVars, signalVars,
                 started, found, watched, factories>>

(* A second call, whose failure is only logged and finds nothing.          *)
DiscoverXRGroups ==
  /\ pc = "groups"
  /\ \E some \in SUBSET (served \cap XRGVR) :
       /\ xrGroups' = some
       /\ pc' = IF some = {} THEN "register" ELSE "xrs"
  /\ UNCHANGED <<clusterVars, mapVars, informerVars, signalVars,
                 started, found, watched, factories>>

(* The first call again, widened by the XR groups: it may find Crossplane  *)
(* types the first one missed.  Its error is dropped.                      *)
DiscoverXRs ==
  /\ pc = "xrs"
  /\ \E some \in SUBSET (served \cap (CoreGVR \cup xrGroups)) :
       found' = found \cup some
  /\ pc' = "register"
  /\ UNCHANGED <<clusterVars, mapVars, informerVars, signalVars,
                 started, xrGroups, watched, factories>>

(* Mutant: no watchedGVRs check.                                           *)
ToWatchAgain == found

(* The types of gvrs the loop over them does not skip.                     *)
ToWatch == found \ watched

(* One factory per call; each type is marked watched when its handlers are *)
(* attached, and all of the factory's informers start together.            *)
RegisterInformers ==
  /\ pc = "register"
  /\ found # {}
  /\ watched' = watched \cup ToWatch
  /\ IF ToWatch = {}
       THEN UNCHANGED <<factories, active>>
       ELSE /\ factories < MaxFactory
            /\ factories' = factories + 1
            /\ active' = [active EXCEPT ![factories + 1] = ToWatch]
  /\ pc' = "sync"
  /\ UNCHANGED <<clusterVars, mapVars, signalVars, listed, store, pending,
                 started, found, xrGroups>>

NothingDiscovered ==
  /\ pc = "register"
  /\ found = {}
  /\ ReturnNil
  /\ UNCHANGED <<clusterVars, mapVars, informerVars, signalVars,
                 found, xrGroups, watched, factories>>

(* WaitForCacheSync returns when every informer of the factory has listed, *)
(* or when stopChan is closed; it does not look at the context.            *)
WaitForCacheSync ==
  /\ pc = "sync"
  /\ stopped \/ \A f \in Factory : active[f] \subseteq listed[f]
  /\ ReturnNil
  /\ UNCHANGED <<clusterVars, mapVars, informerVars, signalVars,
                 found, xrGroups, watched, factories>>

-----------------------------------------------------------------------------
(* An informer: reflector, store and the queue in front of its handler.    *)

CanReach(f, g) == g \in active[f] /\ g \in served /\ g \in Listable /\ ~stopped

HasRoom(f, g) ==
  \A o \in Object : GvrOf[o] = g => Len(pending[f][o]) < MaxPending

(* What a full list adds to the queue of o: what exists is (re)announced,  *)
(* what the store still has but the list has not is a tombstone, and of    *)
(* what neither has nothing is said.                                       *)
Announced(f, o) ==
  IF Alive(o, rev[o]) \/ Alive(o, store[f][o])
    THEN Append(pending[f][o], [rev |-> rev[o], tomb |-> ~Alive(o, rev[o])])
    ELSE pending[f][o]

List(f, g) ==
  /\ CanReach(f, g) /\ HasRoom(f, g)
  /\ listed' = [listed EXCEPT ![f] = @ \cup {g}]
  /\ store' = [store EXCEPT ![f] =
       [o \in Object |-> IF GvrOf[o] = g THEN rev[o] ELSE @[o]]]
  /\ pending' = [pending EXCEPT ![f] =
       [o \in Object |-> IF GvrOf[o] = g THEN Announced(f, o) ELSE @[o]]]
  /\ UNCHANGED <<clusterVars, mapVars, discoveryVars, signalVars, active>>

Watch(f, o) ==
  /\ CanReach(f, GvrOf[o]) /\ GvrOf[o] \in listed[f]
  /\ store[f][o] < rev[o]
  /\ store' = [store EXCEPT ![f][o] = @ + 1]
  /\ pending' = [pending EXCEPT ![f][o] =
       Append(@, [rev |-> store[f][o] + 1, tomb |-> FALSE])]
  /\ UNCHANGED <<clusterVars, mapVars, discoveryVars, signalVars, active, listed>>

(* Every 30 s the informer announces again what its store holds.           *)
Resync(f, g) ==
  /\ g \in listed[f] /\ ~stopped /\ HasRoom(f, g)
  /\ pending' = [pending EXCEPT ![f] =
       [o \in Object |->
          IF GvrOf[o] = g /\ Alive(o, store[f][o])
            THEN Append(@[o], [rev |-> store[f][o], tomb |-> FALSE])
            ELSE @[o]]]
  /\ UNCHANGED <<clusterVars, mapVars, discoveryVars, signalVars,
                 active, listed, store>>

-----------------------------------------------------------------------------
(* The handlers: the only writers of the map, each under the lock.         *)

OnAdd(o, e) == cache' = [cache EXCEPT ![o] = e.rev]

(* Mutant: onDelete returns when the event is not an object.               *)
OnDeleteWithoutTombstone(o, e) ==
  cache' = IF e.tomb THEN cache ELSE [cache EXCEPT ![o] = 0]

(* The object is deleted from the map, also when only a tombstone came.    *)
OnDelete(o, e) == cache' = [cache EXCEPT ![o] = 0]

Handle(f, o) ==
  /\ pending[f][o] # << >>
  /\ LET e == Head(pending[f][o]) IN
       /\ IF Alive(o, e.rev) THEN OnAdd(o, e) ELSE OnDelete(o, e)
       /\ at' = [at EXCEPT ![o] = e.rev]
  /\ pending' = [pending EXCEPT ![f][o] = Tail(@)]
  /\ UNCHANGED <<clusterVars, discoveryVars, signalVars, active, listed, store>>

-----------------------------------------------------------------------------
(* main cancels the context and then calls Stop.                           *)

Cancel ==
  /\ ~ctxDone /\ ctxDone' = TRUE
  /\ UNCHANGED <<clusterVars, mapVars, informerVars, discoveryVars, stopped>>

Stop ==
  /\ ctxDone /\ ~stopped /\ stopped' = TRUE
  /\ UNCHANGED <<clusterVars, mapVars, informerVars, discoveryVars, ctxDone>>

(* The cluster: objects change through a served type; a type comes and     *)
(* goes with its CRD, or with the CRD's list of served versions.           *)
ChangeObject(o) ==
  /\ GvrOf[o] \in served
  /\ WriteObject(o)
  /\ UNCHANGED <<served, mapVars, informerVars, discoveryVars, signalVars>>

Install(g) ==
  /\ g \notin served /\ served' = served \cup {g}
  /\ UNCHANGED <<rev, gone, mapVars, informerVars, discoveryVars, signalVars>>

Uninstall(g) ==
  /\ g \in served /\ served' = served \ {g}
  /\ UNCHANGED <<rev, gone, mapVars, informerVars, discoveryVars, signalVars>>

-----------------------------------------------------------------------------
StartInformers ==
  \/ DiscoverCrossplaneResources \/ DiscoverXRGroups \/ DiscoverXRs
  \/ RegisterInformers \/ NothingDiscovered \/ WaitForCacheSync

Informers ==
  \E f \in Factory : \/ \E g \in GVR : List(f, g) \/ Resync(f, g)
                     \/ \E o \in Object : Watch(f, o) \/ Handle(f, o)

Cluster ==
  \/ \E o \in Object : ChangeObject(o)
  \/ \E g \in GVR : Install(g) \/ Uninstall(g)

Next == Start \/ Tick \/ LoopExit \/ StartInformers \/ Informers \/ Cluster
        \/ Cancel \/ Stop

Spec == Init /\ [][Next]_vars

(* The goroutines run; client-go retries a list or watch that failed; not  *)
(* every discovery call there will ever be fails, or misses a served type. *)
Fairness ==
  /\ WF_vars(Start) /\ WF_vars(Tick) /\ WF_vars(LoopExit) /\ WF_vars(StartInformers)
  /\ \A f \in Factory : /\ \A g \in GVR : WF_vars(List(f, g) /\ g \notin listed[f])
                        /\ \A o \in Object : WF_vars(Watch(f, o)) /\ WF_vars(Handle(f, o))
  /\ SF_vars(DiscoverCrossplaneResources /\ pc' = "groups")
  /\ \A g \in CoreGVR : SF_vars(DiscoverCrossplaneResources /\ g \in found')
  /\ \A g \in XRGVR : /\ SF_vars(DiscoverXRGroups /\ g \in xrGroups')
                      /\ SF_vars(DiscoverXRs /\ g \in found')

FairSpec == Spec /\ Fairness
-----------------------------------------------------------------------------
(* Properties.                                                             *)

TypeOK ==
  /\ rev \in [Object -> 0 .. MaxRev]
  /\ gone \in [Object -> SUBSET (1 .. MaxRev)]
  /\ served \in SUBSET GVR
  /\ cache \in [Object -> 0 .. MaxRev]
  /\ at \in [Object -> 0 .. MaxRev]
  /\ pc \in PC
  /\ started \in BOOLEAN
  /\ found \in SUBSET GVR
  /\ xrGroups \in SUBSET XRGVR
  /\ watched \in SUBSET GVR
  /\ factories \in 0 .. MaxFactory
  /\ active \in [Factory -> SUBSET GVR]
  /\ listed \in [Factory -> SUBSET GVR]
  /\ store \in [Factory -> [Object -> 0 .. MaxRev]]
  /\ pending \in [Factory -> [Object -> Seq(Event)]]
  /\ stopped \in BOOLEAN
  /\ ctxDone \in BOOLEAN

(* A type never gets two informers, whatever the discovery calls answered  *)
(* and however often they ran (the watchedGVRs guard of startInformers):   *)
(* two would feed the same map keys in no agreed order.                    *)
OneInformerPerGVR ==
  \A f1, f2 \in Factory : f1 # f2 => active[f1] \cap active[f2] = {}

(* The last thing the handler of o was, or will be, told by factory f.     *)
LastTold(f, o) ==
  IF pending[f][o] = << >> THEN at[o] ELSE pending[f][o][Len(pending[f][o])].rev

(* No event is lost or overtaken: once the events an informer has already  *)
(* queued are handled, the map entry of an object says what the informer's *)
(* own store says, whether it learnt it by list, watch, relist, tombstone  *)
(* or resync; and what the map says now is what the last handled event was *)
(* about.                                                                  *)
MapFollowsInformer ==
  /\ \A f \in Factory, o \in Object :
       GvrOf[o] \in listed[f] => Content(o, LastTold(f, o)) = Content(o, store[f][o])
  /\ \A o \in Object : cache[o] = Content(o, at[o])

(* GetResourceSet serves, for each object, a revision the cluster really   *)
(* had, never one older than a revision it has already acted on, and a     *)
(* deleted object does not come back until it is created again.            *)
MirrorOfCluster == MirrorSpec

(* When a type stays served and its informer runs, the map ends up equal   *)
(* to the cluster for each object of the type (onAdd and onDelete; doc of  *)
(* StateCache: "watches them for changes").                                *)
MapConverges ==
  \A o \in Object :
    <>[](GvrOf[o] \in served \cap watched \cap Listable /\ ~stopped)
      => <>[](cache[o] = Content(o, rev[o]))

(* A type that stays served is watched in the end, whatever the discovery  *)
(* calls missed before, provided the operator goes on running and every    *)
(* type that has an informer can be listed: WaitForCacheSync is the only   *)
(* thing that can hold rediscovery up.                                     *)
ServedIsWatched ==
  \A g \in GVR :
    /\ <>[](g \in served /\ watched \subseteq served \cap Listable)
    /\ [](~ctxDone /\ pc # "failed")
    => <>(g \in watched)

(* The doc of StateCache without the proviso: "It auto-discovers           *)
(* Crossplane CRDs and watches them for changes" (cache.go:27).            *)
AutoDiscovers ==
  \A g \in GVR :
    /\ <>[](g \in served /\ g \in Listable)
    /\ [](~ctxDone /\ pc # "failed")
    => <>(g \in watched)
=============================================================================
