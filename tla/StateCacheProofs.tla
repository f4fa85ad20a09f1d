--------------------------- MODULE StateCacheProofs ---------------------------
(***************************************************************************)
(* Theorems about StateCache, for every set of types and objects and every *)
(* bound.  The inductive invariant says of each informer that the events   *)
(* in front of its handler are an ordered interval of revisions between    *)
(* what the map has applied and what the informer's store knows.           *)
(***************************************************************************)
EXTENDS StateCache, TLAPS

(* A queue of events whose revisions ascend and lie between lo and hi.     *)
Ascending(q, lo, hi) ==
  /\ \A i \in 1 .. Len(q) : lo <= q[i].rev /\ q[i].rev <= hi
  /\ \A i, j \in 1 .. Len(q) : i <= j => q[i].rev <= q[j].rev

ClusterInv == \A o \in Object : gone[o] \subseteq 1 .. rev[o]

FactoryInv ==
  /\ \A f \in Factory : listed[f] \subseteq active[f] /\ active[f] \subseteq watched
  /\ \A f \in Factory : f > factories => active[f] = {}

StreamInv(f, o) ==
  IF GvrOf[o] \in listed[f]
    THEN /\ at[o] <= store[f][o] /\ store[f][o] <= rev[o]
         /\ Ascending(pending[f][o], at[o], store[f][o])
         /\ Content(o, LastTold(f, o)) = Content(o, store[f][o])
    ELSE store[f][o] = 0 /\ pending[f][o] = << >>

MapInv ==
  \A o \in Object :
    /\ at[o] <= rev[o]
    /\ cache[o] = Content(o, at[o])
    /\ at[o] # 0 => \E f \in Factory : GvrOf[o] \in listed[f]

IInv ==
  /\ TypeOK
  /\ ClusterInv
  /\ FactoryInv
  /\ OneInformerPerGVR
  /\ \A f \in Factory, o \in Object : StreamInv(f, o)
  /\ MapInv

-----------------------------------------------------------------------------
(* Queues.                                                                 *)

(* A queue stays ascending when an event not older than its bound joins.   *)
LEMMA AscendingAppend ==
  ASSUME NEW q \in Seq(Event), NEW e \in Event,
         NEW lo \in Nat, NEW hi \in Nat, NEW top \in Nat,
         Ascending(q, lo, hi), lo <= hi, hi <= e.rev, e.rev <= top
  PROVE  Ascending(Append(q, e), lo, top)
<1> DEFINE r == Append(q, e)
<1>1. /\ Len(r) = Len(q) + 1 /\ Len(q) \in Nat
      /\ \A i \in 1 .. Len(q) : r[i] = q[i]
      /\ r[Len(q) + 1] = e
  OBVIOUS
<1>2. \A i \in 1 .. Len(q) : q[i].rev \in Nat
  <2>1. \A i \in 1 .. Len(q) : q[i] \in Event
    OBVIOUS
  <2>2. QED
    BY <2>1 DEF Event
<1>3. e.rev \in Nat
  BY DEF Event
<1>4. \A i \in 1 .. Len(r) : i \in 1 .. Len(q) \/ i = Len(q) + 1
  BY <1>1
<1>5. \A i \in 1 .. Len(r) : lo <= r[i].rev /\ r[i].rev <= top
  BY <1>1, <1>2, <1>3, <1>4 DEF Ascending
<1>6. \A i, j \in 1 .. Len(r) : i <= j => r[i].rev <= r[j].rev
  BY <1>1, <1>2, <1>3, <1>4 DEF Ascending
<1>7. QED
  BY <1>5, <1>6 DEF Ascending

(* Taking the head of a queue raises the lower bound to its revision.      *)
LEMMA AscendingTail ==
  ASSUME NEW q \in Seq(Event), q # << >>,
         NEW lo \in Nat, NEW hi \in Nat, Ascending(q, lo, hi)
  PROVE  /\ Head(q) \in Event /\ Tail(q) \in Seq(Event)
         /\ lo <= Head(q).rev /\ Head(q).rev <= hi
         /\ Ascending(Tail(q), Head(q).rev, hi)
<1>1. /\ Len(q) \in Nat \ {0} /\ Head(q) = q[1] /\ Len(Tail(q)) = Len(q) - 1
      /\ Tail(q) \in Seq(Event)
      /\ \A i \in 1 .. Len(Tail(q)) : Tail(q)[i] = q[i + 1]
  OBVIOUS
<1>2. \A i \in 1 .. Len(q) : q[i] \in Event /\ q[i].rev \in Nat
  <2>1. \A i \in 1 .. Len(q) : q[i] \in Event
    OBVIOUS
  <2>2. QED
    BY <2>1 DEF Event
<1>3. QED
  BY <1>1, <1>2 DEF Ascending

-----------------------------------------------------------------------------
(* The initial state.                                                      *)

LEMMA InitInv == Init => IInv
<1> SUFFICES ASSUME Init PROVE IInv
  OBVIOUS
<1> USE DEF Init, ClusterInit, NewStateCache
<1>1. TypeOK
  <2>1. << >> \in Seq(Event)
    OBVIOUS
  <2>2. pending \in [Factory -> [Object -> Seq(Event)]]
    BY <2>1
  <2>3. store \in [Factory -> [Object -> 0 .. MaxRev]]
    BY MaxRevAssumption
  <2>4. factories \in 0 .. MaxFactory
    BY BoundAssumption
  <2>5. active \in [Factory -> SUBSET GVR] /\ listed \in [Factory -> SUBSET GVR]
    OBVIOUS
  <2>6. rev \in [Object -> 0 .. MaxRev] /\ cache \in [Object -> 0 .. MaxRev] /\ at \in [Object -> 0 .. MaxRev]
    BY MaxRevAssumption
  <2>7. gone \in [Object -> SUBSET (1 .. MaxRev)]
    OBVIOUS
  <2>8. pc \in PC /\ started \in BOOLEAN /\ stopped \in BOOLEAN /\ ctxDone \in BOOLEAN
    BY DEF PC
  <2>9. found \in SUBSET GVR /\ xrGroups \in SUBSET XRGVR /\ watched \in SUBSET GVR /\ served \in SUBSET GVR
    OBVIOUS
  <2>10. QED
    BY <2>2, <2>3, <2>4, <2>5, <2>6, <2>7, <2>8, <2>9 DEF TypeOK
<1>2. ClusterInv /\ FactoryInv /\ OneInformerPerGVR
  BY DEF ClusterInv, FactoryInv, OneInformerPerGVR
<1>3. \A f \in Factory, o \in Object : StreamInv(f, o)
  BY DEF StreamInv
<1>4. MapInv
  <2>1. ASSUME NEW o \in Object PROVE at[o] = 0 /\ cache[o] = 0 /\ rev[o] = 0
    OBVIOUS
  <2>2. ASSUME NEW o \in Object PROVE Content(o, 0) = 0
    BY DEF Content
  <2>3. ASSUME NEW o \in Object
        PROVE  at[o] <= rev[o] /\ cache[o] = Content(o, at[o]) /\ ~(at[o] # 0)
    <3>1. at[o] = 0 /\ cache[o] = 0 /\ rev[o] = 0 /\ Content(o, 0) = 0
      BY <2>1, <2>2
    <3>2. QED
      BY ONLY <3>1
  <2>4. QED
    BY <2>3 DEF MapInv
<1>5. QED
  BY <1>1, <1>2, <1>3, <1>4 DEF IInv

-----------------------------------------------------------------------------
(* The steps that touch neither the map nor an informer.                   *)

quietVars == <<rev, gone, mapVars, informerVars, watched, factories>>

LEMMA QuietStep ==
  ASSUME IInv, TypeOK', UNCHANGED quietVars
  PROVE  IInv'
<1> USE DEF quietVars, mapVars, informerVars
<1>1. ClusterInv' /\ FactoryInv' /\ OneInformerPerGVR'
  BY DEF IInv, ClusterInv, FactoryInv, OneInformerPerGVR
<1>2. ASSUME NEW f \in Factory, NEW o \in Object PROVE StreamInv(f, o)'
  <2>1. StreamInv(f, o)
    BY DEF IInv
  <2>2. QED
    BY <2>1 DEF StreamInv, Ascending, LastTold, Content, Alive
<1>3. MapInv'
  BY DEF IInv, MapInv, Content, Alive
<1>4. QED
  BY <1>1, <1>2, <1>3 DEF IInv

LEMMA ControlStep ==
  ASSUME IInv,
         \/ Start \/ Tick \/ LoopExit
         \/ DiscoverCrossplaneResources \/ DiscoverXRGroups \/ DiscoverXRs
         \/ NothingDiscovered \/ WaitForCacheSync \/ Cancel \/ Stop
         \/ \E g \in GVR : Install(g) \/ Uninstall(g)
  PROVE  TypeOK' /\ UNCHANGED quietVars
<1> USE DEF clusterVars, mapVars, informerVars, discoveryVars, signalVars, quietVars
<1>0. TypeOK
  BY DEF IInv
<1>1. CASE Start \/ Tick \/ LoopExit \/ Cancel \/ Stop
  BY <1>0, <1>1 DEF TypeOK, PC, Running, Start, Tick, LoopExit, Cancel, Stop
<1>2. CASE DiscoverCrossplaneResources \/ NothingDiscovered \/ WaitForCacheSync
  BY <1>0, <1>2 DEF TypeOK, PC, Running, GVR, DiscoverCrossplaneResources,
     NothingDiscovered, WaitForCacheSync, ReturnError, ReturnNil
<1>3. CASE DiscoverXRGroups \/ DiscoverXRs
  BY <1>0, <1>3 DEF TypeOK, PC, Running, GVR, DiscoverXRGroups, DiscoverXRs
<1>4. CASE \E g \in GVR : Install(g) \/ Uninstall(g)
  BY <1>0, <1>4 DEF TypeOK, Install, Uninstall
<1>5. QED
  BY <1>1, <1>2, <1>3, <1>4

-----------------------------------------------------------------------------
(* A new factory gets the types nobody watches, and none of its informers  *)
(* has said anything yet.                                                  *)

LEMMA RegisterStep ==
  ASSUME IInv, RegisterInformers
  PROVE  IInv'
<1> USE DEF clusterVars, mapVars, signalVars
<1> DEFINE F == factories + 1
<1>0. /\ TypeOK /\ FactoryInv /\ OneInformerPerGVR /\ ClusterInv /\ MapInv
      /\ UNCHANGED <<rev, gone, served, cache, at, stopped, ctxDone, listed,
                     store, pending, started, found, xrGroups>>
      /\ pc' = "sync" /\ watched' = watched \cup ToWatch
  BY DEF IInv, RegisterInformers
<1>1. \/ ToWatch = {} /\ UNCHANGED <<factories, active>>
      \/ /\ F \in Factory /\ factories' = F /\ active[F] = {}
         /\ active' = [active EXCEPT ![F] = ToWatch]
  BY <1>0, BoundAssumption DEF RegisterInformers, FactoryInv, TypeOK, Factory
<1>2. ToWatch \subseteq GVR /\ ToWatch \cap watched = {}
  BY <1>0 DEF TypeOK, ToWatch
<1>3. TypeOK'
  <2>1. pc' \in PC /\ watched' \in SUBSET GVR
    BY <1>0, <1>2 DEF TypeOK, PC, Running
  <2>2. factories' \in 0 .. MaxFactory
    BY <1>0, <1>1, BoundAssumption DEF TypeOK, Factory
  <2>3. active' \in [Factory -> SUBSET GVR]
    BY <1>0, <1>1, <1>2 DEF TypeOK
  <2>4. QED
    BY <1>0, <2>1, <2>2, <2>3 DEF TypeOK
<1>4. FactoryInv'
  <2>1. ASSUME NEW f \in Factory
        PROVE  listed'[f] \subseteq active'[f] /\ active'[f] \subseteq watched'
    BY <1>0, <1>1 DEF FactoryInv, TypeOK
  <2>2. ASSUME NEW f \in Factory, f > factories' PROVE active'[f] = {}
    <3>1. f \in Nat /\ factories \in Nat
      BY <1>0, BoundAssumption DEF TypeOK, Factory
    <3>2. f > factories /\ (active' = active \/ f # F)
      BY <1>1, <2>2, <3>1
    <3>3. active[f] = {}
      BY <1>0, <3>2 DEF FactoryInv
    <3>4. QED
      BY <1>0, <1>1, <3>2, <3>3 DEF TypeOK
  <2>3. QED
    BY <2>1, <2>2 DEF FactoryInv
<1>5. OneInformerPerGVR'
  <2>1. ASSUME NEW f1 \in Factory, NEW f2 \in Factory, f1 # f2
        PROVE  active'[f1] \cap active'[f2] = {}
    <3>1. active[f1] \cap active[f2] = {}
      BY <1>0, <2>1 DEF OneInformerPerGVR
    <3>2. active[f1] \cap ToWatch = {} /\ active[f2] \cap ToWatch = {}
      BY <1>0, <1>2 DEF FactoryInv
    <3>3. \/ active'[f1] = active[f1] /\ active'[f2] = active[f2]
          \/ active'[f1] = ToWatch /\ active'[f2] = active[f2]
          \/ active'[f1] = active[f1] /\ active'[f2] = ToWatch
      BY <1>0, <1>1, <2>1 DEF TypeOK
    <3>4. QED
      BY <3>1, <3>2, <3>3
  <2>2. QED
    BY <2>1 DEF OneInformerPerGVR
<1>6. ClusterInv' /\ MapInv'
  BY <1>0 DEF ClusterInv, MapInv, Content, Alive
<1>7. ASSUME NEW f \in Factory, NEW o \in Object PROVE StreamInv(f, o)'
  <2>1. StreamInv(f, o)
    BY DEF IInv
  <2>2. QED
    BY <1>0, <2>1 DEF StreamInv, Ascending, LastTold, Content, Alive
<1>8. QED
  BY <1>3, <1>4, <1>5, <1>6, <1>7 DEF IInv

-----------------------------------------------------------------------------
(* Facts about an informer that the steps below share.                     *)

(* Only one informer speaks for an object, and before it has listed the    *)
(* map knows nothing of the object.                                        *)
LEMMA OneVoice ==
  ASSUME IInv, NEW f \in Factory, NEW o \in Object, GvrOf[o] \in active[f]
  PROVE  /\ \A f2 \in Factory : f2 # f => GvrOf[o] \notin listed[f2]
         /\ GvrOf[o] \notin listed[f] => at[o] = 0
<1>1. \A f2 \in Factory : f2 # f => GvrOf[o] \notin listed[f2]
  BY DEF IInv, FactoryInv, OneInformerPerGVR
<1>2. GvrOf[o] \notin listed[f] => at[o] = 0
  BY <1>1 DEF IInv, MapInv
<1>3. QED
  BY <1>1, <1>2

(* The numbers of an object and its queue have their types.                *)
LEMMA StreamTypes ==
  ASSUME TypeOK, NEW f \in Factory, NEW o \in Object
  PROVE  /\ rev[o] \in 0 .. MaxRev /\ rev[o] \in Nat
         /\ at[o] \in 0 .. MaxRev /\ at[o] \in Nat
         /\ store[f][o] \in 0 .. MaxRev /\ store[f][o] \in Nat
         /\ pending[f][o] \in Seq(Event)
         /\ GvrOf[o] \in GVR
BY MaxRevAssumption, GvrAssumption DEF TypeOK

-----------------------------------------------------------------------------
(* A watch event.                                                          *)

LEMMA WatchStep ==
  ASSUME IInv, NEW f \in Factory, NEW o \in Object, Watch(f, o)
  PROVE  IInv'
<1> USE DEF clusterVars, mapVars, discoveryVars, signalVars
<1> DEFINE k == store[f][o] + 1
           e == [rev |-> k, tomb |-> FALSE]
<1>0. /\ TypeOK /\ FactoryInv /\ OneInformerPerGVR /\ ClusterInv /\ MapInv
      /\ UNCHANGED <<rev, gone, served, cache, at, stopped, ctxDone, pc, started,
                     found, xrGroups, watched, factories, active, listed>>
      /\ GvrOf[o] \in listed[f] /\ store[f][o] < rev[o]
      /\ store' = [store EXCEPT ![f][o] = k]
      /\ pending' = [pending EXCEPT ![f][o] = Append(@, e)]
  BY DEF IInv, Watch
<1>1. /\ rev[o] \in 0 .. MaxRev /\ at[o] \in Nat /\ store[f][o] \in Nat
      /\ pending[f][o] \in Seq(Event)
  BY <1>0, StreamTypes
<1>2. k \in 0 .. MaxRev /\ k \in Nat /\ e \in Event
  BY <1>0, <1>1, MaxRevAssumption DEF Event
<1>3. Append(pending[f][o], e) \in Seq(Event)
  BY <1>1, <1>2
<1>4. TypeOK'
  <2>1. store' \in [Factory -> [Object -> 0 .. MaxRev]]
    BY <1>0, <1>2 DEF TypeOK
  <2>2. pending' \in [Factory -> [Object -> Seq(Event)]]
    BY <1>0, <1>3 DEF TypeOK
  <2>3. QED
    BY <1>0, <2>1, <2>2 DEF TypeOK
<1>5. ASSUME NEW f2 \in Factory, NEW o2 \in Object PROVE StreamInv(f2, o2)'
  <2>1. StreamInv(f2, o2)
    BY DEF IInv
  <2>2. CASE f2 # f \/ o2 # o
    <3>1. store'[f2][o2] = store[f2][o2] /\ pending'[f2][o2] = pending[f2][o2]
      BY <1>0, <2>2 DEF TypeOK
    <3>2. QED
      BY <1>0, <2>1, <3>1 DEF StreamInv, Ascending, LastTold, Content, Alive
  <2>3. CASE f2 = f /\ o2 = o
    <3>1. store'[f][o] = k /\ pending'[f][o] = Append(pending[f][o], e)
      BY <1>0 DEF TypeOK
    <3>2. at[o] <= store[f][o] /\ Ascending(pending[f][o], at[o], store[f][o])
      BY <1>0, <2>1, <2>3 DEF StreamInv
    <3>3. Ascending(Append(pending[f][o], e), at[o], k)
      BY <1>1, <1>2, <3>2, AscendingAppend
    <3>4. /\ Append(pending[f][o], e) # << >>
          /\ Append(pending[f][o], e)[Len(Append(pending[f][o], e))] = e
      BY <1>1, <1>2
    <3>5. LastTold(f, o)' = k
      BY <3>1, <3>4 DEF LastTold
    <3>6. at[o] <= k /\ k <= rev[o]
      BY <1>0, <1>1, <3>2
    <3>7. QED
      BY <1>0, <2>3, <3>1, <3>3, <3>5, <3>6 DEF StreamInv, Ascending
  <2>4. QED
    BY <2>2, <2>3
<1>6. ClusterInv' /\ FactoryInv' /\ OneInformerPerGVR' /\ MapInv'
  BY <1>0 DEF ClusterInv, FactoryInv, OneInformerPerGVR, MapInv, Content, Alive
<1>7. QED
  BY <1>4, <1>5, <1>6 DEF IInv

-----------------------------------------------------------------------------
(* A list: the store jumps to the cluster's state, and what changed (or    *)
(* exists) is announced behind what is already queued.                     *)

LEMMA ListStep ==
  ASSUME IInv, NEW f \in Factory, NEW g \in GVR, List(f, g)
  PROVE  IInv'
<1> USE DEF clusterVars, mapVars, discoveryVars, signalVars
<1>0. /\ TypeOK /\ FactoryInv /\ OneInformerPerGVR /\ ClusterInv /\ MapInv
      /\ UNCHANGED <<rev, gone, served, cache, at, stopped, ctxDone, pc, started,
                     found, xrGroups, watched, factories, active>>
      /\ g \in active[f]
      /\ listed' = [listed EXCEPT ![f] = @ \cup {g}]
  BY DEF IInv, List, CanReach
<1>1. ASSUME NEW f2 \in Factory, NEW o \in Object
      PROVE  /\ store'[f2][o] = IF f2 = f /\ GvrOf[o] = g THEN rev[o] ELSE store[f2][o]
             /\ pending'[f2][o] = IF f2 = f /\ GvrOf[o] = g THEN Announced(f, o)
                                  ELSE pending[f2][o]
  BY <1>0 DEF List, TypeOK
<1>2. ASSUME NEW o \in Object
      PROVE  Announced(f, o) \in Seq(Event)
  <2>1. [rev |-> rev[o], tomb |-> ~Alive(o, rev[o])] \in Event
    BY <1>0, StreamTypes DEF Event
  <2>2. QED
    BY <1>0, <2>1, StreamTypes DEF Announced
<1>3. TypeOK'
  <2>1. store' \in [Factory -> [Object -> 0 .. MaxRev]]
    BY <1>0 DEF TypeOK, List
  <2>2. pending' \in [Factory -> [Object -> Seq(Event)]]
    BY <1>0, <1>2 DEF TypeOK, List
  <2>3. listed' \in [Factory -> SUBSET GVR]
    BY <1>0 DEF TypeOK
  <2>4. QED
    BY <1>0, <2>1, <2>2, <2>3 DEF TypeOK
<1>4. FactoryInv' /\ OneInformerPerGVR'
  BY <1>0 DEF FactoryInv, OneInformerPerGVR, TypeOK
<1>5. ClusterInv' /\ MapInv'
  <2>1. \A f2 \in Factory : listed[f2] \subseteq listed'[f2]
    BY <1>0 DEF TypeOK
  <2>2. QED
    BY <1>0, <2>1 DEF ClusterInv, MapInv, Content, Alive
<1>6. ASSUME NEW f2 \in Factory, NEW o \in Object PROVE StreamInv(f2, o)'
  <2>1. StreamInv(f2, o)
    BY DEF IInv
  <2>2. CASE f2 # f \/ GvrOf[o] # g
    <3>1. GvrOf[o] \in listed'[f2] <=> GvrOf[o] \in listed[f2]
      BY <1>0, <2>2 DEF TypeOK
    <3>2. store'[f2][o] = store[f2][o] /\ pending'[f2][o] = pending[f2][o]
      BY <1>1, <2>2
    <3>3. QED
      BY <1>0, <2>1, <3>1, <3>2 DEF StreamInv, Ascending, LastTold, Content, Alive
  <2>3. CASE f2 = f /\ GvrOf[o] = g
    <3> DEFINE e == [rev |-> rev[o], tomb |-> ~Alive(o, rev[o])]
    <3>1. /\ rev[o] \in Nat /\ at[o] \in Nat /\ store[f][o] \in Nat
          /\ pending[f][o] \in Seq(Event) /\ e \in Event /\ e.rev = rev[o]
      BY <1>0, StreamTypes DEF Event
    <3>2. /\ store'[f][o] = rev[o] /\ pending'[f][o] = Announced(f, o)
          /\ GvrOf[o] \in listed'[f]
      BY <1>0, <1>1, <2>3 DEF TypeOK
    <3>3. /\ at[o] <= store[f][o] /\ store[f][o] <= rev[o]
          /\ Ascending(pending[f][o], at[o], store[f][o])
          /\ Content(o, LastTold(f, o)) = Content(o, store[f][o])
      <4>1. CASE GvrOf[o] \in listed[f]
        BY <2>1, <2>3, <4>1 DEF StreamInv
      <4>2. CASE GvrOf[o] \notin listed[f]
        <5>1. store[f][o] = 0 /\ pending[f][o] = << >>
          BY <2>1, <2>3, <4>2 DEF StreamInv
        <5>2. at[o] = 0
          BY <1>0, <2>3, <4>2, OneVoice
        <5>3. QED
          BY <3>1, <5>1, <5>2 DEF Ascending, LastTold
      <4>3. QED
        BY <4>1, <4>2
    <3>4. CASE Alive(o, rev[o]) \/ Alive(o, store[f][o])
      <4>1. Announced(f, o) = Append(pending[f][o], e)
        BY <3>4 DEF Announced
      <4>2. Ascending(Append(pending[f][o], e), at[o], rev[o])
        BY <3>1, <3>3, AscendingAppend
      <4>3. /\ Append(pending[f][o], e) # << >>
            /\ Append(pending[f][o], e)[Len(Append(pending[f][o], e))] = e
        BY <3>1
      <4>4. LastTold(f, o)' = rev[o]
        BY <3>1, <3>2, <4>1, <4>3 DEF LastTold
      <4>5. at[o] <= rev[o]
        BY <3>1, <3>3
      <4>6. QED
        BY <1>0, <2>3, <3>1, <3>2, <4>1, <4>2, <4>4, <4>5 DEF StreamInv, Ascending
    <3>5. CASE ~(Alive(o, rev[o]) \/ Alive(o, store[f][o]))
      <4>1. pending'[f][o] = pending[f][o]
        BY <3>2, <3>5 DEF Announced
      <4>2. LastTold(f, o)' = LastTold(f, o)
        BY <1>0, <4>1 DEF LastTold
      <4>3. Content(o, LastTold(f, o)) = Content(o, rev[o])
        BY <3>3, <3>5 DEF Content
      <4>4. \A k : Content(o, k)' = Content(o, k)
        BY <1>0 DEF Content, Alive
      <4>5. at[o] <= rev[o] /\ Ascending(pending[f][o], at[o], rev[o])
        <5>1. \A i \in 1 .. Len(pending[f][o]) : pending[f][o][i].rev \in Nat
          <6>1. \A i \in 1 .. Len(pending[f][o]) : pending[f][o][i] \in Event
            BY <3>1
          <6>2. QED
            BY <6>1 DEF Event
        <5>2. QED
          BY <3>1, <3>3, <5>1 DEF Ascending
      <4>6. Content(o, LastTold(f, o))' = Content(o, store[f][o])'
        BY <3>2, <4>2, <4>3, <4>4, <1>0 DEF Content, Alive
      <4>7. /\ at'[o] <= store'[f][o] /\ store'[f][o] <= rev'[o]
            /\ Ascending(pending'[f][o], at'[o], store'[f][o])
        BY <1>0, <3>1, <3>2, <4>1, <4>5 DEF Ascending
      <4>8. StreamInv(f, o)'
        BY <3>2, <4>6, <4>7, <1>0 DEF StreamInv
      <4>9. QED
        BY <2>3, <4>8
    <3>6. QED
      BY <3>4, <3>5
  <2>4. QED
    BY <2>2, <2>3
<1>7. QED
  BY <1>3, <1>4, <1>5, <1>6 DEF IInv

-----------------------------------------------------------------------------
(* A resync repeats what the store holds, behind what is already queued.   *)

LEMMA ResyncStep ==
  ASSUME IInv, NEW f \in Factory, NEW g \in GVR, Resync(f, g)
  PROVE  IInv'
<1> USE DEF clusterVars, mapVars, discoveryVars, signalVars
<1>0. /\ TypeOK /\ FactoryInv /\ OneInformerPerGVR /\ ClusterInv /\ MapInv
      /\ UNCHANGED <<rev, gone, served, cache, at, stopped, ctxDone, pc, started,
                     found, xrGroups, watched, factories, active, listed, store>>
      /\ g \in listed[f]
  BY DEF IInv, Resync
<1>1. ASSUME NEW f2 \in Factory, NEW o \in Object
      PROVE  pending'[f2][o] =
               IF f2 = f /\ GvrOf[o] = g /\ Alive(o, store[f][o])
                 THEN Append(pending[f][o], [rev |-> store[f][o], tomb |-> FALSE])
                 ELSE pending[f2][o]
  BY <1>0 DEF Resync, TypeOK
<1>2. ASSUME NEW o \in Object
      PROVE  /\ [rev |-> store[f][o], tomb |-> FALSE] \in Event
             /\ Append(pending[f][o], [rev |-> store[f][o], tomb |-> FALSE]) \in Seq(Event)
  <2>1. [rev |-> store[f][o], tomb |-> FALSE] \in Event
    BY <1>0, StreamTypes DEF Event
  <2>2. QED
    BY <1>0, <2>1, StreamTypes
<1>3. TypeOK'
  <2>1. pending' \in [Factory -> [Object -> Seq(Event)]]
    BY <1>0, <1>2 DEF TypeOK, Resync
  <2>2. QED
    BY <1>0, <2>1 DEF TypeOK
<1>4. FactoryInv' /\ OneInformerPerGVR' /\ ClusterInv' /\ MapInv'
  BY <1>0 DEF FactoryInv, OneInformerPerGVR, ClusterInv, MapInv, Content, Alive
<1>5. ASSUME NEW f2 \in Factory, NEW o \in Object PROVE StreamInv(f2, o)'
  <2>1. StreamInv(f2, o)
    BY DEF IInv
  <2>2. CASE ~(f2 = f /\ GvrOf[o] = g /\ Alive(o, store[f][o]))
    <3>1. pending'[f2][o] = pending[f2][o]
      BY <1>1, <2>2
    <3>2. QED
      BY <1>0, <2>1, <3>1 DEF StreamInv, Ascending, LastTold, Content, Alive
  <2>3. CASE f2 = f /\ GvrOf[o] = g /\ Alive(o, store[f][o])
    <3> DEFINE e == [rev |-> store[f][o], tomb |-> FALSE]
    <3>1. /\ at[o] \in Nat /\ store[f][o] \in Nat
          /\ pending[f][o] \in Seq(Event) /\ e \in Event /\ e.rev = store[f][o]
      BY <1>0, <1>2, StreamTypes
    <3>2. /\ at[o] <= store[f][o] /\ store[f][o] <= rev[o]
          /\ Ascending(pending[f][o], at[o], store[f][o])
      BY <1>0, <2>1, <2>3 DEF StreamInv
    <3>3. pending'[f][o] = Append(pending[f][o], e)
      BY <1>1, <2>3
    <3>4. Ascending(Append(pending[f][o], e), at[o], store[f][o])
      BY <3>1, <3>2, AscendingAppend
    <3>5. /\ Append(pending[f][o], e) # << >>
          /\ Append(pending[f][o], e)[Len(Append(pending[f][o], e))] = e
      BY <3>1
    <3>6. LastTold(f, o)' = store'[f][o]
      BY <1>0, <3>1, <3>3, <3>5 DEF LastTold
    <3>7. QED
      BY <1>0, <2>3, <3>2, <3>3, <3>4, <3>6 DEF StreamInv, Ascending
  <2>4. QED
    BY <2>2, <2>3
<1>6. QED
  BY <1>3, <1>4, <1>5 DEF IInv

-----------------------------------------------------------------------------
(* A handler call: the map moves to the head of the queue.                 *)

LEMMA HandleEffect ==
  ASSUME IInv, NEW f \in Factory, NEW o \in Object, Handle(f, o)
  PROVE  \E k \in at[o] .. store[f][o] :
           /\ k \in Nat /\ k <= rev[o] /\ k = Head(pending[f][o]).rev
           /\ GvrOf[o] \in listed[f]
           /\ Tail(pending[f][o]) \in Seq(Event)
           /\ Ascending(Tail(pending[f][o]), k, store[f][o])
           /\ at' = [at EXCEPT ![o] = k]
           /\ cache' = [cache EXCEPT ![o] = Content(o, k)]
<1> DEFINE q == pending[f][o]
           k == Head(q).rev
<1>1. TypeOK /\ StreamInv(f, o) /\ q # << >>
  BY DEF IInv, Handle
<1>2. /\ rev[o] \in Nat /\ at[o] \in Nat /\ store[f][o] \in Nat /\ q \in Seq(Event)
  BY <1>1, StreamTypes
<1>3. /\ GvrOf[o] \in listed[f] /\ at[o] <= store[f][o] /\ store[f][o] <= rev[o]
      /\ Ascending(q, at[o], store[f][o])
  BY <1>1 DEF StreamInv
<1>4. /\ Head(q) \in Event /\ Tail(q) \in Seq(Event)
      /\ at[o] <= k /\ k <= store[f][o] /\ Ascending(Tail(q), k, store[f][o])
  BY <1>1, <1>2, <1>3, AscendingTail
<1>5. k \in Nat /\ k \in at[o] .. store[f][o] /\ k <= rev[o]
  BY <1>2, <1>3, <1>4 DEF Event
<1>6. at' = [at EXCEPT ![o] = k]
  BY DEF Handle
<1>7. cache' = [cache EXCEPT ![o] = Content(o, k)]
  BY DEF Handle, OnAdd, OnDelete, Content
<1>8. QED
  BY <1>3, <1>4, <1>5, <1>6, <1>7

LEMMA HandleStep ==
  ASSUME IInv, NEW f \in Factory, NEW o \in Object, Handle(f, o)
  PROVE  IInv'
<1> USE DEF clusterVars, mapVars, discoveryVars, signalVars
<1>0. /\ TypeOK /\ FactoryInv /\ OneInformerPerGVR /\ ClusterInv /\ MapInv
      /\ UNCHANGED <<rev, gone, served, stopped, ctxDone, pc, started,
                     found, xrGroups, watched, factories, active, listed, store>>
      /\ pending[f][o] # << >>
      /\ pending' = [pending EXCEPT ![f][o] = Tail(@)]
  BY DEF IInv, Handle
<1>1. PICK k \in at[o] .. store[f][o] :
           /\ k \in Nat /\ k <= rev[o] /\ k = Head(pending[f][o]).rev
           /\ GvrOf[o] \in listed[f]
           /\ Tail(pending[f][o]) \in Seq(Event)
           /\ Ascending(Tail(pending[f][o]), k, store[f][o])
           /\ at' = [at EXCEPT ![o] = k]
           /\ cache' = [cache EXCEPT ![o] = Content(o, k)]
  BY HandleEffect
<1>2. /\ rev[o] \in 0 .. MaxRev /\ at[o] \in Nat /\ store[f][o] \in Nat
      /\ pending[f][o] \in Seq(Event)
  BY <1>0, StreamTypes
<1>3. k \in 0 .. MaxRev /\ Content(o, k) \in 0 .. MaxRev /\ k <= store[f][o]
  BY <1>1, <1>2, MaxRevAssumption DEF Content
<1>4. TypeOK'
  <2>1. pending' \in [Factory -> [Object -> Seq(Event)]]
    BY <1>0, <1>1 DEF TypeOK
  <2>2. at' \in [Object -> 0 .. MaxRev] /\ cache' \in [Object -> 0 .. MaxRev]
    BY <1>0, <1>1, <1>3 DEF TypeOK
  <2>3. QED
    BY <1>0, <2>1, <2>2 DEF TypeOK
<1>5. FactoryInv' /\ OneInformerPerGVR' /\ ClusterInv'
  BY <1>0 DEF FactoryInv, OneInformerPerGVR, ClusterInv
<1>6. MapInv'
  <2>1. ASSUME NEW o2 \in Object
        PROVE  /\ at'[o2] <= rev[o2]
               /\ cache'[o2] = Content(o2, at'[o2])
               /\ at'[o2] # 0 => \E f2 \in Factory : GvrOf[o2] \in listed[f2]
    <3>1. CASE o2 = o
      <4>1. at'[o] = k /\ cache'[o] = Content(o, k)
        BY <1>0, <1>1 DEF TypeOK
      <4>2. QED
        BY <1>1, <3>1, <4>1
    <3>2. CASE o2 # o
      <4>1. at'[o2] = at[o2] /\ cache'[o2] = cache[o2]
        BY <1>0, <1>1, <3>2 DEF TypeOK
      <4>2. /\ at[o2] <= rev[o2] /\ cache[o2] = Content(o2, at[o2])
            /\ at[o2] # 0 => \E f2 \in Factory : GvrOf[o2] \in listed[f2]
        BY <1>0 DEF MapInv
      <4>3. QED
        BY <4>1, <4>2
    <3>3. QED
      BY <3>1, <3>2
  <2>2. QED
    BY <1>0, <2>1 DEF MapInv, Content, Alive
<1>7. ASSUME NEW f2 \in Factory, NEW o2 \in Object PROVE StreamInv(f2, o2)'
  <2>1. StreamInv(f2, o2)
    BY DEF IInv
  <2>2. CASE o2 # o
    <3>1. at'[o2] = at[o2] /\ pending'[f2][o2] = pending[f2][o2]
      BY <1>0, <1>1, <2>2 DEF TypeOK
    <3>2. QED
      BY <1>0, <2>1, <3>1 DEF StreamInv, Ascending, LastTold, Content, Alive
  <2>3. CASE o2 = o /\ f2 # f
    <3>1. GvrOf[o] \notin listed[f2]
      BY <1>0, <1>1, <2>3, OneVoice DEF FactoryInv
    <3>2. pending'[f2][o] = pending[f2][o]
      BY <1>0, <2>3 DEF TypeOK
    <3>3. QED
      BY <1>0, <2>1, <2>3, <3>1, <3>2 DEF StreamInv
  <2>4. CASE o2 = o /\ f2 = f
    <3> DEFINE q == pending[f][o]
    <3>1. at'[o] = k /\ pending'[f][o] = Tail(q)
      BY <1>0, <1>1 DEF TypeOK
    <3>2. Content(o, LastTold(f, o)) = Content(o, store[f][o])
      BY <1>1, <2>1, <2>4 DEF StreamInv
    <3>3. LastTold(f, o)' = LastTold(f, o)
      <4>1. CASE Tail(q) = << >>
        <5>0. Len(Tail(q)) = 0 /\ Len(Tail(q)) = Len(q) - 1 /\ Len(q) \in Nat
          <6>1. Len(Tail(q)) = Len(q) - 1 /\ Len(q) \in Nat
            BY <1>0, <1>2
          <6>2. Len(<< >>) = 0
            OBVIOUS
          <6>3. QED
            BY <4>1, <6>1, <6>2
        <5>1. Len(q) = 1 /\ Head(q) = q[1]
          BY <1>2, <5>0
        <5>2. QED
          BY <1>0, <1>1, <3>1, <4>1, <5>1 DEF LastTold
      <4>2. CASE Tail(q) # << >>
        <5>1. Tail(q)[Len(Tail(q))] = q[Len(q)]
          BY <1>0, <1>2, <4>2
        <5>2. QED
          BY <1>0, <3>1, <4>2, <5>1 DEF LastTold
      <4>3. QED
        BY <4>1, <4>2
    <3>4. Content(o, LastTold(f, o))' = Content(o, store[f][o])'
      BY <1>0, <3>2, <3>3 DEF Content, Alive
    <3>5. /\ at'[o] <= store'[f][o] /\ store'[f][o] <= rev'[o]
          /\ Ascending(pending'[f][o], at'[o], store'[f][o])
      BY <1>0, <1>1, <1>3, <2>1, <2>4, <3>1 DEF StreamInv, Ascending
    <3>6. StreamInv(f, o)'
      BY <1>0, <1>1, <3>4, <3>5 DEF StreamInv
    <3>7. QED
      BY <2>4, <3>6
  <2>5. QED
    BY <2>2, <2>3, <2>4
<1>8. QED
  BY <1>4, <1>5, <1>6, <1>7 DEF IInv

-----------------------------------------------------------------------------
(* The cluster writes an object: what older revisions say of it stands.    *)

LEMMA WriteKeepsThePast ==
  ASSUME IInv, NEW o \in Object, WriteObject(o),
         NEW o2 \in Object, NEW k \in Nat, k <= rev[o2]
  PROVE  Content(o2, k)' = Content(o2, k)
<1>1. rev[o] \in Nat /\ rev[o2] \in Nat /\ gone \in [Object -> SUBSET (1 .. MaxRev)]
  BY MaxRevAssumption DEF IInv, TypeOK
<1>2. gone'[o2] = gone[o2] \/ (o2 = o /\ gone'[o2] = gone[o2] \cup {rev[o] + 1})
  BY <1>1 DEF WriteObject
<1>3. k \in gone'[o2] <=> k \in gone[o2]
  BY <1>1, <1>2
<1>4. QED
  BY <1>3 DEF Content, Alive

LEMMA ChangeObjectStep ==
  ASSUME IInv, NEW o \in Object, ChangeObject(o)
  PROVE  IInv'
<1> USE DEF mapVars, informerVars, discoveryVars, signalVars
<1>0. /\ TypeOK /\ FactoryInv /\ OneInformerPerGVR /\ ClusterInv /\ MapInv
      /\ UNCHANGED <<served, cache, at, stopped, ctxDone, pc, started, found, xrGroups,
                     watched, factories, active, listed, store, pending>>
      /\ WriteObject(o)
  BY DEF IInv, ChangeObject
<1>1. /\ rev[o] \in Nat /\ rev[o] + 1 \in 1 .. MaxRev
      /\ rev' = [rev EXCEPT ![o] = rev[o] + 1]
  BY <1>0, MaxRevAssumption DEF TypeOK, WriteObject
<1>2. gone' = gone \/ gone' = [gone EXCEPT ![o] = @ \cup {rev[o] + 1}]
  BY <1>0 DEF WriteObject
<1>3. TypeOK'
  <2>1. rev' \in [Object -> 0 .. MaxRev]
    BY <1>0, <1>1, MaxRevAssumption DEF TypeOK
  <2>2. gone' \in [Object -> SUBSET (1 .. MaxRev)]
    BY <1>0, <1>1, <1>2 DEF TypeOK
  <2>3. QED
    BY <1>0, <2>1, <2>2 DEF TypeOK
<1>4. ASSUME NEW o2 \in Object
      PROVE  /\ rev[o2] \in Nat /\ rev'[o2] \in Nat /\ rev[o2] <= rev'[o2]
             /\ gone'[o2] \subseteq 1 .. rev'[o2]
  <2>1. rev[o2] \in Nat /\ gone[o2] \subseteq 1 .. rev[o2]
    BY <1>0, MaxRevAssumption DEF TypeOK, ClusterInv
  <2>2. rev'[o2] = IF o2 = o THEN rev[o] + 1 ELSE rev[o2]
    BY <1>0, <1>1 DEF TypeOK
  <2>3. gone'[o2] = gone[o2] \/ (o2 = o /\ gone'[o2] = gone[o2] \cup {rev[o] + 1})
    BY <1>0, <1>2 DEF TypeOK
  <2>4. QED
    BY <2>1, <2>2, <2>3
<1>5. ClusterInv' /\ FactoryInv' /\ OneInformerPerGVR'
  BY <1>0, <1>4 DEF ClusterInv, FactoryInv, OneInformerPerGVR
<1>6. MapInv'
  <2>1. ASSUME NEW o2 \in Object
        PROVE  /\ at'[o2] <= rev'[o2] /\ cache'[o2] = Content(o2, at[o2])'
               /\ at'[o2] # 0 => \E f \in Factory : GvrOf[o2] \in listed'[f]
    <3>1. at[o2] \in Nat /\ at[o2] <= rev[o2] /\ cache[o2] = Content(o2, at[o2])
      BY <1>0, MaxRevAssumption DEF MapInv, TypeOK
    <3>2. Content(o2, at[o2])' = Content(o2, at[o2])
      BY <1>0, <3>1, WriteKeepsThePast DEF Content, Alive
    <3>3. QED
      BY <1>0, <1>4, <3>1, <3>2 DEF MapInv
  <2>2. QED
    BY <2>1 DEF MapInv
<1>7. ASSUME NEW f \in Factory, NEW o2 \in Object PROVE StreamInv(f, o2)'
  <2>1. StreamInv(f, o2)
    BY DEF IInv
  <2>2. CASE GvrOf[o2] \in listed[f]
    <3>1. /\ at[o2] <= store[f][o2] /\ store[f][o2] <= rev[o2]
          /\ Ascending(pending[f][o2], at[o2], store[f][o2])
          /\ Content(o2, LastTold(f, o2)) = Content(o2, store[f][o2])
      BY <2>1, <2>2 DEF StreamInv
    <3>2. /\ at[o2] \in Nat /\ store[f][o2] \in Nat /\ pending[f][o2] \in Seq(Event)
      BY <1>0, StreamTypes
    <3>3. LastTold(f, o2) \in Nat /\ LastTold(f, o2) <= store[f][o2]
      <4>1. CASE pending[f][o2] = << >>
        BY <3>1, <3>2, <4>1 DEF LastTold
      <4>2. CASE pending[f][o2] # << >>
        <5>1. Len(pending[f][o2]) \in 1 .. Len(pending[f][o2])
          BY <3>2, <4>2
        <5>2. pending[f][o2][Len(pending[f][o2])] \in Event
          BY <3>2, <5>1
        <5>3. QED
          BY <3>1, <4>2, <5>1, <5>2 DEF LastTold, Ascending, Event
      <4>3. QED
        BY <4>1, <4>2
    <3>4. LastTold(f, o2)' = LastTold(f, o2)
      BY <1>0 DEF LastTold
    <3>5. \A k \in Nat : k <= rev[o2] => Content(o2, k)' = Content(o2, k)
      BY <1>0, WriteKeepsThePast
    <3>6. LastTold(f, o2) <= rev[o2]
      BY <1>4, <3>1, <3>2, <3>3
    <3>7. Content(o2, LastTold(f, o2))' = Content(o2, store[f][o2])'
      BY <1>0, <3>1, <3>2, <3>3, <3>4, <3>5, <3>6 DEF Content, Alive
    <3>8. store'[f][o2] <= rev'[o2]
      BY <1>0, <1>4, <3>1, <3>2
    <3>9. QED
      BY <1>0, <2>2, <3>1, <3>7, <3>8 DEF StreamInv, Ascending
  <2>3. CASE GvrOf[o2] \notin listed[f]
    BY <1>0, <2>1, <2>3 DEF StreamInv
  <2>4. QED
    BY <2>2, <2>3
<1>8. QED
  BY <1>3, <1>5, <1>6, <1>7 DEF IInv

-----------------------------------------------------------------------------
(* The theorems.                                                           *)

LEMMA NextInv == IInv /\ [Next]_vars => IInv'
<1> SUFFICES ASSUME IInv, [Next]_vars PROVE IInv'
  OBVIOUS
<1>1. CASE Start \/ Tick \/ LoopExit \/ Cancel \/ Stop
  BY <1>1, ControlStep, QuietStep
<1>2. CASE StartInformers
  BY <1>2, ControlStep, QuietStep, RegisterStep DEF StartInformers
<1>3. CASE Informers
  BY <1>3, ListStep, ResyncStep, WatchStep, HandleStep DEF Informers
<1>4. CASE Cluster
  BY <1>4, ChangeObjectStep, ControlStep, QuietStep DEF Cluster
<1>5. CASE UNCHANGED vars
  <2>1. TypeOK' /\ UNCHANGED quietVars
    BY <1>5 DEF IInv, TypeOK, vars, clusterVars, mapVars, informerVars,
                discoveryVars, signalVars, quietVars
  <2>2. QED
    BY <2>1, QuietStep
<1>6. QED
  BY <1>1, <1>2, <1>3, <1>4, <1>5 DEF Next

LEMMA SpecInv == Spec => []IInv
<1>1. QED
  BY InitInv, NextInv, PTL DEF Spec

(* The variables keep their types: in particular no handler ever stores a  *)
(* revision the cluster has not had.                                       *)
THEOREM TypeCorrect == Spec => []TypeOK
<1>1. IInv => TypeOK
  BY DEF IInv
<1>2. QED
  BY <1>1, SpecInv, PTL

(* However discovery answers, no type ever gets a second informer.         *)
THEOREM SingleInformer == Spec => []OneInformerPerGVR
<1>1. IInv => OneInformerPerGVR
  BY DEF IInv
<1>2. QED
  BY <1>1, SpecInv, PTL

(* The map loses no event and applies none twice out of order: what it     *)
(* holds, once the queue is drained, is what the informer's store holds.   *)
THEOREM MapFaithful == Spec => []MapFollowsInformer
<1>1. IInv => MapFollowsInformer
  BY DEF IInv, StreamInv, MapInv, MapFollowsInformer
<1>2. QED
  BY <1>1, SpecInv, PTL

(* The state cache implements the mirror: every step of it moves a map     *)
(* entry forward to a revision the cluster had, or leaves the map alone.   *)
THEOREM Implementation == Spec => MirrorOfCluster
<1>1. Init => MirrorInit
  BY DEF Init, NewStateCache, MirrorInit
<1>2. IInv /\ [Next]_vars => [MirrorNext]_mirrorVars
  <2> SUFFICES ASSUME IInv, [Next]_vars PROVE [MirrorNext]_mirrorVars
    OBVIOUS
  <2>1. CASE UNCHANGED mirrorVars
    BY <2>1
  <2>2. ASSUME NEW f \in Factory, NEW o \in Object, Handle(f, o) PROVE Apply(o)
    <3>1. PICK k \in at[o] .. store[f][o] :
            /\ k \in Nat /\ k <= rev[o]
            /\ at' = [at EXCEPT ![o] = k]
            /\ cache' = [cache EXCEPT ![o] = Content(o, k)]
      BY <2>2, HandleEffect
    <3>2. rev[o] \in Nat /\ at[o] \in Nat /\ store[f][o] \in Nat
      BY StreamTypes DEF IInv
    <3>3. k \in at[o] .. rev[o]
      BY <3>1, <3>2
    <3>4. UNCHANGED <<rev, gone>>
      BY <2>2 DEF Handle, clusterVars
    <3>5. QED
      BY <3>1, <3>3, <3>4 DEF Apply
  <2>3. ASSUME NEW o \in Object, ChangeObject(o)
        PROVE  WriteObject(o) /\ UNCHANGED <<cache, at>>
    BY <2>3 DEF ChangeObject, mapVars
  <2>4. CASE Start \/ Tick \/ LoopExit \/ Cancel \/ Stop
    BY <2>4, ControlStep DEF quietVars, mapVars, mirrorVars
  <2>5. CASE StartInformers
    BY <2>5, ControlStep DEF StartInformers, RegisterInformers, quietVars, mapVars,
                             clusterVars, mirrorVars
  <2>6. CASE Informers
    <3>1. ASSUME NEW f \in Factory, NEW g \in GVR, List(f, g) \/ Resync(f, g)
          PROVE  UNCHANGED mirrorVars
      BY <3>1 DEF List, Resync, clusterVars, mapVars, mirrorVars
    <3>2. ASSUME NEW f \in Factory, NEW o \in Object, Watch(f, o)
          PROVE  UNCHANGED mirrorVars
      BY <3>2 DEF Watch, clusterVars, mapVars, mirrorVars
    <3>3. QED
      BY <2>2, <2>6, <3>1, <3>2 DEF Informers, MirrorNext
  <2>7. CASE Cluster
    <3>1. ASSUME NEW g \in GVR, Install(g) \/ Uninstall(g) PROVE UNCHANGED mirrorVars
      BY <3>1 DEF Install, Uninstall, mapVars, mirrorVars
    <3>2. QED
      BY <2>3, <2>7, <3>1 DEF Cluster, MirrorNext
  <2>8. CASE UNCHANGED vars
    BY <2>8 DEF vars, clusterVars, mapVars, mirrorVars
  <2>9. QED
    BY <2>4, <2>5, <2>6, <2>7, <2>8 DEF Next
<1>3. QED
  BY <1>1, <1>2, SpecInv, PTL DEF Spec, MirrorSpec, MirrorOfCluster
=============================================================================
