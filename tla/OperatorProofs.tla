---------------------------- MODULE OperatorProofs ----------------------------
(***************************************************************************)
(* Theorems about Operator: the process drives the state cache only as     *)
(* StateCache says it may be driven, so that what StateCacheProofs shows of*)
(* the cache holds of the process; and the process, seen through its API,  *)
(* is a Replica.                                                           *)
(***************************************************************************)
EXTENDS Operator, StateCacheProofs

FlagTypeOK == ready \in BOOLEAN /\ sig \in BOOLEAN

ProcessTypeOK ==
  /\ main \in {"select", "stopAPI", "stopHealth", "stopCache", "exited"}
  /\ api \in {"starting", "listening", "closed", "sending", "done"}
  /\ run \in {"none", "starting", "ready", "sending", "returned"}
  /\ elector \in {"off", "candidate", "leader", "lost", "released"}
  /\ errs \in 0 .. 2

(* Every error in errCh comes from a goroutine that is over, and each of   *)
(* the two sends at most one.                                              *)
ErrorsFromTheDone ==
  errs <= (IF api = "done" THEN 1 ELSE 0) + (IF run = "returned" THEN 1 ELSE 0)

OpInv == ProcessTypeOK /\ FlagTypeOK /\ ErrorsFromTheDone

-----------------------------------------------------------------------------
LEMMA OpInitInv == OpInit => OpInv
<1> SUFFICES ASSUME OpInit PROVE OpInv
  OBVIOUS
<1>1. FlagTypeOK
  BY DEF OpInit, FlagTypeOK
<1>2. main = "select" /\ api = "starting" /\ run = "none" /\ errs = 0
      /\ elector \in {"off", "candidate"}
  BY DEF OpInit
<1>3. ProcessTypeOK /\ ErrorsFromTheDone
  BY <1>2 DEF ProcessTypeOK, ErrorsFromTheDone
<1>4. QED
  BY <1>1, <1>3 DEF OpInv

(* The goroutines that may still report an error.                          *)
LEMMA SendersStep ==
  ASSUME OpInv,
         \/ ApiListens \/ ApiFails \/ ApiSends
         \/ RunStarts \/ StartFails \/ RunSends \/ BecomesReady \/ RunReturns
  PROVE  OpInv'
<1>1. FlagTypeOK'
  BY DEF OpInv, FlagTypeOK, ApiListens, ApiFails, ApiSends,
         RunStarts, StartFails, RunSends, BecomesReady, RunReturns
<1>2. CASE ApiListens \/ ApiFails \/ ApiSends
  <2>1. ProcessTypeOK' /\ ErrorsFromTheDone'
    BY <1>2 DEF OpInv, ProcessTypeOK, ErrorsFromTheDone, ErrChCap, ApiListens, ApiFails,
                ApiSends
  <2>2. QED
    BY <1>1, <2>1 DEF OpInv
<1>3. CASE RunStarts \/ StartFails \/ RunSends \/ RunReturns
  <2>1. ProcessTypeOK' /\ ErrorsFromTheDone'
    BY <1>3 DEF OpInv, ProcessTypeOK, ErrorsFromTheDone, ErrChCap, RunStarts, StartFails,
                RunSends, RunReturns
  <2>2. QED
    BY <1>1, <2>1 DEF OpInv
<1>4. CASE BecomesReady
  <2>1. UNCHANGED <<main, api, elector, errs>> /\ run = "starting" /\ run' = "ready"
    BY <1>4 DEF BecomesReady
  <2>2. ProcessTypeOK' /\ ErrorsFromTheDone'
    BY <2>1 DEF OpInv, ProcessTypeOK, ErrorsFromTheDone
  <2>3. QED
    BY <1>1, <2>2 DEF OpInv
<1>5. QED
  BY <1>2, <1>3, <1>4

LEMMA LeaderStep ==
  ASSUME OpInv, Acquire \/ LoseLease \/ ReleaseLease
  PROVE  OpInv'
BY DEF OpInv, ProcessTypeOK, FlagTypeOK, ErrorsFromTheDone, Acquire, LoseLease, ReleaseLease

LEMMA MainStep ==
  ASSUME OpInv, MainCancels \/ StopAPI \/ StopHealth \/ StopCache \/ SignalArrives
  PROVE  OpInv'
<1>1. FlagTypeOK'
  BY DEF OpInv, FlagTypeOK, MainCancels, Shutdown, StopAPI, StopHealth, StopCache,
         SignalArrives
<1>2. CASE MainCancels
  <2>1. /\ main' = "stopAPI" /\ UNCHANGED <<api, run, elector>>
        /\ errs' = errs \/ (errs > 0 /\ errs' = errs - 1)
    BY <1>2 DEF MainCancels, Shutdown
  <2>2. ProcessTypeOK' /\ ErrorsFromTheDone'
    BY <2>1 DEF OpInv, ProcessTypeOK, ErrorsFromTheDone
  <2>3. QED
    BY <1>1, <2>2 DEF OpInv
<1>3. CASE StopAPI \/ StopHealth \/ StopCache
  <2>1. ProcessTypeOK' /\ ErrorsFromTheDone'
    BY <1>3 DEF OpInv, ProcessTypeOK, ErrorsFromTheDone, StopAPI, StopHealth, StopCache
  <2>2. QED
    BY <1>1, <2>1 DEF OpInv
<1>4. CASE SignalArrives
  <2>1. UNCHANGED <<main, api, run, elector, errs>>
    BY <1>4 DEF SignalArrives
  <2>2. ProcessTypeOK' /\ ErrorsFromTheDone'
    BY <2>1 DEF OpInv, ProcessTypeOK, ErrorsFromTheDone
  <2>3. QED
    BY <1>1, <2>2 DEF OpInv
<1>5. QED
  BY <1>2, <1>3, <1>4

LEMMA OpNextInv == OpInv /\ [OpNext]_opVars => OpInv'
<1> SUFFICES ASSUME OpInv, [OpNext]_opVars PROVE OpInv'
  OBVIOUS
<1>1. CASE Process
  BY <1>1, SendersStep, LeaderStep, MainStep DEF Process
<1>2. CASE Events
  BY <1>2, SendersStep, LeaderStep, MainStep DEF Events
<1>3. CASE UNCHANGED processVars
  BY <1>3 DEF OpInv, ProcessTypeOK, FlagTypeOK, ErrorsFromTheDone, processVars
<1>4. QED
  BY <1>1, <1>2, <1>3 DEF OpNext, CacheStep, ClusterStep, opVars

LEMMA OpInvariance == OpSpec => []OpInv
BY OpInitInv, OpNextInv, PTL DEF OpSpec

(* No goroutine of the operator ever waits for room in errCh, although     *)
(* main reads one error at most (main.go:104, 116-165, 193-208).           *)
THEOREM NoSenderBlocks == OpSpec => []SendersNeverBlock
<1>1. OpInv => SendersNeverBlock
  BY DEF OpInv, ProcessTypeOK, ErrorsFromTheDone, SendersNeverBlock, ErrChCap
<1>2. QED
  BY <1>1, OpInvariance, PTL

-----------------------------------------------------------------------------
LEMMA OpStepOfCache == [OpNext]_opVars => [Next]_vars
<1> SUFFICES ASSUME [OpNext]_opVars PROVE [Next]_vars
  OBVIOUS
<1>1. CASE CacheStep
  BY <1>1 DEF CacheStep, Next
<1>2. CASE ClusterStep
  BY <1>2 DEF ClusterStep, Next
<1>3. CASE RunStarts \/ StopCache
  BY <1>3 DEF RunStarts, StopCache, Next
<1>4. CASE LoseLease \/ MainCancels
  <2>1. ctxDone' = TRUE /\ UNCHANGED cacheVars
    BY <1>4 DEF LoseLease, MainCancels
  <2>2. CASE ctxDone = TRUE
    BY <2>1, <2>2 DEF vars, cacheVars, signalVars
  <2>3. CASE ctxDone # TRUE
    BY <2>1, <2>3 DEF Next, Cancel, cacheVars
  <2>4. QED
    BY <2>2, <2>3
<1>5. CASE UNCHANGED vars
  BY <1>5
<1>6. ASSUME \/ ApiListens \/ ApiFails \/ ApiSends \/ StartFails \/ RunSends
             \/ BecomesReady \/ RunReturns \/ Acquire \/ ReleaseLease
             \/ StopAPI \/ StopHealth \/ SignalArrives
      PROVE  UNCHANGED vars
  BY <1>6 DEF ApiListens, ApiFails, ApiSends, StartFails, RunSends, BecomesReady,
              RunReturns, Acquire, ReleaseLease, StopAPI, StopHealth, SignalArrives
<1>7. QED
  BY <1>1, <1>2, <1>3, <1>4, <1>5, <1>6 DEF OpNext, Process, Events, opVars

(* main, the elector and run call Start, cancel and Stop in an order the   *)
(* cache is specified for: every behaviour of the process is one of the    *)
(* cache (main.go:110-208).                                                *)
THEOREM ProcessDrivesCache == OpSpec => Spec
<1>1. OpInit => Init
  BY DEF OpInit
<1>2. QED
  BY <1>1, OpStepOfCache, PTL DEF OpSpec, Spec

(* The types of the process and of the cache it runs.                      *)
THEOREM OpTypeCorrect == OpSpec => []OpTypeOK
<1>1. OpInv /\ TypeOK => OpTypeOK
  BY DEF OpInv, ProcessTypeOK, FlagTypeOK, OpTypeOK
<1>2. QED
  BY <1>1, OpInvariance, ProcessDrivesCache, TypeCorrect, PTL

(* The guarantees of the cache survive leader election, a lost lease,      *)
(* fatal errors and the shutdown sequence.                                 *)
THEOREM CacheGuaranteesOfProcess ==
  OpSpec => []OneInformerPerGVR /\ []MapFollowsInformer /\ MirrorOfCluster
BY ProcessDrivesCache, SingleInformer, MapFaithful, Implementation, PTL

-----------------------------------------------------------------------------
(* One step of the process, as its clients see it.                         *)
PhaseMayChange == Phase' = Phase \/ Phase' \in Rep!Later(Phase)

LEMMA PhaseByParts ==
  ASSUME OpInv, OpInv',
         main = "exited" => main' = "exited",
         api \in {"closed", "sending", "done"} => api' \in {"closed", "sending", "done"},
         api' = "starting" => api = "starting",
         ready => ready'
  PROVE  PhaseMayChange
BY DEF PhaseMayChange, Phase, Rep!Later, OpInv, ProcessTypeOK, FlagTypeOK

LEMMA PhaseStep == OpInv /\ OpInv' /\ [OpNext]_opVars => PhaseMayChange
<1> SUFFICES ASSUME OpInv, OpInv', [OpNext]_opVars PROVE PhaseMayChange
  OBVIOUS
<1>1. CASE Process
  <2>1. CASE ApiListens \/ ApiSends
    BY <2>1, PhaseByParts DEF ApiListens, ApiSends
  <2>2. CASE RunStarts \/ StartFails \/ RunSends \/ BecomesReady \/ RunReturns
    BY <2>2, PhaseByParts DEF RunStarts, StartFails, RunSends, BecomesReady, RunReturns
  <2>3. CASE ReleaseLease \/ MainCancels
    BY <2>3, PhaseByParts DEF ReleaseLease, MainCancels
  <2>4. CASE StopAPI \/ StopHealth \/ StopCache
    BY <2>4, PhaseByParts DEF StopAPI, StopHealth, StopCache
  <2>5. QED
    BY <1>1, <2>1, <2>2, <2>3, <2>4 DEF Process
<1>2. CASE Events
  BY <1>2, PhaseByParts DEF Events, ApiFails, Acquire, LoseLease, SignalArrives
<1>3. CASE UNCHANGED processVars
  BY <1>3, PhaseByParts DEF processVars
<1>4. QED
  BY <1>1, <1>2, <1>3 DEF OpNext, CacheStep, ClusterStep, opVars

(* What the process answers to its clients follows Replica: an operator    *)
(* that once answered from a filled cache does so to its end, also without *)
(* its lease and while it shuts down (main.go:110-208, httpapi.go:44-76).  *)
THEOREM ProcessIsReplica == OpSpec => ReplicaPhases
<1>1. OpInit => Phase = "starting"
  BY DEF OpInit, Phase
<1>2. OpInv /\ OpInv' /\ [OpNext]_opVars => [Phase' \in Rep!Later(Phase)]_Phase
  BY PhaseStep DEF PhaseMayChange
<1>3. QED
  BY <1>1, <1>2, OpInvariance, PTL DEF OpSpec, ReplicaPhases, Rep!ReplicaSpec
=============================================================================
