------------------------------- MODULE Operator -------------------------------
(***************************************************************************)
(* cmd/crossplane-validate-operator/main.go: the operator process around   *)
(* the state cache.  main starts the API server and the health server, runs*)
(* the cache (at once, or when leader election makes this replica the      *)
(* leader), then waits for a signal or a fatal error and shuts down.       *)
(*                                                                         *)
(* The module is composed with StateCache: run calls Start, main and the   *)
(* elector cancel the context, and main calls Stop.                        *)
(***************************************************************************)
EXTENDS StateCache

VARIABLES
  main,      \* where main is
  api,       \* the goroutine of httpAPI.Start
  run,       \* the goroutine of run
  elector,   \* the goroutine of RunOrDie ("off": without --leader-elect)
  ready,     \* what /readyz answers
  errs,      \* the number of errors in errCh
  sig        \* a signal is waiting in sigCh

processVars == <<main, api, run, elector, ready, errs, sig>>
cacheVars == <<clusterVars, mapVars, informerVars, discoveryVars, stopped>>
opVars == <<vars, processVars>>

(* Mutant: room for one error only.                                        *)
ErrChCapOne == 1

ErrChCap == 2

OpInit ==
  /\ Init
  /\ main = "select" /\ api = "starting" /\ run = "none"
  /\ elector \in {"off", "candidate"}
  /\ ready = FALSE /\ errs = 0 /\ sig = FALSE

-----------------------------------------------------------------------------
(* The API server's goroutine: it serves before the cache has listed       *)
(* anything, and ends with an error, also when Stop closed it.             *)

ApiListens ==
  /\ api = "starting" /\ api' = "listening"
  /\ UNCHANGED <<vars, main, run, elector, ready, errs, sig>>

ApiFails ==
  /\ api \in {"starting", "listening", "closed"} /\ api' = "sending"
  /\ UNCHANGED <<vars, main, run, elector, ready, errs, sig>>

ApiSends ==
  /\ api = "sending" /\ errs < ErrChCap
  /\ api' = "done" /\ errs' = errs + 1
  /\ UNCHANGED <<vars, main, run, elector, ready, sig>>

-----------------------------------------------------------------------------
(* The goroutine of run: started by main or by OnStartedLeading.           *)

RunStarts ==
  /\ run = "none" /\ elector \in {"off", "leader"}
  /\ run' = "starting"
  /\ Start
  /\ UNCHANGED <<main, api, elector, ready, errs, sig>>

StartFails ==
  /\ run = "starting" /\ pc = "failed"
  /\ run' = "sending"
  /\ UNCHANGED <<vars, main, api, elector, ready, errs, sig>>

RunSends ==
  /\ run = "sending" /\ errs < ErrChCap
  /\ run' = "returned" /\ errs' = errs + 1
  /\ UNCHANGED <<vars, main, api, elector, ready, sig>>

(* Mutant: ready only when something is watched.                           *)
ReadyWhenWatching ==
  /\ run = "starting" /\ started /\ watched # {}
  /\ run' = "ready" /\ ready' = TRUE
  /\ UNCHANGED <<vars, main, api, elector, errs, sig>>

BecomesReady ==
  /\ run = "starting" /\ started
  /\ run' = "ready" /\ ready' = TRUE
  /\ UNCHANGED <<vars, main, api, elector, errs, sig>>

(* Mutant: /readyz turns back when the cache's loop ends.                  *)
RunReturnsNotReady ==
  /\ run = "ready" /\ ctxDone
  /\ run' = "returned" /\ ready' = FALSE
  /\ UNCHANGED <<vars, main, api, elector, errs, sig>>

RunReturns ==
  /\ run = "ready" /\ ctxDone
  /\ run' = "returned"
  /\ UNCHANGED <<vars, main, api, elector, ready, errs, sig>>

-----------------------------------------------------------------------------
(* Leader election (external: client-go).  RunOrDie ends when the lease is *)
(* lost or the context is cancelled, and calls OnStoppedLeading: cancel(). *)

Acquire ==
  /\ elector = "candidate" /\ ~ctxDone
  /\ elector' = "leader"
  /\ UNCHANGED <<vars, main, api, run, ready, errs, sig>>

LoseLease ==
  /\ elector = "leader"
  /\ elector' = "lost" /\ ctxDone' = TRUE
  /\ UNCHANGED <<cacheVars, main, api, run, ready, errs, sig>>

ReleaseLease ==
  /\ elector \in {"candidate", "leader"} /\ ctxDone
  /\ elector' = "released"
  /\ UNCHANGED <<vars, main, api, run, ready, errs, sig>>

-----------------------------------------------------------------------------
(* main: the final select watches sigCh and errCh, and nothing else.       *)

(* Mutant: errCh is not among the cases.                                   *)
ShutdownOnSignalOnly == sig /\ sig' = FALSE /\ UNCHANGED errs

(* Mutant: sigCh is not among the cases.                                   *)
ShutdownOnErrorOnly == errs > 0 /\ errs' = errs - 1 /\ UNCHANGED sig

Shutdown ==
  \/ sig /\ sig' = FALSE /\ UNCHANGED errs
  \/ errs > 0 /\ errs' = errs - 1 /\ UNCHANGED sig

MainCancels ==
  /\ main = "select"
  /\ Shutdown
  /\ main' = "stopAPI" /\ ctxDone' = TRUE
  /\ UNCHANGED <<cacheVars, api, run, elector, ready>>

(* Stop does nothing when Start has not yet created the server.            *)
StopAPI ==
  /\ main = "stopAPI" /\ main' = "stopHealth"
  /\ api' = IF api = "listening" THEN "closed" ELSE api
  /\ UNCHANGED <<vars, run, elector, ready, errs, sig>>

StopHealth ==
  /\ main = "stopHealth" /\ main' = "stopCache"
  /\ UNCHANGED <<vars, api, run, elector, ready, errs, sig>>

StopCache ==
  /\ main = "stopCache" /\ main' = "exited"
  /\ Stop
  /\ UNCHANGED <<api, run, elector, ready, errs, sig>>

SignalArrives ==
  /\ main = "select" /\ ~sig /\ sig' = TRUE
  /\ UNCHANGED <<vars, main, api, run, elector, ready, errs>>

-----------------------------------------------------------------------------
(* The cache goes on by itself while the process lives; Start, Cancel and  *)
(* Stop are the calls above.  The cluster outlives the process.            *)
CacheStep ==
  /\ main # "exited"
  /\ Tick \/ LoopExit \/ StartInformers \/ Informers
  /\ UNCHANGED processVars

ClusterStep == Cluster /\ UNCHANGED processVars

Process ==
  /\ main # "exited"
  /\ \/ ApiListens \/ ApiSends
     \/ RunStarts \/ StartFails \/ RunSends \/ BecomesReady \/ RunReturns
     \/ ReleaseLease
     \/ MainCancels \/ StopAPI \/ StopHealth \/ StopCache

Events ==
  /\ main # "exited"
  /\ ApiFails \/ Acquire \/ LoseLease \/ SignalArrives

OpNext == Process \/ Events \/ CacheStep \/ ClusterStep

OpSpec == OpInit /\ [][OpNext]_opVars

(* Every goroutine that can run does; nothing obliges a signal, a failure, *)
(* or a change of leadership to happen.                                    *)
OpFairness ==
  /\ WF_opVars(main # "exited" /\ (ApiListens \/ ApiSends))
  /\ WF_opVars(main # "exited" /\ (RunStarts \/ StartFails \/ RunSends
                                   \/ BecomesReady \/ RunReturns))
  /\ WF_opVars(main # "exited" /\ ReleaseLease)
  /\ WF_opVars(main # "exited" /\ (MainCancels \/ StopAPI \/ StopHealth \/ StopCache))
  /\ WF_opVars(CacheStep /\ (Tick \/ LoopExit \/ StartInformers))
  /\ \A f \in Factory, g \in GVR : WF_opVars(CacheStep /\ List(f, g) /\ g \notin listed[f])

OpFairSpec == OpSpec /\ OpFairness

-----------------------------------------------------------------------------
(* Properties.                                                             *)

OpTypeOK ==
  /\ TypeOK
  /\ main \in {"select", "stopAPI", "stopHealth", "stopCache", "exited"}
  /\ api \in {"starting", "listening", "closed", "sending", "done"}
  /\ run \in {"none", "starting", "ready", "sending", "returned"}
  /\ elector \in {"off", "candidate", "leader", "lost", "released"}
  /\ ready \in BOOLEAN /\ sig \in BOOLEAN
  /\ errs \in 0 .. 2

(* No goroutine can hang on errCh: whoever still wants to report an error  *)
(* finds room for it, although main reads at most one.                     *)
SendersNeverBlock ==
  errs + (IF api = "sending" THEN 1 ELSE 0) + (IF run = "sending" THEN 1 ELSE 0)
    <= ErrChCap

(* SIGINT or SIGTERM ends the process, wherever discovery or a wait for    *)
(* the first lists happens to be.                                          *)
SignalEndsProcess == sig ~> main = "exited"

(* A cache that cannot start, or an API server that cannot listen, ends    *)
(* the process instead of leaving a half of it running.                    *)
FatalErrorEndsProcess == (run = "sending" \/ api = "sending") ~> main = "exited"

(* A replica that may run its cache, and whose types can all be listed,    *)
(* turns ready, even when the first discovery finds nothing.               *)
EventuallyReady ==
  (/\ [](~ctxDone /\ pc # "failed")
   /\ <>[](run # "none" /\ watched \subseteq served \cap Listable))
  => <>ready

(* What a client sees of the process: nobody listens, or a listener over a *)
(* cache that Start has not filled, or over one it has.                    *)
Phase ==
  IF main = "exited" \/ api \in {"closed", "sending", "done"} THEN "down"
  ELSE IF api = "starting" THEN "starting"
  ELSE IF ready THEN "ready" ELSE "serving"

Rep == INSTANCE Replica WITH phase <- Phase

(* The process implements Replica: once it answers from a filled cache it  *)
(* does so to its end, also when the lease is lost and while it shuts      *)
(* down, and an API server that has ended never listens again              *)
(* (main.go:110-208, httpapi.go:44-76).                                    *)
ReplicaPhases == Rep!ReplicaSpec

(* "lost leadership, shutting down" (main.go:178): a replica that lost the *)
(* lease ends, so that it restarts as a candidate.                         *)
LostLeadershipEndsProcess == elector = "lost" ~> main = "exited"
=============================================================================
