------------------------------ MODULE LiveClient ------------------------------
(***************************************************************************)
(* The commands that talk to the operator: `plan --live` (with --cloud),   *)
(* `drift` and `status`.  One process: resolveOperatorAddress with its     *)
(* port-forward, Connect with its health check, the manifests, the request,*)
(* the answer.  Pods come and go and move through the phases of Replica.   *)
(***************************************************************************)
CONSTANTS Pod,
          NoPod

VARIABLES podPhase,
          kind,        \* which command
          cpc,         \* where it is
          pod,         \* the pod of the port-forward; NoPod when a service is called
          expired,     \* ctx is done
          answer,      \* what came back on the last request
          printed,     \* what the command made of it
          steady       \* history: the pod was ready when the forward to it was made, and
                       \* has stayed so

clientVars == <<podPhase, kind, cpc, pod, expired, answer, printed, steady>>

P == INSTANCE Replica WITH phase <- "starting"

(* starting, listening with an empty cache, filled, gone                   *)
Listening(p) == podPhase[p] \in {"serving", "ready"}

ClientIdle ==
  /\ podPhase = [p \in Pod |-> "down"]
  /\ kind = "none" /\ cpc = "ended" /\ pod = NoPod /\ expired = FALSE
  /\ answer = "none" /\ printed = "none" /\ steady = FALSE

ClientInit ==
  /\ podPhase \in [Pod -> P!Phases]
  /\ kind \in {"plan", "drift", "status", "cloud"}
  /\ \/ cpc = "pick" /\ pod = NoPod
     \/ cpc = "health" /\ pod \in Pod \cup {NoPod}   \* --operator-address
  /\ expired = FALSE /\ answer = "none" /\ printed = "none"
  /\ steady = (pod # NoPod /\ podPhase[pod] = "ready")

-----------------------------------------------------------------------------
(* External: the pods, and a new process in one that went down.            *)
PodStep(p) ==
  \E next \in P!Later(podPhase[p]) \cup (IF podPhase[p] = "down" THEN {"starting"} ELSE {}) :
    /\ podPhase' = [podPhase EXCEPT ![p] = next]
    /\ steady' = (steady /\ pod # p)
    /\ UNCHANGED <<kind, cpc, pod, expired, answer, printed>>

GoTo(place) == cpc' = place
Keep == UNCHANGED <<podPhase, kind, pod, expired, answer, printed, steady>>

Fail == GoTo("ended") /\ Keep

(* The list is limited to one pod: whichever the API server names first,   *)
(* in whatever phase.                                                      *)
PickPod(p) ==
  /\ cpc = "pick" /\ ~expired
  /\ pod' = p /\ GoTo("forward")
  /\ steady' = (podPhase[p] = "ready")
  /\ UNCHANGED <<podPhase, kind, expired, answer, printed>>

(* No pod, or no answer of the API server before the context ends.         *)
PickFails == cpc = "pick" /\ Fail

(* The select: readyChan when the stream to the pod is open, errChan, or   *)
(* ctx.Done.  The stream needs a running pod, not one that listens.        *)
ForwardReady == cpc = "forward" /\ podPhase[pod] # "down" /\ GoTo("health") /\ Keep
ForwardFails == cpc = "forward" /\ podPhase[pod] = "down" /\ Fail
ForwardExpires == cpc = "forward" /\ expired /\ Fail

-----------------------------------------------------------------------------
(* Requests.  An address given by hand leads to one pod, ready or not, if  *)
(* it is that of a forward made by hand; a service only passes requests on *)
(* to ready pods (external).                                               *)
Answering == IF pod = NoPod THEN {p \in Pod : podPhase[p] = "ready"} ELSE {p \in {pod} : Listening(p)}

Waiting == cpc \in {"health", "health2", "request"}

(* Connect's Health, for a plan a second one, the manifests, the request.  *)
After(place) ==
  CASE place = "health" -> IF kind = "plan" THEN "health2" ELSE "read"
    [] place = "health2" -> "read"
    [] OTHER -> "answered"

Answered ==
  /\ Waiting /\ ~expired
  /\ \E p \in Answering :
       answer' \in {IF podPhase[p] = "ready" THEN "full" ELSE "empty", "refused"}
  /\ GoTo(IF answer' = "refused" /\ cpc # "request" THEN "ended" ELSE After(cpc))
  /\ UNCHANGED <<podPhase, kind, pod, expired, printed, steady>>

(* Mutant: Connect waits until the operator can be reached.                *)
TimesOutOnceConnected == Waiting /\ cpc # "health" /\ Fail

(* Nobody listens, the client's Timeout or the health check's own is over, *)
(* or the context is.                                                      *)
TimesOut == Waiting /\ Fail

(* status sends no manifests.                                              *)
ReadManifests == cpc = "read" /\ GoTo("request") /\ Keep
ReadFails == cpc = "read" /\ kind # "status" /\ Fail

(* Mutant: the status code is not looked at; the error body, a JSON object *)
(* without the fields of a plan, is one without changes.                   *)
DecodedAnyStatus == IF answer = "refused" THEN "empty" ELSE answer

(* get and post: an answer of 400 and above is an error.                   *)
Decoded == IF answer = "refused" THEN "error" ELSE answer

(* A live cloud plan of no resources ends at once.                         *)
UseAnswer ==
  /\ cpc = "answered"
  /\ printed' = IF kind = "cloud" /\ Decoded = "empty" THEN "none" ELSE Decoded
  /\ GoTo(IF kind = "cloud" /\ Decoded = "full" THEN "tofu" ELSE "ended")
  /\ UNCHANGED <<podPhase, kind, pod, expired, answer, steady>>

(* The tool runs without the context: nothing limits it.                   *)
TofuEnds == cpc = "tofu" /\ GoTo("ended") /\ Keep

Expire ==
  /\ cpc # "ended" /\ ~expired /\ expired' = TRUE
  /\ UNCHANGED <<podPhase, kind, cpc, pod, answer, printed, steady>>

ClientStep ==
  \/ \E p \in Pod : PickPod(p)
  \/ PickFails
  \/ ForwardReady \/ ForwardFails \/ ForwardExpires
  \/ Answered \/ TimesOut
  \/ ReadManifests \/ ReadFails
  \/ UseAnswer

ClientNext ==
  \/ ClientStep
  \/ TofuEnds
  \/ Expire
  \/ kind # "none" /\ \E p \in Pod : PodStep(p)

ClientSpec == ClientInit /\ [][ClientNext]_clientVars

(* The command's own steps and its timers; nothing is assumed about pods,  *)
(* or about the tool.                                                      *)
ClientFairness ==
  /\ WF_clientVars(ClientStep)
  /\ WF_clientVars(Expire)

-----------------------------------------------------------------------------
(* Every live command comes to an end, whatever the operator does: each    *)
(* step that waits has a limit (live.go:34, 174, 218, client.go:46-57).    *)
(* Not so a live cloud plan once it runs the tool (tofu.go:105).           *)
LiveCommandEnds == kind # "cloud" ~> cpc = "ended"

(* The health checks pass while a pod still fills its cache, and an empty  *)
(* answer is printed like a plan without changes.  That happens only over  *)
(* a forward, the command's own or one made by hand, to a pod that was not *)
(* ready when the forward was made or has not stayed so; what a service or *)
(* a steady pod answers is full or an error, and a live cloud plan never   *)
(* prints an empty one (portforward.go:46-57, client.go:150-209).          *)
ReadyPodAnswersFully ==
  cpc = "ended" /\ printed = "empty" => pod \in Pod /\ ~steady /\ kind # "cloud"
=============================================================================
