------------------------------ MODULE AtomicPlan ------------------------------
(***************************************************************************)
(* What a plan or drift request promises, whatever else goes on: it is     *)
(* answered as if the whole comparison had been made at one moment between *)
(* question and answer, on the contents the mirror had at that moment, and *)
(* the answer is the complete difference between the two sides.            *)
(***************************************************************************)
EXTENDS Rendering

CONSTANT Request

VARIABLE call   \* call[r]: where request r is, and what has come of it

atomicVars == <<mirrorVars, call>>

Call(state, kind, proposed, result, response) ==
  [state |-> state, kind |-> kind, proposed |-> proposed,
   result |-> result, response |-> response]

NoCall == Call("none", "plan", Empty, {}, {})

(* The difference between two rendered sets, all at once.                  *)
Difference(base, target) ==
  UNION {{[key |-> k, action |-> a] : a \in DiffOf(base, target, k)}
           : k \in DOMAIN base \cup DOMAIN target}

AtomicInit == MirrorInit /\ call = [r \in Request |-> NoCall]

Ask(r) ==
  /\ call[r].state = "none"
  /\ \E kind \in {"plan", "drift"}, proposed \in Proposals :
       call' = [call EXCEPT ![r] = Call("asked", kind, proposed, {}, {})]
  /\ UNCHANGED mirrorVars

(* What may come of comparing the two sides, with compositions so chosen.  *)
Outcomes(kind, proposed, comp, liveComp) ==
  LET live == LiveSide(kind, proposed) IN
  IF RenderFails(proposed, comp) \/ RenderFails(live, liveComp)
    THEN {Call("failed", kind, proposed, {}, {})}
    ELSE {Call("evaluated", kind, proposed, Difference(base, target), {})
            : base \in Renderings(live, liveComp), target \in Renderings(proposed, comp)}

(* The one moment: both sides are rendered and compared.                   *)
Evaluate(r) ==
  /\ call[r].state = "asked"
  /\ \E comp \in Choices(call[r].proposed),
        liveComp \in Choices(LiveSide(call[r].kind, call[r].proposed)) :
       \E outcome \in Outcomes(call[r].kind, call[r].proposed, comp, liveComp) :
         call' = [call EXCEPT ![r] = outcome]
  /\ UNCHANGED mirrorVars

AnswerCall(r) ==
  /\ call[r].state = "evaluated"
  /\ call' = [call EXCEPT ![r] = Call("answered", call[r].kind, call[r].proposed,
                                      call[r].result, call[r].result)]
  /\ UNCHANGED mirrorVars

EndCall(r) ==
  /\ call[r].state \in {"answered", "failed"}
  /\ call' = [call EXCEPT ![r] = NoCall]
  /\ UNCHANGED mirrorVars

AtomicNext ==
  \/ MirrorNext /\ UNCHANGED call
  \/ \E r \in Request : Ask(r) \/ Evaluate(r) \/ AnswerCall(r) \/ EndCall(r)

AtomicSpec == AtomicInit /\ [][AtomicNext]_atomicVars
=============================================================================
