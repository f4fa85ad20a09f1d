-------------------------- MODULE ResourceWalkProofs --------------------------
(***************************************************************************)
(* Theorems about the composition walks, for every set of objects, every   *)
(* graph of references (with circles too), every limit, and a map that     *)
(* changes between any two lookups.  The invariant places each active call:*)
(* the n-th one is at the end of a real path of n objects.                 *)
(***************************************************************************)
EXTENDS ComposedChanges, MirrorProofs, SequenceTheorems, Induction

CallType == [path : Seq(Object), entered : BOOLEAN, left : Seq(Object)]

(* b is what some content that a has had refers to.                        *)
Refers(a, b) == \E k \in Had(a) : \E j \in 1 .. Len(Refs[a][k]) : Refs[a][k][j] = b

RealPath(q) == \A i \in 1 .. Len(q) - 1 : Refers(q[i], q[i + 1])

(* The n-th active call: n objects deep, not beyond the limit once it has  *)
(* read its object, and with references left that its object had.          *)
Placed(c, n) ==
  /\ c \in CallType /\ Len(c.path) = n /\ RealPath(c.path)
  /\ c.entered => n <= Limit + 1
  /\ c.entered => \A j \in 1 .. Len(c.left) : Refers(c.path[n], c.left[j])

StackOK(s) ==
  /\ s \in Seq(CallType)
  /\ \A i \in 1 .. Len(s) : Placed(s[i], i) /\ (i < Len(s) => s[i].entered)

Entry(f) ==
  /\ f[1] \in Seq(Object) /\ Len(f[1]) >= 2 /\ Len(f[1]) <= Limit + 2 /\ RealPath(f[1])
  /\ f[2] \in Revision \cup {0}
  /\ mode = "collect" =>
       f[1][Len(f[1])] \in ManagedGroup /\ f[2] \in Revision /\ f[2] \in Had(f[1][Len(f[1])])

PhaseOK ==
  /\ pc \in {"idle", "claim", "xr", "walk", "done"} /\ mode \in {"collect", "tree"}
  /\ proposed \in Object /\ owned \in Object
  /\ pc # "walk" => stack = << >>
  /\ pc \in {"idle", "claim", "xr"} => found = {}

WalkInv ==
  /\ MirrorInv
  /\ PhaseOK
  /\ StackOK(stack)
  /\ \A f \in found : Entry(f)

-----------------------------------------------------------------------------
(* Stacks.                                                                 *)

LEMMA FrontLast ==
  ASSUME NEW S, NEW s \in Seq(S), s # << >>
  PROVE  /\ Front(s) \in Seq(S) /\ Len(Front(s)) = Len(s) - 1 /\ Len(s) \in Nat \ {0}
         /\ \A i \in 1 .. Len(s) - 1 : Front(s)[i] = s[i]
         /\ Last(s) = s[Len(s)] /\ Last(s) \in S
<1>1. Len(s) \in Nat \ {0} /\ \A i \in 1 .. Len(s) : s[i] \in S
  OBVIOUS
<1> DEFINE n == Len(s) - 1
<1>2. n \in Nat /\ \A i \in 1 .. n : i \in 1 .. Len(s)
  BY <1>1
<1>3. \A i \in 1 .. n : s[i] \in S
  BY <1>1, <1>2
<1> HIDE DEF n
<1>4. /\ SubSeq(s, 1, n) \in Seq(S)
      /\ Len(SubSeq(s, 1, n)) = IF 1 <= n THEN n - 1 + 1 ELSE 0
      /\ \A i \in 1 .. n - 1 + 1 : SubSeq(s, 1, n)[i] = s[1 + i - 1]
  BY <1>2, <1>3, SubSeqProperties
<1>5. Len(SubSeq(s, 1, n)) = n
  BY <1>2, <1>4
<1>6. \A i \in 1 .. n : SubSeq(s, 1, n)[i] = s[i]
  BY <1>2, <1>4
<1>7. QED
  BY <1>1, <1>4, <1>5, <1>6 DEF Front, Last, n

LEMMA Pop ==
  ASSUME NEW s, StackOK(s), s # << >>
  PROVE  StackOK(Front(s))
BY FrontLast DEF StackOK

LEMMA PushOne ==
  ASSUME NEW s, StackOK(s), \A i \in 1 .. Len(s) : s[i].entered,
         NEW c, Placed(c, Len(s) + 1)
  PROVE  StackOK(Append(s, c))
<1>1. c \in CallType /\ s \in Seq(CallType)
  BY DEF Placed, StackOK
<1>2. /\ Append(s, c) \in Seq(CallType) /\ Len(Append(s, c)) = Len(s) + 1 /\ Len(s) \in Nat
      /\ \A i \in 1 .. Len(s) : Append(s, c)[i] = s[i]
      /\ Append(s, c)[Len(s) + 1] = c
  BY <1>1
<1>3. \A i \in 1 .. Len(s) : Placed(s[i], i)
  BY DEF StackOK
<1>4. ASSUME NEW i \in 1 .. Len(s) + 1
      PROVE  Placed(Append(s, c)[i], i) /\ (i < Len(s) + 1 => Append(s, c)[i].entered)
  <2>1. CASE i = Len(s) + 1
    BY <1>2, <2>1
  <2>2. CASE i # Len(s) + 1
    <3>1. i \in 1 .. Len(s)
      BY <1>2, <2>2
    <3>2. QED
      BY <1>2, <1>3, <3>1
  <2>3. QED
    BY <2>1, <2>2
<1>5. QED
  BY <1>2, <1>4 DEF StackOK

LEMMA CallerEntered ==
  ASSUME NEW s, StackOK(s), s # << >>
  PROVE  /\ StackOK(Front(s)) /\ Len(Front(s)) = Len(s) - 1 /\ Len(s) \in Nat \ {0}
         /\ \A i \in 1 .. Len(Front(s)) : Front(s)[i].entered
         /\ Placed(Last(s), Len(s)) /\ Last(s) \in CallType
BY Pop, FrontLast DEF StackOK

-----------------------------------------------------------------------------
LEMMA WalkInitInv == Init => WalkInv
<1> SUFFICES ASSUME Init PROVE WalkInv
  OBVIOUS
<1>1. MirrorInv
  BY MirrorInvInit DEF Init
<1>2. PhaseOK
  BY DEF Init, PhaseOK
<1>3. StackOK(stack) /\ \A f \in found : Entry(f)
  BY DEF Init, StackOK
<1>4. QED
  BY <1>1, <1>2, <1>3 DEF WalkInv

(* Steps that leave the cluster alone keep a stack and an answer sound.    *)
LEMMA SameWorld ==
  ASSUME UNCHANGED <<mirrorVars, mode>>, StackOK(stack')
  PROVE  StackOK(stack)'
BY DEF mirrorVars, StackOK, Placed, RealPath, Refers, Had, Limit

LEMMA SameEntries ==
  ASSUME UNCHANGED <<mirrorVars, mode>>, \A f \in found' : Entry(f)
  PROVE  \A f \in found' : Entry(f)'
BY DEF mirrorVars, Entry, RealPath, Refers, Had, Limit

LEMMA SameMirror ==
  ASSUME MirrorInv, UNCHANGED mirrorVars
  PROVE  MirrorInv'
BY MirrorInvNext

LEMMA WalkStepKeeps ==
  ASSUME WalkInv, UNCHANGED <<mirrorVars, mode>>, PhaseOK', StackOK(stack'),
         \A f \in found' : Entry(f)
  PROVE  WalkInv'
BY SameWorld, SameEntries, SameMirror DEF WalkInv

(* The map moves: what was real stays real.                                *)
LEMMA MirrorKeeps ==
  ASSUME WalkInv, Mirror
  PROVE  WalkInv'
<1>1. MirrorInv' /\ \A o \in Object : Had(o) \subseteq Had(o)'
  BY MirrorInvNext, HadGrows DEF WalkInv, Mirror
<1>2. UNCHANGED <<pc, mode, proposed, owned, stack, found>>
  BY DEF Mirror, walkVars
<1>3. \A a \in Object, b \in Object : Refers(a, b) => Refers(a, b)'
  BY <1>1 DEF Refers
<1>4. ASSUME NEW q \in Seq(Object), RealPath(q)
      PROVE  RealPath(q)'
  BY <1>3, <1>4 DEF RealPath
<1>5. ASSUME NEW c, NEW n \in Nat \ {0}, Placed(c, n)
      PROVE  Placed(c, n)'
  <2>1. c \in CallType /\ Len(c.path) = n /\ RealPath(c.path)'
    BY <1>4, <1>5 DEF Placed, CallType
  <2>2. c.entered => \A j \in 1 .. Len(c.left) : Refers(c.path[n], c.left[j])'
    BY <1>3, <1>5, <2>1 DEF Placed, CallType
  <2>3. QED
    BY <1>2, <1>5, <2>1, <2>2 DEF Placed, Limit
<1>6. StackOK(stack)'
  BY <1>2, <1>5 DEF WalkInv, StackOK
<1>7. ASSUME NEW f, Entry(f)
      PROVE  Entry(f)'
  <2>1. RealPath(f[1])'
    BY <1>4, <1>7 DEF Entry
  <2>2. f[1][Len(f[1])] \in Object
    BY <1>7 DEF Entry
  <2>3. QED
    BY <1>1, <1>2, <1>7, <2>1, <2>2 DEF Entry, Limit
<1>8. QED
  BY <1>1, <1>2, <1>6, <1>7 DEF WalkInv, PhaseOK

-----------------------------------------------------------------------------
(* The walk's own steps.                                                   *)

LEMMA StartStep ==
  ASSUME WalkInv, NEW root \in Object, pc' = "walk", stack' = << Call(<<root>>) >>,
         UNCHANGED <<mirrorVars, mode, proposed, found>>, owned' \in Object
  PROVE  WalkInv'
<1>1. Call(<<root>>) \in CallType /\ ~Call(<<root>>).entered /\ Call(<<root>>).path = <<root>>
  BY DEF Call, CallType
<1>2. Placed(Call(<<root>>), 1)
  BY <1>1 DEF Placed, RealPath
<1>3. StackOK(stack')
  BY <1>1, <1>2 DEF StackOK
<1>4. PhaseOK'
  BY DEF WalkInv, PhaseOK
<1>5. QED
  BY <1>3, <1>4, WalkStepKeeps DEF WalkInv

LEMMA FindClaimStep ==
  ASSUME WalkInv, FindClaim
  PROVE  WalkInv'
<1>1. CASE proposed \in Claim /\ cache[proposed] # 0 /\ Refs[proposed][cache[proposed]] # << >>
  <2>1. /\ owned' = Head(Refs[proposed][cache[proposed]]) /\ pc' = "xr"
        /\ pc = "claim" /\ UNCHANGED <<mirrorVars, mode, proposed, stack, found>>
    BY <1>1 DEF FindClaim
  <2>2. Refs[proposed][cache[proposed]] \in Seq(Object)
    BY <1>1, EntryIsReal, ObjectAssumption DEF WalkInv, PhaseOK, Revision
  <2>3. owned' \in Object
    BY <1>1, <2>1, <2>2, HeadTailProperties
  <2>4. PhaseOK'
    BY <2>1, <2>3 DEF WalkInv, PhaseOK
  <2>5. QED
    BY <2>1, <2>4, WalkStepKeeps DEF WalkInv
<1>2. CASE ~(proposed \in Claim /\ cache[proposed] # 0 /\ Refs[proposed][cache[proposed]] # << >>)
  BY <1>2, StartStep DEF FindClaim, StartWalk, WalkInv, PhaseOK
<1>3. QED
  BY <1>1, <1>2

LEMMA FindOwnedXRStep ==
  ASSUME WalkInv, FindOwnedXR
  PROVE  WalkInv'
BY StartStep DEF FindOwnedXR, StartWalk, WalkInv, PhaseOK

(* Steps that end a call, or the whole tree.                               *)
LEMMA ReturnStep ==
  ASSUME WalkInv, pc = "walk", stack # << >>, stack' \in {Caller, << >>},
         UNCHANGED <<mirrorVars, pc, mode, proposed, owned, found>>
  PROVE  WalkInv'
<1>1. StackOK(<< >>) /\ StackOK(Front(stack))
  BY Pop DEF WalkInv, StackOK
<1>2. StackOK(stack')
  BY <1>1 DEF Caller
<1>3. PhaseOK'
  BY DEF WalkInv, PhaseOK
<1>4. QED
  BY <1>2, <1>3, WalkStepKeeps DEF WalkInv

LEMMA EnterStep ==
  ASSUME WalkInv, Enter
  PROVE  WalkInv'
<1> DEFINE o == Last(Top.path)
           n == Len(stack)
           refs == IF o \in Claim THEN << >> ELSE Refs[o][cache[o]]
           opened == [Top EXCEPT !.entered = TRUE, !.left = refs]
<1>1. pc = "walk" /\ stack # << >> /\ UNCHANGED <<mirrorVars, pc, mode, proposed, owned, found>>
  BY DEF Enter
<1>2. CASE TooDeep(Top) \/ cache[o] = 0
  BY <1>1, <1>2, ReturnStep DEF Enter
<1>3. CASE ~(TooDeep(Top) \/ cache[o] = 0)
  <2>1. stack' = Append(Caller, opened)
    BY <1>3 DEF Enter
  <2>2. /\ StackOK(Caller) /\ Len(Caller) = n - 1 /\ n \in Nat \ {0}
        /\ \A i \in 1 .. Len(Caller) : Caller[i].entered
        /\ Placed(Top, n) /\ Top \in CallType
    BY <1>1, CallerEntered DEF WalkInv, Caller, Top
  <2>3. o \in Object /\ o = Top.path[n] /\ Len(Top.path) = n
    BY <2>2 DEF Placed, CallType, Last
  <2>4. cache[o] \in Had(o) /\ cache[o] \in Revision
    BY <1>3, <2>3, EntryIsReal DEF WalkInv, Revision
  <2>5. refs \in Seq(Object) /\ \A j \in 1 .. Len(refs) : Refers(o, refs[j])
    <3>1. Refs[o][cache[o]] \in Seq(Object)
      BY <2>3, <2>4, ObjectAssumption
    <3>2. QED
      BY <2>4, <3>1 DEF Refers
  <2>6. n <= Limit + 1
    BY <1>3, <2>2, <2>3, DepthAssumption DEF TooDeep, Depth, Limit
  <2> HIDE DEF refs, o
  <2>7. /\ opened \in CallType /\ opened.path = Top.path /\ opened.entered
        /\ opened.left = refs
    BY <2>2, <2>5 DEF CallType
  <2> HIDE DEF opened
  <2>8. \A j \in 1 .. Len(opened.left) : Refers(opened.path[n], opened.left[j])
    BY <2>3, <2>5, <2>7
  <2>9. Placed(opened, n)
    BY <2>2, <2>3, <2>6, <2>7, <2>8 DEF Placed
  <2>10. StackOK(Append(Caller, opened))
    <3>1. n = Len(Caller) + 1
      BY <2>2
    <3>2. QED
      BY <2>2, <2>9, <3>1, PushOne
  <2>11. PhaseOK'
    BY <1>1 DEF WalkInv, PhaseOK
  <2>12. QED
    BY <1>1, <2>1, <2>10, <2>11, WalkStepKeeps DEF WalkInv
<1>4. QED
  BY <1>2, <1>3

LEMMA NextRefStep ==
  ASSUME WalkInv, NextRef
  PROVE  WalkInv'
<1> DEFINE child == Head(Top.left)
           path == Append(Top.path, child)
           rest == [Top EXCEPT !.left = Tail(@)]
           n == Len(stack)
           value == IF LiveRef(child) THEN cache[child] ELSE 0
<1>1. /\ pc = "walk" /\ stack # << >> /\ Top.entered /\ Top.left # << >>
      /\ UNCHANGED <<mirrorVars, pc, mode, proposed, owned>>
  BY DEF NextRef
<1>2. /\ found' = IF mode = "tree" \/ Collected(child) THEN found \cup {<<path, value>>}
                  ELSE found
      /\ stack' \in {Append(Caller, rest), Append(Append(Caller, rest), Call(path))}
  BY DEF NextRef, SkipMissing
<1>3. /\ StackOK(Caller) /\ Len(Caller) = n - 1 /\ n \in Nat \ {0}
      /\ \A i \in 1 .. Len(Caller) : Caller[i].entered
      /\ Placed(Top, n) /\ Top \in CallType
  BY <1>1, CallerEntered DEF WalkInv, Caller, Top
<1>4. /\ Top.left \in Seq(Object) /\ Top.path \in Seq(Object) /\ Len(Top.path) = n
      /\ n <= Limit + 1 /\ RealPath(Top.path)
      /\ \A j \in 1 .. Len(Top.left) : Refers(Top.path[n], Top.left[j])
  BY <1>1, <1>3 DEF Placed, CallType
<1>5. /\ child \in Object /\ child = Top.left[1] /\ Tail(Top.left) \in Seq(Object)
      /\ Len(Tail(Top.left)) = Len(Top.left) - 1 /\ Len(Top.left) \in Nat \ {0}
      /\ \A j \in 1 .. Len(Top.left) - 1 : Tail(Top.left)[j] = Top.left[j + 1]
  BY <1>1, <1>4, HeadTailProperties
<1>6. Refers(Top.path[n], child)
  BY <1>4, <1>5
<1>7. /\ path \in Seq(Object) /\ Len(path) = n + 1 /\ path[n + 1] = child
      /\ \A i \in 1 .. n : path[i] = Top.path[i]
  BY <1>3, <1>4, <1>5
<1>8. RealPath(path)
  <2> SUFFICES ASSUME NEW i \in 1 .. n PROVE Refers(path[i], path[i + 1])
    BY <1>7, <1>3 DEF RealPath
  <2>1. CASE i = n
    BY <1>6, <1>7, <2>1
  <2>2. CASE i # n
    <3>1. i \in 1 .. n - 1 /\ i + 1 \in 1 .. n
      BY <1>3, <2>2
    <3>2. QED
      BY <1>4, <1>7, <3>1 DEF RealPath
  <2>3. QED
    BY <2>1, <2>2
<1>9. /\ rest \in CallType /\ rest.path = Top.path /\ rest.entered
      /\ rest.left = Tail(Top.left)
  BY <1>1, <1>3, <1>5 DEF CallType
<1> HIDE DEF child, path, rest, value
<1>10. Placed(rest, n)
  <2>1. \A j \in 1 .. Len(rest.left) : Refers(rest.path[n], rest.left[j])
    <3> SUFFICES ASSUME NEW j \in 1 .. Len(Top.left) - 1
                 PROVE  Refers(Top.path[n], Tail(Top.left)[j])
      BY <1>5, <1>9
    <3>1. j + 1 \in 1 .. Len(Top.left) /\ Tail(Top.left)[j] = Top.left[j + 1]
      BY <1>5
    <3>2. QED
      BY <1>4, <3>1
  <2>2. QED
    BY <1>4, <1>9, <2>1 DEF Placed
<1>11. /\ StackOK(Append(Caller, rest)) /\ Len(Append(Caller, rest)) = n
       /\ \A i \in 1 .. n : Append(Caller, rest)[i].entered
  <2>1. n = Len(Caller) + 1 /\ Caller \in Seq(CallType)
    BY <1>3 DEF StackOK
  <2>2. StackOK(Append(Caller, rest))
    BY <1>3, <1>10, <2>1, PushOne
  <2>3. /\ Len(Append(Caller, rest)) = n /\ Append(Caller, rest)[n] = rest
        /\ \A i \in 1 .. Len(Caller) : Append(Caller, rest)[i] = Caller[i]
    BY <1>3, <1>9, <2>1
  <2>4. QED
    BY <1>3, <1>9, <2>1, <2>2, <2>3
<1>12. Placed(Call(path), n + 1)
  BY <1>7, <1>8, <1>3 DEF Placed, Call, CallType
<1>13. StackOK(Append(Append(Caller, rest), Call(path)))
  BY <1>11, <1>12, PushOne
<1>14. Entry(<<path, value>>) \/ ~(mode = "tree" \/ Collected(child))
  <2>1. value \in Revision \cup {0}
    BY <1>5, EntryIsReal DEF WalkInv, Revision, value
  <2>2. mode = "collect" /\ Collected(child) =>
          child \in ManagedGroup /\ value \in Revision /\ value \in Had(child)
    BY <1>5, EntryIsReal DEF WalkInv, Revision, Collected, LiveRef, value
  <2>3. Len(path) >= 2 /\ Len(path) <= Limit + 2 /\ path[Len(path)] = child
    BY <1>3, <1>4, <1>7, DepthAssumption DEF Limit
  <2>4. <<path, value>>[1] = path /\ <<path, value>>[2] = value
    OBVIOUS
  <2>5. mode = "collect" => mode # "tree"
    OBVIOUS
  <2>6. QED
    BY <1>7, <1>8, <2>1, <2>2, <2>3, <2>4, <2>5 DEF Entry
<1>15. PhaseOK'
  BY <1>1 DEF WalkInv, PhaseOK
<1>16. \A f \in found' : Entry(f)
  BY <1>2, <1>14 DEF WalkInv
<1>17. StackOK(stack')
  BY <1>2, <1>11, <1>13
<1>18. QED
  BY <1>1, <1>15, <1>16, <1>17, WalkStepKeeps

LEMMA OtherSteps ==
  ASSUME WalkInv, Begin \/ Answer \/ Reset
  PROVE  WalkInv'
<1>1. stack = << >> /\ stack' = << >> /\ UNCHANGED mirrorVars
  BY DEF Begin, Answer, Reset, WalkInv, PhaseOK
<1>2. PhaseOK'
  BY DEF Begin, Answer, Reset, WalkInv, PhaseOK
<1>3. StackOK(stack)'
  BY <1>1 DEF StackOK
<1>4. MirrorInv'
  BY <1>1, SameMirror DEF WalkInv
<1>5. CASE Begin \/ Reset
  <2>1. found' = {}
    BY <1>5 DEF Begin, Reset, WalkInv, PhaseOK
  <2>2. QED
    BY <1>2, <1>3, <1>4, <2>1 DEF WalkInv
<1>6. CASE Answer
  <2>1. UNCHANGED <<mirrorVars, mode, found>>
    BY <1>6 DEF Answer
  <2>2. \A f \in found' : Entry(f)'
    BY <2>1, SameEntries DEF WalkInv
  <2>3. QED
    BY <1>2, <1>3, <1>4, <2>2 DEF WalkInv
<1>7. QED
  BY <1>5, <1>6

LEMMA WalkNextInv == WalkInv /\ [Next]_vars => WalkInv'
<1> SUFFICES ASSUME WalkInv, [Next]_vars PROVE WalkInv'
  OBVIOUS
<1>1. CASE Begin \/ Answer \/ Reset
  BY <1>1, OtherSteps
<1>2. CASE Mirror
  BY <1>2, MirrorKeeps
<1>3. CASE FindClaim \/ FindOwnedXR \/ Enter \/ NextRef
  BY <1>3, FindClaimStep, FindOwnedXRStep, EnterStep, NextRefStep
<1>4. CASE NoComposition
  <2>1. stack # << >>
    BY <1>4 DEF NoComposition
  <2>2. QED
    BY <1>4, <2>1, ReturnStep DEF NoComposition
<1>5. CASE ReturnCall
  BY <1>5, ReturnStep DEF ReturnCall
<1>6. CASE UNCHANGED vars
  BY <1>6, WalkStepKeeps DEF vars, walkVars, WalkInv, PhaseOK
<1>7. QED
  BY <1>1, <1>2, <1>3, <1>4, <1>5, <1>6 DEF Next

LEMMA WalkInvariance == Spec => []WalkInv
BY WalkInitInv, WalkNextInv, PTL DEF Spec

-----------------------------------------------------------------------------
(* The type invariant of the walk.                                         *)
THEOREM WalkTypeCorrect == Spec => []TypeOK
<1>1. WalkInv => TypeOK
  <2> SUFFICES ASSUME WalkInv PROVE TypeOK
    OBVIOUS
  <2>1. ASSUME NEW i \in 1 .. Len(stack)
        PROVE  /\ stack[i].path \in Seq(Object) /\ Len(stack[i].path) >= 1
               /\ stack[i].entered \in BOOLEAN /\ stack[i].left \in Seq(Object)
    BY DEF WalkInv, StackOK, Placed, CallType
  <2>2. ASSUME NEW f \in found
        PROVE  /\ f[1] \in Seq(Object)
               /\ f[2] \in IF mode = "collect" THEN Revision ELSE Revision \cup {0}
    BY DEF WalkInv, Entry
  <2>3. QED
    BY <2>1, <2>2 DEF WalkInv, PhaseOK, TypeOK
<1>2. QED
  BY <1>1, WalkInvariance, PTL

(* However the objects refer to each other, in circles too, and however    *)
(* they change during the walk, the recursion stays within its limit       *)
(* (compose.go:380-418, 448-503).                                          *)
THEOREM RecursionIsBounded == Spec => []WalkIsBounded
<1>1. WalkInv => WalkIsBounded
  <2> SUFFICES ASSUME WalkInv PROVE WalkIsBounded
    OBVIOUS
  <2>1. Limit \in Nat /\ Len(stack) \in Nat /\ stack \in Seq(CallType)
    BY DepthAssumption DEF Limit, WalkInv, StackOK
  <2>2. \A i \in 1 .. Len(stack) : Placed(stack[i], i) /\ (i < Len(stack) => stack[i].entered)
    BY DEF WalkInv, StackOK
  <2>3. Len(stack) <= Limit + 2
    <3>1. CASE Len(stack) <= 1
      BY <2>1, <3>1
    <3>2. CASE Len(stack) > 1
      <4>1. Len(stack) - 1 \in 1 .. Len(stack) /\ Len(stack) - 1 < Len(stack)
        BY <2>1, <3>2
      <4>2. Len(stack) - 1 <= Limit + 1
        BY <2>2, <4>1 DEF Placed
      <4>3. QED
        BY <2>1, <4>2
    <3>3. QED
      BY <2>1, <3>1, <3>2
  <2>4. \A i \in 1 .. Len(stack) : Depth(stack[i]) = i - 1
    BY <2>2 DEF Placed, Depth
  <2>5. \A f \in found : Len(f[1]) <= Limit + 2
    BY DEF WalkInv, Entry
  <2>6. QED
    BY <2>3, <2>4, <2>5 DEF WalkIsBounded
<1>2. QED
  BY <1>1, WalkInvariance, PTL

(* What a walk answers is really there: every step of a path is a reference*)
(* its object has had, every collected resource a content it has had,      *)
(* although each is read at another time (compose.go:380-418, 448-503).    *)
THEOREM AnswersAreReal == Spec => []NothingInvented
<1>1. WalkInv => NothingInvented
  <2> SUFFICES ASSUME WalkInv, NEW f \in found
               PROVE  /\ \A i \in 1 .. Len(f[1]) - 1 : Refers(f[1][i], f[1][i + 1])
                      /\ mode = "collect" =>
                           Last(f[1]) \in ManagedGroup /\ f[2] \in Had(Last(f[1]))
    BY DEF NothingInvented, Refers, Had
  <2>1. Entry(f)
    BY DEF WalkInv
  <2>2. QED
    BY <2>1 DEF Entry, RealPath, Last
<1>2. QED
  BY <1>1, WalkInvariance, PTL

-----------------------------------------------------------------------------
(* Stable chains are collected.  A chain is awaited while the call for its *)
(* i-th object has not read it yet, or has the next one among the          *)
(* references left; every step hands the chain on to the next call, until  *)
(* its last object is in the answer.                                       *)

StablePath(p) ==
  /\ p \in Seq(Object) /\ Len(p) >= 1 /\ p[1] = Root /\ Stable(Root)
  /\ \A i \in 1 .. Len(p) - 1 : p[i + 1] \in StableRefs(p[i]) \cap ClusterScoped
  /\ \A i \in 2 .. Len(p) - 1 : p[i] \notin ManagedGroup

LeafPath(p) ==
  StablePath(p) /\ Len(p) >= 2 /\ Len(p) <= CollectDepth + 2 /\ p[Len(p)] \in ManagedGroup

Awaits(s, i, p) ==
  /\ i \in 1 .. Len(s) /\ i < Len(p) /\ s[i].path[i] = p[i]
  /\ s[i].entered => \E j \in 1 .. Len(s[i].left) : s[i].left[j] = p[i + 1]

Gathered(fs, r) == \E f \in fs : f[1][Len(f[1])] = r

RootIsChosen ==
  pc = "xr" /\ proposed \notin touched =>
    proposed \in Claim /\ cache[proposed] # 0 /\ Refs[proposed][cache[proposed]] # << >>

Untouched == {proposed, owned} \cap touched = {}

Complete(s, fs) ==
  \A p : LeafPath(p) => Gathered(fs, p[Len(p)]) \/ \E i \in 1 .. Len(s) : Awaits(s, i, p)

ChainInv ==
  /\ RootIsChosen
  /\ pc \in {"walk", "done"} /\ mode = "collect" /\ Untouched => Complete(stack, found)

(* The objects on a stable path have a content and are no claims, those    *)
(* before the last.                                                        *)
LEMMA OnStablePath ==
  ASSUME NEW p, StablePath(p), NEW i \in 1 .. Len(p)
  PROVE  /\ p[i] \in Object /\ Stable(p[i])
         /\ i < Len(p) => /\ p[i] \notin Claim /\ LiveRef(p[i + 1])
                          /\ p[i + 1] \in ToSet(Refs[p[i]][cache[p[i]]])
<1>1. p[i] \in Object
  BY DEF StablePath
<1>2. ASSUME NEW j \in 1 .. Len(p) - 1
      PROVE  /\ p[j] \notin Claim /\ p[j + 1] \in ToSet(Refs[p[j]][cache[p[j]]])
             /\ Stable(p[j + 1]) /\ LiveRef(p[j + 1])
  <2>1. p[j + 1] \in StableRefs(p[j]) \cap ClusterScoped
    BY DEF StablePath
  <2>2. QED
    BY <2>1 DEF StableRefs, Stable, LiveRef
<1>3. Stable(p[i])
  <2>1. CASE i = 1
    BY <2>1 DEF StablePath
  <2>2. CASE i # 1
    <3>1. i - 1 \in 1 .. Len(p) - 1 /\ (i - 1) + 1 = i
      BY <2>2 DEF StablePath
    <3>2. QED
      BY <1>2, <3>1
  <2>3. QED
    BY <2>1, <2>2
<1>4. i < Len(p) => i \in 1 .. Len(p) - 1
  BY DEF StablePath
<1>5. QED
  BY <1>1, <1>2, <1>3, <1>4

(* The paths depend on the map, the walk's root and what changed.          *)
LEMMA SamePaths ==
  ASSUME UNCHANGED <<mirrorVars, proposed, owned, touched>>
  PROVE  /\ \A p : LeafPath(p)' <=> LeafPath(p)
         /\ Untouched' <=> Untouched
BY DEF mirrorVars, LeafPath, StablePath, StableRefs, Stable, Root, LiveRef, Untouched

(* A call that stays as it is goes on awaiting what it awaited.            *)
LEMMA StillAwaits ==
  ASSUME NEW s, NEW t, NEW i \in 1 .. Len(s), NEW p, Awaits(s, i, p),
         i \in 1 .. Len(t), t[i] = s[i]
  PROVE  Awaits(t, i, p)
BY DEF Awaits

(* The first object of every path is awaited when the walk starts.         *)
LEMMA StartAwaits ==
  ASSUME WalkInv, ChainInv, FindClaim \/ FindOwnedXR
  PROVE  ChainInv'
<1>1. UNCHANGED <<mirrorVars, mode, proposed, found, touched>>
  BY DEF FindClaim, FindOwnedXR
<1>2. ASSUME pc' = "walk", Untouched'
      PROVE  Root' \in Object /\ stack' = << Call(<<Root'>>) >>
  <2>1. CASE FindClaim
    <3>1. /\ ~(proposed \in Claim /\ cache[proposed] # 0 /\ Refs[proposed][cache[proposed]] # << >>)
          /\ stack' = << Call(<<proposed>>) >> /\ UNCHANGED owned
      BY <1>2, <2>1 DEF FindClaim, StartWalk
    <3>2. Root' = proposed
      BY <1>1, <3>1 DEF Root, mirrorVars
    <3>3. QED
      BY <3>1, <3>2 DEF WalkInv, PhaseOK
  <2>2. CASE FindOwnedXR
    <3>1. pc = "xr" /\ UNCHANGED owned /\ proposed \notin touched
      BY <1>1, <1>2, <2>2 DEF FindOwnedXR, Untouched
    <3>2. Root' = IF LiveRef(owned) THEN owned ELSE proposed
      BY <1>1, <3>1 DEF ChainInv, RootIsChosen, Root, LiveRef, mirrorVars
    <3>3. QED
      BY <2>2, <3>2 DEF FindOwnedXR, StartWalk, WalkInv, PhaseOK
  <2>3. QED
    BY <2>1, <2>2
<1>3. RootIsChosen'
  BY <1>1 DEF FindClaim, FindOwnedXR, StartWalk, RootIsChosen, mirrorVars
<1>4. ASSUME pc' = "walk", Untouched', NEW p, LeafPath(p)'
      PROVE  Awaits(stack', 1, p)
  <2>1. stack' = << Call(<<Root'>>) >> /\ p[1] = Root' /\ Len(p) >= 2
    BY <1>2, <1>4 DEF LeafPath, StablePath
  <2>2. Len(stack') = 1 /\ stack'[1] = Call(<<Root'>>)
    BY <2>1
  <2>3. ~stack'[1].entered /\ stack'[1].path = <<Root'>>
    BY <2>2 DEF Call
  <2>4. 1 < Len(p)
    BY <1>4 DEF LeafPath, StablePath
  <2>5. QED
    BY <2>1, <2>2, <2>3, <2>4 DEF Awaits
<1>5. pc' \in {"xr", "walk"}
  BY DEF FindClaim, FindOwnedXR, StartWalk
<1>6. ASSUME pc' = "walk", Untouched' PROVE Complete(stack, found)'
  <2>1. Len(stack') = 1
    BY <1>2, <1>6
  <2>2. QED
    BY <1>4, <1>6, <2>1 DEF Complete, Awaits
<1>7. QED
  BY <1>3, <1>5, <1>6 DEF ChainInv

(* The steps of the walk: it is enough that every path awaited before is   *)
(* awaited after, or has its end in the answer.                            *)
LEMMA HandOn ==
  ASSUME ChainInv, pc = "walk", UNCHANGED <<mirrorVars, pc, mode, proposed, owned, touched>>,
         found \subseteq found',
         mode = "collect" =>
           \A p : LeafPath(p) => \A i \in 1 .. Len(stack) : Awaits(stack, i, p) =>
              Gathered(found', p[Len(p)]) \/ \E k \in 1 .. Len(stack') : Awaits(stack', k, p)
  PROVE  ChainInv'
<1>1. \A p : LeafPath(p)' <=> LeafPath(p)
  BY SamePaths
<1>2. Untouched' <=> Untouched
  BY SamePaths
<1>3. RootIsChosen'
  BY DEF RootIsChosen
<1>4. ASSUME mode = "collect", Complete(stack, found), NEW p, LeafPath(p)'
      PROVE  Gathered(found', p[Len(p)]) \/ \E k \in 1 .. Len(stack') : Awaits(stack', k, p)
  <2>1. LeafPath(p)
    BY <1>1, <1>4
  <2>2. Gathered(found, p[Len(p)]) => Gathered(found', p[Len(p)])
    BY DEF Gathered
  <2>3. QED
    BY <1>4, <2>1, <2>2 DEF Complete
<1>5. mode = "collect" /\ Complete(stack, found) => Complete(stack, found)'
  BY <1>4 DEF Complete, Gathered, Awaits
<1>6. QED
  BY <1>2, <1>3, <1>5 DEF ChainInv

LEMMA EnterHandsOn ==
  ASSUME WalkInv, ChainInv, Enter
  PROVE  ChainInv'
<1> DEFINE o == Last(Top.path)
           n == Len(stack)
           refs == IF o \in Claim THEN << >> ELSE Refs[o][cache[o]]
           opened == [Top EXCEPT !.entered = TRUE, !.left = refs]
<1>1. /\ pc = "walk" /\ stack # << >> /\ ~Top.entered
      /\ UNCHANGED <<mirrorVars, pc, mode, proposed, owned, found, touched>>
  BY DEF Enter
<1>2. /\ StackOK(Caller) /\ Len(Caller) = n - 1 /\ n \in Nat \ {0}
      /\ Placed(Top, n) /\ Top \in CallType /\ Top = stack[n]
      /\ \A i \in 1 .. n - 1 : Caller[i] = stack[i]
  BY <1>1, CallerEntered, FrontLast DEF WalkInv, StackOK, Caller, Top
<1>3. o = Top.path[n] /\ Len(Top.path) = n
  BY <1>2 DEF Placed, CallType, Last
<1>4. ASSUME mode = "collect", NEW p, LeafPath(p), NEW i \in 1 .. n, Awaits(stack, i, p)
      PROVE  \E k \in 1 .. Len(stack') : Awaits(stack', k, p)
  <2>1. CASE i < n
    <3>1. i \in 1 .. n - 1 /\ Caller[i] = stack[i] /\ Caller \in Seq(CallType)
      BY <1>2, <2>1 DEF StackOK
    <3>2. stack' = Caller \/ stack' = Append(Caller, opened)
      BY DEF Enter
    <3>3. i \in 1 .. Len(stack') /\ stack'[i] = stack[i]
      <4> HIDE DEF opened
      <4>1. QED
        BY <1>2, <3>1, <3>2
    <3>4. QED
      BY <1>4, <3>3, StillAwaits
  <2>2. CASE i = n
    <3>1. /\ n < Len(p) /\ p[n] = o /\ Len(p) <= CollectDepth + 2 /\ Len(p) \in Nat
          /\ n \in 1 .. Len(p) /\ StablePath(p)
      BY <1>2, <1>3, <1>4, <2>2 DEF Awaits, LeafPath, StablePath
    <3>2. ~TooDeep(Top)
      BY <1>2, <1>3, <1>4, <3>1, DepthAssumption DEF TooDeep, Depth
    <3>3. /\ o \in Object /\ cache[o] # 0 /\ o \notin Claim
          /\ p[n + 1] \in ToSet(Refs[o][cache[o]])
      BY <3>1, OnStablePath DEF Stable
    <3>4. stack' = Append(Caller, opened)
      BY <3>2, <3>3 DEF Enter
    <3>5. opened.path = Top.path /\ opened.entered /\ opened.left = Refs[o][cache[o]]
      BY <1>2, <3>3 DEF CallType
    <3>6. \E j \in 1 .. Len(opened.left) : opened.left[j] = p[n + 1]
      <4>1. Refs[o][cache[o]] \in Seq(Object)
        BY <3>3, EntryIsReal, ObjectAssumption DEF WalkInv, Revision
      <4>2. QED
        BY <3>3, <3>5, <4>1 DEF ToSet
    <3> HIDE DEF opened, o
    <3>7. Len(stack') = n /\ stack'[n] = opened
      BY <1>2, <3>4 DEF StackOK
    <3>8. Awaits(stack', n, p)
      BY <1>2, <1>3, <3>1, <3>5, <3>6, <3>7 DEF Awaits
    <3>9. QED
      BY <1>2, <3>7, <3>8
  <2>3. QED
    BY <1>2, <2>1, <2>2
<1>5. QED
  BY <1>1, <1>4, HandOn

LEMMA NextRefHandsOn ==
  ASSUME WalkInv, ChainInv, NextRef
  PROVE  ChainInv'
<1> DEFINE child == Head(Top.left)
           path == Append(Top.path, child)
           rest == [Top EXCEPT !.left = Tail(@)]
           n == Len(stack)
           value == IF LiveRef(child) THEN cache[child] ELSE 0
<1>1. /\ pc = "walk" /\ stack # << >> /\ Top.entered /\ Top.left # << >>
      /\ UNCHANGED <<mirrorVars, pc, mode, proposed, owned, touched>>
  BY DEF NextRef
<1>2. /\ found' = IF mode = "tree" \/ Collected(child) THEN found \cup {<<path, value>>}
                  ELSE found
      /\ stack' \in {Append(Caller, rest), Append(Append(Caller, rest), Call(path))}
      /\ LiveRef(child) /\ child \notin ManagedGroup =>
           stack' = Append(Append(Caller, rest), Call(path))
  BY DEF NextRef, SkipMissing
<1>3. /\ StackOK(Caller) /\ Caller \in Seq(CallType) /\ Len(Caller) = n - 1 /\ n \in Nat \ {0}
      /\ Placed(Top, n) /\ Top \in CallType /\ Top = stack[n]
      /\ \A i \in 1 .. n - 1 : Caller[i] = stack[i]
  BY <1>1, CallerEntered, FrontLast DEF WalkInv, StackOK, Caller, Top
<1>4. Top.left \in Seq(Object) /\ Top.path \in Seq(Object) /\ Len(Top.path) = n
  BY <1>3 DEF Placed, CallType
<1>5. /\ child \in Object /\ child = Top.left[1]
      /\ Tail(Top.left) \in Seq(Object) /\ Len(Tail(Top.left)) = Len(Top.left) - 1
      /\ Len(Top.left) \in Nat \ {0}
      /\ \A j \in 1 .. Len(Top.left) - 1 : Tail(Top.left)[j] = Top.left[j + 1]
  BY <1>1, <1>4, HeadTailProperties
<1>6. path \in Seq(Object) /\ Len(path) = n + 1 /\ path[n + 1] = child
  BY <1>3, <1>4, <1>5
<1>7. rest \in CallType /\ rest.path = Top.path /\ rest.left = Tail(Top.left)
  BY <1>1, <1>3, <1>5 DEF CallType
<1> HIDE DEF child, path, rest, value
<1>8. /\ Len(stack') \in {n, n + 1} /\ stack'[n] = rest
      /\ \A i \in 1 .. n - 1 : stack'[i] = stack[i]
      /\ LiveRef(child) /\ child \notin ManagedGroup =>
           Len(stack') = n + 1 /\ stack'[n + 1] = Call(path)
  BY <1>2, <1>3
<1>9. ASSUME mode = "collect", NEW p, LeafPath(p), NEW i \in 1 .. n, Awaits(stack, i, p)
      PROVE  Gathered(found', p[Len(p)]) \/ \E k \in 1 .. Len(stack') : Awaits(stack', k, p)
  <2>1. CASE i < n
    <3>1. i \in 1 .. Len(stack') /\ stack'[i] = stack[i]
      BY <1>3, <1>8, <2>1
    <3>2. QED
      BY <1>9, <3>1, StillAwaits
  <2>2. CASE i = n
    <3>1. /\ n < Len(p) /\ p[n] = Top.path[n] /\ Len(p) \in Nat /\ StablePath(p)
          /\ n \in 1 .. Len(p) /\ p[Len(p)] \in ManagedGroup
      BY <1>3, <1>9, <2>2 DEF Awaits, LeafPath, StablePath
    <3>2. PICK j \in 1 .. Len(Top.left) : Top.left[j] = p[n + 1]
      BY <1>1, <1>3, <1>9, <2>2 DEF Awaits
    <3>3. CASE j # 1
      <4>1. j - 1 \in 1 .. Len(rest.left) /\ rest.left[j - 1] = p[n + 1]
        <5>1. j \in Nat /\ j - 1 \in 1 .. Len(Top.left) - 1 /\ (j - 1) + 1 = j
          BY <1>5, <3>3
        <5>2. Tail(Top.left)[j - 1] = Top.left[j]
          BY <1>5, <5>1
        <5>3. QED
          BY <1>5, <1>7, <3>2, <5>1, <5>2
      <4>2. n \in 1 .. Len(stack') /\ stack'[n].path = Top.path /\ stack'[n].left = rest.left
        BY <1>3, <1>7, <1>8
      <4>3. Awaits(stack', n, p)
        BY <3>1, <4>1, <4>2 DEF Awaits
      <4>4. QED
        BY <4>2, <4>3
    <3>4. CASE j = 1
      <4>1. child = p[n + 1] /\ LiveRef(child)
        BY <1>5, <3>1, <3>2, <3>4, OnStablePath
      <4>2. CASE child \in ManagedGroup
        <5>1. n + 1 = Len(p)
          BY <1>3, <3>1, <4>1, <4>2 DEF StablePath
        <5>2. <<path, value>> \in found'
          BY <1>2, <4>1, <4>2 DEF Collected
        <5>3. <<path, value>>[1] = path
          OBVIOUS
        <5>4. QED
          BY <1>6, <4>1, <5>1, <5>2, <5>3 DEF Gathered
      <4>3. CASE child \notin ManagedGroup
        <5>1. n + 1 < Len(p)
          BY <3>1, <4>1, <4>3
        <5>2. Len(stack') = n + 1 /\ stack'[n + 1] = Call(path)
          BY <1>8, <4>1, <4>3
        <5>3. ~stack'[n + 1].entered /\ stack'[n + 1].path[n + 1] = p[n + 1]
          BY <1>6, <4>1, <5>2 DEF Call
        <5>4. Awaits(stack', n + 1, p)
          BY <1>3, <5>1, <5>2, <5>3 DEF Awaits
        <5>5. QED
          BY <1>3, <5>2, <5>4
      <4>4. QED
        BY <4>2, <4>3
    <3>5. QED
      BY <3>3, <3>4
  <2>3. QED
    BY <1>3, <2>1, <2>2
<1>10. found \subseteq found'
  BY <1>2
<1>11. QED
  BY <1>1, <1>9, <1>10, HandOn

LEMMA ReturnHandsOn ==
  ASSUME WalkInv, ChainInv, ReturnCall \/ NoComposition
  PROVE  ChainInv'
<1>1. /\ pc = "walk"
      /\ UNCHANGED <<mirrorVars, pc, mode, proposed, owned, found, touched>>
  BY DEF ReturnCall, NoComposition
<1>2. CASE ReturnCall
  <2> DEFINE n == Len(stack)
  <2>1. stack # << >> /\ Top.entered /\ Top.left = << >> /\ stack' = Caller
    BY <1>2 DEF ReturnCall
  <2>2. /\ Len(Caller) = n - 1 /\ n \in Nat \ {0} /\ Top = stack[n]
        /\ \A i \in 1 .. n - 1 : Caller[i] = stack[i]
    BY <2>1, FrontLast DEF WalkInv, StackOK, Caller, Top
  <2>3. ASSUME NEW p, LeafPath(p), NEW i \in 1 .. n, Awaits(stack, i, p)
        PROVE  \E k \in 1 .. Len(stack') : Awaits(stack', k, p)
    <3>1. i # n
      BY <2>1, <2>2, <2>3 DEF Awaits
    <3>2. i \in 1 .. Len(stack') /\ stack'[i] = stack[i]
      BY <2>1, <2>2, <3>1
    <3>3. QED
      BY <2>3, <3>2, StillAwaits
  <2>4. QED
    BY <1>1, <2>3, HandOn
<1>3. CASE NoComposition
  <2>1. mode # "collect"
    BY <1>3 DEF NoComposition
  <2>2. QED
    BY <1>1, <2>1, HandOn
<1>4. QED
  BY <1>2, <1>3

(* The map moves: a path that is stable after the step was stable before,  *)
(* with the same root.                                                     *)
LEMMA MirrorHandsOn ==
  ASSUME WalkInv, ChainInv, Mirror
  PROVE  ChainInv'
<1>1. UNCHANGED <<pc, mode, proposed, owned, stack, found>> /\ proposed \in Object /\ owned \in Object
  BY DEF Mirror, walkVars, WalkInv, PhaseOK
<1>2. ASSUME pc # "idle"
      PROVE  /\ touched \subseteq touched'
             /\ \A o \in Object : o \notin touched' => cache'[o] = cache[o]
  BY <1>2 DEF Mirror
<1>3. RootIsChosen'
  BY <1>1, <1>2 DEF ChainInv, RootIsChosen
<1>4. ASSUME pc \in {"walk", "done"}, Untouched'
      PROVE  Untouched /\ Root' = Root
  BY <1>1, <1>2, <1>4 DEF Untouched, Root, LiveRef
<1>5. ASSUME pc \in {"walk", "done"}, Untouched', NEW p, LeafPath(p)'
      PROVE  LeafPath(p)
  <2>1. \A o \in Object : Stable(o)' => Stable(o) /\ cache'[o] = cache[o]
    BY <1>2, <1>5 DEF Stable
  <2>2. p \in Seq(Object) /\ p[1] = Root /\ Len(p) >= 2 /\ Root \in Object
    BY <1>1, <1>4, <1>5 DEF LeafPath, StablePath, Root
  <2>3. \A i \in 1 .. Len(p) : p[i] \in Object /\ Stable(p[i])'
    <3>1. ASSUME NEW i \in 1 .. Len(p) PROVE p[i] \in Object /\ Stable(p[i])'
      <4>1. CASE i = 1
        BY <1>4, <1>5, <2>2, <4>1 DEF LeafPath, StablePath
      <4>2. CASE i # 1
        <5>1. i - 1 \in 1 .. Len(p) - 1 /\ (i - 1) + 1 = i
          BY <2>2, <4>2
        <5>2. p[i] \in StableRefs(p[i - 1])'
          BY <1>5, <5>1 DEF LeafPath, StablePath
        <5>3. QED
          BY <2>2, <5>2 DEF StableRefs
      <4>3. QED
        BY <4>1, <4>2
    <3>2. QED
      BY <3>1
  <2>4. ASSUME NEW i \in 1 .. Len(p) - 1
        PROVE  p[i + 1] \in StableRefs(p[i]) \cap ClusterScoped
    <3>1. p[i + 1] \in StableRefs(p[i])' /\ p[i + 1] \in ClusterScoped
      BY <1>5 DEF LeafPath, StablePath
    <3>2. i \in 1 .. Len(p) /\ i + 1 \in 1 .. Len(p)
      BY <2>2
    <3>3. QED
      BY <2>1, <2>3, <3>1, <3>2 DEF StableRefs
  <2>5. Stable(Root)
    BY <2>1, <2>2, <2>3
  <2>6. QED
    BY <1>5, <2>2, <2>4, <2>5 DEF LeafPath, StablePath
<1>6. ASSUME pc \in {"walk", "done"}, mode = "collect", Untouched'
      PROVE  Complete(stack, found)'
  <2>1. Complete(stack, found)
    BY <1>4, <1>6 DEF ChainInv
  <2>2. QED
    BY <1>1, <1>5, <1>6, <2>1 DEF Complete, Gathered, Awaits
<1>7. QED
  BY <1>1, <1>3, <1>6 DEF ChainInv

LEMMA ChainNext == WalkInv /\ ChainInv /\ [Next]_vars => ChainInv'
<1> SUFFICES ASSUME WalkInv, ChainInv, [Next]_vars PROVE ChainInv'
  OBVIOUS
<1>1. CASE FindClaim \/ FindOwnedXR
  BY <1>1, StartAwaits
<1>2. CASE Enter \/ NextRef
  BY <1>2, EnterHandsOn, NextRefHandsOn
<1>3. CASE ReturnCall \/ NoComposition
  BY <1>3, ReturnHandsOn
<1>4. CASE Mirror
  BY <1>4, MirrorHandsOn
<1>5. CASE Begin \/ Reset
  BY <1>5 DEF Begin, Reset, ChainInv, RootIsChosen
<1>6. CASE Answer \/ UNCHANGED vars
  <2>1. /\ UNCHANGED <<mirrorVars, mode, proposed, owned, touched, stack, found>>
        /\ pc' = pc \/ (pc = "walk" /\ pc' = "done")
    <3>1. CASE Answer
      BY <3>1 DEF Answer
    <3>2. CASE UNCHANGED vars
      BY <3>2 DEF vars, walkVars, mirrorVars
    <3>3. QED
      BY <1>6, <3>1, <3>2
  <2>2. RootIsChosen'
    BY <2>1 DEF ChainInv, RootIsChosen, mirrorVars
  <2>3. Complete(stack, found)' <=> Complete(stack, found)
    BY <2>1, SamePaths DEF Complete, Gathered, Awaits
  <2>4. Untouched' <=> Untouched
    BY <2>1, SamePaths
  <2>5. QED
    BY <2>1, <2>2, <2>3, <2>4 DEF ChainInv
<1>7. QED
  BY <1>1, <1>2, <1>3, <1>4, <1>5, <1>6 DEF Next

(* Every composite n references below the root is at the end of a stable   *)
(* path of n + 1 objects.                                                  *)
LEMMA CompositesHavePaths ==
  ASSUME WalkInv, NEW o \in Composites(Root)
  PROVE  \E p : /\ StablePath(p) /\ Len(p) <= CollectDepth + 1 /\ p[Len(p)] = o
                /\ Len(p) > 1 => o \notin ManagedGroup
<1> DEFINE U == {c \in Object : Stable(c)}
           start == {c \in {Root} : Stable(c)}
           Below(s) == (UNION {StableRefs(c) \ ManagedGroup : c \in s}) \cap ClusterScoped
           F == [s \in SUBSET U |-> Below(s)]
           level == CHOOSE level : level =
             [n \in 0 .. CollectDepth |-> IF n = 0 THEN start ELSE Below(level[n - 1])]
<1>1. Root \in Object /\ start \in SUBSET U
  BY DEF WalkInv, PhaseOK, Root
<1>2. ASSUME NEW c \in U PROVE StableRefs(c) \subseteq U
  <2>1. Refs[c][cache[c]] \in Seq(Object)
    BY <1>2, EntryIsReal, ObjectAssumption DEF WalkInv, Revision, Stable
  <2>2. QED
    BY <2>1 DEF StableRefs, ToSet
<1>3. F \in [SUBSET U -> SUBSET U]
  BY <1>2
<1> HIDE DEF U, F, start
<1>4. PICK g \in [0 .. CollectDepth -> SUBSET U] :
        g = [n \in 0 .. CollectDepth |-> IF n = 0 THEN start ELSE F[g[n - 1]]]
  <2> DEFINE V == SUBSET U
  <2>1. start \in V /\ F \in [V -> V] /\ CollectDepth \in Nat
    BY <1>1, <1>3, DepthAssumption
  <2> HIDE DEF V
  <2>2. \E g \in [0 .. CollectDepth -> V] :
          g = [n \in 0 .. CollectDepth |-> IF n = 0 THEN start ELSE F[g[n - 1]]]
    BY <2>1, BoundedRecursion
  <2>3. QED
    BY <2>2 DEF V
<1>5. g = [n \in 0 .. CollectDepth |-> IF n = 0 THEN start ELSE Below(g[n - 1])]
  <2>1. ASSUME NEW n \in 0 .. CollectDepth, n # 0 PROVE F[g[n - 1]] = Below(g[n - 1])
    <3>1. n - 1 \in 0 .. CollectDepth
      BY <2>1, DepthAssumption
    <3>2. QED
      BY <1>4, <3>1 DEF F
  <2>2. QED
    BY <1>4, <2>1
<1>6. level = [n \in 0 .. CollectDepth |-> IF n = 0 THEN start ELSE Below(level[n - 1])]
  BY <1>5
<1>7. Composites(Root) = UNION {level[n] : n \in 0 .. CollectDepth}
  BY DEF Composites, start
<1> HIDE DEF level
<1> DEFINE Ends(n, c) == \E p : /\ StablePath(p) /\ Len(p) = n + 1 /\ p[n + 1] = c
                                /\ n > 0 => c \notin ManagedGroup
           S == {n \in Nat : n <= CollectDepth => \A c \in level[n] : Ends(n, c)}
<1>8. 0 \in S
  <2>1. ASSUME NEW c \in level[0] PROVE Ends(0, c)
    <3>1. c = Root /\ Stable(Root)
      BY <1>6, <2>1, DepthAssumption DEF start
    <3>2. StablePath(<<Root>>)
      BY <1>1, <3>1 DEF StablePath
    <3>3. Len(<<Root>>) = 0 + 1 /\ <<Root>>[0 + 1] = c
      BY <3>1
    <3>4. QED
      BY <3>2, <3>3
  <2>2. QED
    BY <2>1
<1>9. ASSUME NEW n \in Nat, n \in S PROVE n + 1 \in S
  <2>1. ASSUME n + 1 <= CollectDepth, NEW c \in level[n + 1] PROVE Ends(n + 1, c)
    <3>1. n + 1 \in 0 .. CollectDepth /\ n + 1 # 0 /\ (n + 1) - 1 = n
      BY <1>9, <2>1, DepthAssumption
    <3>2. level[n + 1] = Below(level[n])
      BY <1>6, <3>1
    <3>3. PICK d \in level[n] : c \in StableRefs(d) \ ManagedGroup /\ c \in ClusterScoped
      <4>1. c \in Below(level[n])
        BY <2>1, <3>2
      <4>2. \A s : c \in Below(s) =>
              \E d \in s : c \in StableRefs(d) \ ManagedGroup /\ c \in ClusterScoped
        OBVIOUS
      <4> HIDE DEF Below
      <4>3. QED
        BY <4>1, <4>2
    <3>4. n <= CollectDepth
      BY <2>1, DepthAssumption
    <3>5. PICK p : StablePath(p) /\ Len(p) = n + 1 /\ p[n + 1] = d
                   /\ (n > 0 => d \notin ManagedGroup)
      BY <1>9, <3>3, <3>4
    <3>6. d \in U
      BY <3>5, OnStablePath DEF U
    <3>7. c \in Object
      BY <1>2, <3>3, <3>6 DEF U
    <3> DEFINE q == Append(p, c)
    <3>8. /\ q \in Seq(Object) /\ Len(q) = n + 2 /\ q[n + 2] = c
          /\ \A i \in 1 .. n + 1 : q[i] = p[i]
      BY <3>5, <3>7 DEF StablePath
    <3> HIDE DEF q
    <3>9. ASSUME NEW i \in 1 .. n + 1 PROVE q[i + 1] \in StableRefs(q[i]) \cap ClusterScoped
      <4>1. CASE i = n + 1
        BY <3>3, <3>5, <3>8, <4>1
      <4>2. CASE i # n + 1
        <5>1. i \in 1 .. Len(p) - 1 /\ i + 1 \in 1 .. n + 1
          BY <3>5, <4>2
        <5>2. QED
          BY <3>5, <3>8, <5>1 DEF StablePath
      <4>3. QED
        BY <4>1, <4>2
    <3>10. ASSUME NEW i \in 2 .. n + 1 PROVE q[i] \notin ManagedGroup
      <4>1. CASE i = n + 1
        BY <3>5, <3>8, <4>1
      <4>2. CASE i # n + 1
        <5>1. i \in 2 .. Len(p) - 1 /\ i \in 1 .. n + 1
          BY <3>5, <4>2
        <5>2. QED
          BY <3>5, <3>8, <5>1 DEF StablePath
      <4>3. QED
        BY <4>1, <4>2
    <3>11. q[1] = Root /\ Stable(Root) /\ Len(q) >= 1 /\ Len(q) - 1 = n + 1
      BY <3>5, <3>8 DEF StablePath
    <3>12. StablePath(q)
      BY <3>8, <3>9, <3>10, <3>11 DEF StablePath
    <3>13. Len(q) = (n + 1) + 1 /\ q[(n + 1) + 1] = c
      BY <3>8
    <3>14. QED
      BY <3>3, <3>12, <3>13
  <2>2. QED
    BY <2>1
<1>10. \A n \in Nat : n \in S
  <2> HIDE DEF S
  <2>1. QED
    BY <1>8, <1>9, SetInduction
<1>11. PICK n \in 0 .. CollectDepth : o \in level[n]
  BY <1>7
<1>12. n \in Nat /\ n <= CollectDepth
  BY DepthAssumption
<1>13. Ends(n, o)
  BY <1>10, <1>11, <1>12
<1>14. PICK p : StablePath(p) /\ Len(p) = n + 1 /\ p[n + 1] = o /\ (n > 0 => o \notin ManagedGroup)
  BY <1>13
<1>15. Len(p) <= CollectDepth + 1 /\ p[Len(p)] = o /\ (Len(p) > 1 => o \notin ManagedGroup)
  BY <1>12, <1>14, DepthAssumption
<1>16. QED
  BY <1>14, <1>15

(* When the walk is done, every managed resource at the end of a stable    *)
(* chain is in the answer, however the rest of the map moved meanwhile     *)
(* (compose.go:448-503): each lookup reads one entry, and no call gives up *)
(* on its other references.                                                *)
THEOREM ChainsAreCollected == Spec => []StableChainsAreCollected
<1>1. Init => ChainInv
  BY DEF Init, ChainInv, RootIsChosen
<1>2. WalkInv /\ ChainInv => StableChainsAreCollected
  <2> SUFFICES ASSUME WalkInv, ChainInv, pc = "done", mode = "collect", Untouched,
                      NEW o \in Composites(Root),
                      NEW r \in StableRefs(o) \cap ManagedGroup \cap ClusterScoped
               PROVE  \E f \in found : Last(f[1]) = r
    BY DEF StableChainsAreCollected, Untouched
  <2>1. PICK p : /\ StablePath(p) /\ Len(p) <= CollectDepth + 1 /\ p[Len(p)] = o
                 /\ Len(p) > 1 => o \notin ManagedGroup
    BY CompositesHavePaths
  <2> DEFINE n == Len(p)
             q == Append(p, r)
  <2>2. n \in Nat \ {0} /\ p \in Seq(Object) /\ r \in Object
    BY <2>1, ObjectAssumption DEF StablePath
  <2>3. /\ q \in Seq(Object) /\ Len(q) = n + 1 /\ q[n + 1] = r
        /\ \A i \in 1 .. n : q[i] = p[i]
    BY <2>2
  <2> HIDE DEF q
  <2>4. ASSUME NEW i \in 1 .. n PROVE q[i + 1] \in StableRefs(q[i]) \cap ClusterScoped
    <3>1. CASE i = n
      BY <2>1, <2>3, <3>1
    <3>2. CASE i # n
      <4>1. i \in 1 .. Len(p) - 1 /\ i + 1 \in 1 .. n
        BY <2>2, <3>2
      <4>2. QED
        BY <2>1, <2>3, <4>1 DEF StablePath
    <3>3. QED
      BY <3>1, <3>2
  <2>5. ASSUME NEW i \in 2 .. n PROVE q[i] \notin ManagedGroup
    <3>1. CASE i = n
      BY <2>1, <2>2, <2>3, <3>1
    <3>2. CASE i # n
      <4>1. i \in 2 .. Len(p) - 1 /\ i \in 1 .. n
        BY <2>2, <3>2
      <4>2. QED
        BY <2>1, <2>3, <4>1 DEF StablePath
    <3>3. QED
      BY <3>1, <3>2
  <2>6. q[1] = Root /\ Stable(Root) /\ Len(q) >= 1 /\ Len(q) - 1 = n
    BY <2>1, <2>2, <2>3 DEF StablePath
  <2>7. LeafPath(q)
    <3>1. StablePath(q)
      BY <2>3, <2>4, <2>5, <2>6 DEF StablePath
    <3>2. QED
      BY <2>1, <2>2, <2>3, <3>1, DepthAssumption DEF LeafPath
  <2>8. stack = << >> /\ Complete(stack, found)
    BY DEF WalkInv, PhaseOK, ChainInv
  <2>9. PICK f \in found : f[1][Len(f[1])] = q[Len(q)]
    BY <2>7, <2>8 DEF Complete, Gathered
  <2>10. QED
    BY <2>3, <2>9 DEF Last
<1>3. QED
  BY <1>1, <1>2, ChainNext, WalkInvariance, PTL DEF Spec

(* Tracing the changed fields next to the walk disturbs nothing in it.     *)
THEOREM TracingIsSeparate == ComposedSpec => Spec
<1>1. ComposedInit => Init
  BY DEF ComposedInit
<1>2. [ComposedNext]_composedVars => [Next]_vars
  <2> SUFFICES ASSUME [ComposedNext]_composedVars PROVE [Next]_vars
    OBVIOUS
  <2>1. CASE FindComposition
    BY <2>1 DEF FindComposition, NoComposition, Next
  <2>2. CASE ResetComposed \/ WalkStep
    BY <2>2 DEF ResetComposed, WalkStep, Next
  <2>3. CASE \/ NextTemplate \/ LookUpParent \/ SkipReference \/ OldValue \/ ReportChange
             \/ Descend
    BY <2>3 DEF NextTemplate, LookUpParent, SkipReference, OldValue, ReportChange, Descend, Traces
  <2>4. QED
    BY <2>1, <2>2, <2>3 DEF ComposedNext, composedVars
<1>3. QED
  BY <1>1, <1>2, PTL DEF ComposedSpec, Spec

-----------------------------------------------------------------------------
(* Tracing: what the state of a trace says of the changes it has reported. *)
(* Written(t, paths) is what the patches of a template write from a set of *)
(* changed paths; a trace always knows which changes it follows, and the   *)
(* template at hand has written, or has still to write, just these.        *)

Written(t, paths) == {p.to : p \in Follow(t, paths)}

TraceFields == {"plan", "comp", "depth", "source", "changed", "templates", "matches", "fields",
                "lookup", "descend", "changes"}

Direct(t) == {c \in t.changes : c.depth = 1}

TraceTyped(t) ==
  /\ DOMAIN t = TraceFields /\ DOMAIN t.lookup = {"on", "refs"}
  /\ t.lookup.on \in BOOLEAN /\ t.lookup.refs \in Seq(Object)
  /\ t.depth \in {1, 2} /\ t.source \in Object /\ \A c \in t.changes : c.source \in Object
  /\ t.templates \in Seq(Template) /\ t.descend \in Seq(Direct(t))

Below(t, source, paths) == \E up \in Direct(t) : Denotes(up, source) /\ paths = PathsOf(up)

Sourced(t, root) ==
  /\ t.depth = 1 => t.source = root /\ t.changed = ChangedFields(t.plan, root)
  /\ t.depth = 2 => Below(t, t.source, t.changed)

Reported(t, root, c) ==
  \/ c.depth = 1 /\ c.source = root /\ PathsOf(c) = Written(c.template, ChangedFields(t.plan, root))
  \/ c.depth = 2 /\ \E paths : /\ Below(t, c.source, paths)
                               /\ PathsOf(c) = Written(c.template, paths)

Between(t) == t.matches = {} /\ t.fields = {}

InHand(t) ==
  /\ ~Between(t) =>
       /\ t.templates # << >>
       /\ {m[1] : m \in t.matches} \cup {f.path : f \in t.fields}
            = Written(Head(t.templates), t.changed)
  /\ t.lookup.on => ~Between(t)

Covered(t, root) ==
  \A q \in ToSet(t.comp) : Follow(q, ChangedFields(t.plan, root)) # {} =>
    \/ \E c \in Direct(t) : c.template = q
    \/ t.depth = 1 /\ q \in ToSet(t.templates)

TraceOK(t, root) ==
  /\ TraceTyped(t) /\ Sourced(t, root) /\ InHand(t) /\ Covered(t, root)
  /\ \A c \in t.changes : Reported(t, root, c)

TraceInv ==
  tracing = NoTrace \/ /\ stack = << >> /\ pc \in {"walk", "done"} /\ TraceOK(tracing, proposed)
                       /\ pc = "done" => tracing.templates = << >>

(* A step that keeps what is followed keeps what has been said of it.      *)
Keeps(t, u) ==
  /\ u.plan = t.plan /\ u.comp = t.comp /\ t.changes \subseteq u.changes

LEMMA StillBelow ==
  ASSUME NEW t, NEW u, Keeps(t, u), NEW source, NEW paths, Below(t, source, paths)
  PROVE  Below(u, source, paths)
BY DEF Keeps, Below, Direct

LEMMA StillReported ==
  ASSUME NEW t, NEW u, Keeps(t, u), NEW root, NEW c, Reported(t, root, c)
  PROVE  Reported(u, root, c)
BY StillBelow DEF Keeps, Reported

LEMMA StillSourced ==
  ASSUME NEW t, NEW u, Keeps(t, u), NEW root, Sourced(t, root),
         u.depth = t.depth, u.source = t.source, u.changed = t.changed
  PROVE  Sourced(u, root)
BY StillBelow DEF Keeps, Sourced

(* What the patches match is what follows from the changes.                *)
LEMMA MatchesFollow ==
  ASSUME NEW t, NEW changed
  PROVE  /\ {m[1] : m \in Matches(t, changed)} = Written(t, changed)
         /\ Matches(t, changed) = {} <=> Follow(t, changed) = {}
<1>1. ASSUME NEW p \in Follow(t, changed)
      PROVE  \E m \in Matches(t, changed) : m[1] = p.to
  <2>1. PICK c \in changed : IsPrefix(c, p.from) \/ IsPrefix(p.from, c)
    BY DEF Follow
  <2>2. p \in ToSet(t.patches) /\ <<p.to, c>> \in {<<p.to, d>> : d \in {e \in changed : matchesFieldPath(e, p.from)}}
    BY <2>1 DEF Follow, matchesFieldPath
  <2>3. <<p.to, c>> \in Matches(t, changed)
    BY <2>2 DEF Matches
  <2>4. QED
    BY <2>3
<1>2. ASSUME NEW m \in Matches(t, changed)
      PROVE  \E p \in Follow(t, changed) : m[1] = p.to
  <2>1. PICK p \in ToSet(t.patches) :
          m \in {<<p.to, c>> : c \in {d \in changed : matchesFieldPath(d, p.from)}}
    BY DEF Matches
  <2>2. PICK c \in changed : matchesFieldPath(c, p.from) /\ m = <<p.to, c>>
    BY <2>1
  <2>3. p \in Follow(t, changed)
    BY <2>2 DEF Follow, matchesFieldPath
  <2>4. QED
    BY <2>2, <2>3
<1>3. QED
  BY <1>1, <1>2 DEF Written

(* The templates left after the first.                                     *)
LEMMA TemplatesLeft ==
  ASSUME NEW s \in Seq(Template), s # << >>
  PROVE  /\ Tail(s) \in Seq(Template) /\ Head(s) \in Template
         /\ ToSet(s) = {Head(s)} \cup ToSet(Tail(s))
<1>1. /\ Len(s) \in Nat \ {0} /\ Head(s) = s[1] /\ Tail(s) \in Seq(Template)
      /\ Len(Tail(s)) = Len(s) - 1 /\ \A i \in 1 .. Len(s) - 1 : Tail(s)[i] = s[i + 1]
  BY HeadTailProperties
<1>2. ASSUME NEW i \in 1 .. Len(s) PROVE s[i] \in {Head(s)} \cup ToSet(Tail(s))
  <2>1. CASE i = 1
    BY <1>1, <2>1
  <2>2. CASE i # 1
    <3>1. i - 1 \in 1 .. Len(Tail(s)) /\ Tail(s)[i - 1] = s[i]
      BY <1>1, <2>2
    <3>2. DOMAIN Tail(s) = 1 .. Len(Tail(s))
      BY <1>1
    <3>3. s[i] \in ToSet(Tail(s))
      <4> DEFINE tail == Tail(s)
      <4> HIDE DEF tail
      <4>1. i - 1 \in DOMAIN tail /\ tail[i - 1] = s[i]
        BY <3>1, <3>2 DEF tail
      <4>2. s[i] \in ToSet(tail)
        BY <4>1 DEF ToSet
      <4>3. QED
        BY <4>2 DEF tail
    <3>4. QED
      BY <3>3
  <2>3. QED
    BY <2>1, <2>2
<1>3. ASSUME NEW i \in 1 .. Len(Tail(s)) PROVE Tail(s)[i] \in ToSet(s)
  <2>1. i + 1 \in 1 .. Len(s) /\ Tail(s)[i] = s[i + 1]
    BY <1>1
  <2>2. QED
    BY <2>1 DEF ToSet
<1>4. Head(s) \in ToSet(s)
  BY <1>1 DEF ToSet
<1>5. QED
  BY <1>1, <1>2, <1>3, <1>4 DEF ToSet

LEMMA SeqGrows ==
  ASSUME NEW S, NEW T, S \subseteq T, NEW s \in Seq(S)
  PROVE  s \in Seq(T)
<1>1. Len(s) \in Nat /\ s \in [1 .. Len(s) -> T]
  OBVIOUS
<1>2. QED
  BY <1>1

LEMMA RefsAreObjects ==
  ASSUME WalkInv, NEW s \in Object
  PROVE  RefsOf(s) \in Seq(Object)
BY EntryIsReal, ObjectAssumption DEF WalkInv, RefsOf, Revision

-----------------------------------------------------------------------------
(* The steps of the tracing.                                               *)

LEMMA FindCompositionTraces ==
  ASSUME WalkInv, FindComposition
  PROVE  TraceInv'
<1> DEFINE u == tracing'
<1>1. PICK plan \in Plans, comp \in Compositions :
        u = [TracePipeline(NoTrace, comp, proposed, ChangedFields(plan, proposed), 1)
               EXCEPT !.plan = plan, !.comp = comp]
  BY DEF FindComposition
<1>2. /\ u.plan = plan /\ u.comp = comp /\ u.depth = 1 /\ u.source = proposed
      /\ u.changed = ChangedFields(plan, proposed) /\ u.templates = comp
      /\ u.matches = {} /\ u.fields = {} /\ u.lookup = NoLookup /\ u.descend = << >>
      /\ u.changes = {} /\ DOMAIN u = TraceFields
  BY <1>1 DEF TracePipeline, NoTrace, TraceFields
<1>3. stack' = << >> /\ pc' = "walk" /\ proposed' = proposed /\ proposed \in Object
  BY DEF FindComposition, WalkInv, PhaseOK
<1> HIDE DEF u
<1>4. TraceTyped(u)
  BY <1>2, <1>3, CompositionAssumption DEF TraceTyped, NoLookup, Direct
<1>5. TraceOK(u, proposed)
  BY <1>2, <1>4 DEF TraceOK, Sourced, InHand, Between, Covered, NoLookup
<1>6. QED
  BY <1>3, <1>5 DEF TraceInv, u

(* In the other steps the trace is one already, and a trace stays one.     *)
LEMMA TraceGoesOn ==
  ASSUME TraceInv, NEW t, Traces(t)
  PROVE  /\ TraceOK(tracing, proposed) /\ tracing' = t /\ pc = "walk"
         /\ TraceOK(t, proposed) => TraceInv'
BY DEF TraceInv, Traces, vars, walkVars

LEMMA NextTemplateTraces ==
  ASSUME TraceInv, NextTemplate
  PROVE  TraceInv'
<1> DEFINE t == tracing
           u == tracing'
           new == Matches(Head(t.templates), t.changed)
<1>1. /\ t.templates # << >> /\ t.matches = {} /\ t.fields = {}
      /\ Traces([t EXCEPT !.matches = new,
                   !.templates = IF new = {} THEN Tail(t.templates) ELSE t.templates])
  BY DEF NextTemplate
<1>2. TraceOK(t, proposed) /\ (TraceOK(u, proposed) => TraceInv') /\ DOMAIN t = TraceFields
  BY <1>1, TraceGoesOn DEF TraceOK, TraceTyped
<1> HIDE DEF new
<1>3. /\ u.plan = t.plan /\ u.comp = t.comp /\ u.depth = t.depth /\ u.source = t.source
      /\ u.changed = t.changed /\ u.matches = new /\ u.fields = {}
      /\ u.templates = IF new = {} THEN Tail(t.templates) ELSE t.templates
      /\ u.lookup = t.lookup /\ u.descend = t.descend /\ u.changes = t.changes
      /\ DOMAIN u = TraceFields
  <2> DEFINE left == IF new = {} THEN Tail(t.templates) ELSE t.templates
  <2>1. u = [t EXCEPT !.matches = new, !.templates = left]
    BY <1>1, TraceGoesOn
  <2> HIDE DEF left
  <2>2. u.templates = left /\ u.matches = new
    BY <1>2, <2>1 DEF TraceFields
  <2>3. QED
    BY <1>1, <1>2, <2>1, <2>2 DEF TraceFields, left
<1> HIDE DEF t, u
<1>4. /\ t.templates \in Seq(Template) /\ Tail(t.templates) \in Seq(Template)
      /\ ToSet(t.templates) = {Head(t.templates)} \cup ToSet(Tail(t.templates))
  BY <1>1, <1>2, TemplatesLeft DEF TraceOK, TraceTyped
<1>5. /\ {m[1] : m \in new} = Written(Head(t.templates), t.changed)
      /\ new = {} <=> Follow(Head(t.templates), t.changed) = {}
  BY MatchesFollow DEF new
<1>6. TraceTyped(u)
  BY <1>2, <1>3, <1>4 DEF TraceOK, TraceTyped, Direct
<1>7. Keeps(t, u) /\ Direct(u) = Direct(t)
  BY <1>3 DEF Keeps, Direct
<1>8. Sourced(u, proposed)
  BY <1>2, <1>3, <1>7, StillSourced DEF TraceOK
<1>9. InHand(u)
  <2>1. ~t.lookup.on
    BY <1>1, <1>2 DEF TraceOK, InHand, Between
  <2>2. {m[1] : m \in u.matches} \cup {f.path : f \in u.fields} = {m[1] : m \in new}
    BY <1>3
  <2>3. QED
    BY <1>1, <1>3, <1>5, <2>1, <2>2 DEF InHand, Between
<1>10. Covered(u, proposed)
  <2> SUFFICES ASSUME NEW q \in ToSet(u.comp), Follow(q, ChangedFields(u.plan, proposed)) # {},
                      ~ \E c \in Direct(u) : c.template = q
               PROVE  u.depth = 1 /\ q \in ToSet(u.templates)
    BY DEF Covered
  <2>1. t.depth = 1 /\ q \in ToSet(t.templates)
    BY <1>2, <1>3, <1>7 DEF TraceOK, Covered
  <2>2. t.changed = ChangedFields(t.plan, proposed)
    BY <1>2, <2>1 DEF TraceOK, Sourced
  <2>3. QED
    BY <1>3, <1>4, <1>5, <2>1, <2>2
<1>11. \A c \in u.changes : Reported(u, proposed, c)
  BY <1>2, <1>3, <1>7, StillReported DEF TraceOK
<1>12. QED
  BY <1>2, <1>6, <1>8, <1>9, <1>10, <1>11 DEF TraceOK

(* The steps of one lookup touch nothing else.                             *)
LEMMA LookupTraces ==
  ASSUME WalkInv, TraceInv, LookUpParent \/ SkipReference
  PROVE  TraceInv'
<1> DEFINE t == tracing
           u == tracing'
<1>1. PICK l : /\ DOMAIN l = {"on", "refs"} /\ l.on \in BOOLEAN
               /\ TraceTyped(t) => l.refs \in Seq(Object)
               /\ l.on => t.lookup.on \/ ~Between(t)
               /\ Traces([t EXCEPT !.lookup = l])
  <2>1. TraceTyped(t)
    BY TraceGoesOn DEF LookUpParent, SkipReference, TraceOK
  <2>2. CASE LookUpParent
    <3>1. [on |-> TRUE, refs |-> RefsOf(Parent)].refs \in Seq(Object)
      BY <2>1, RefsAreObjects DEF Parent, TraceTyped
    <3>2. QED
      BY <2>2, <3>1 DEF LookUpParent, Between
  <2>3. CASE SkipReference
    <3> DEFINE l == [t.lookup EXCEPT !.refs = Tail(@)]
    <3>1. t.lookup.refs \in Seq(Object) /\ t.lookup.refs # << >>
      BY <2>1, <2>3 DEF TraceTyped, SkipReference
    <3>2. Tail(t.lookup.refs) \in Seq(Object)
      BY <3>1, HeadTailProperties
    <3>3. /\ DOMAIN l = {"on", "refs"} /\ l.on = t.lookup.on /\ l.refs \in Seq(Object)
      BY <2>1, <3>2 DEF TraceTyped
    <3>4. Traces([t EXCEPT !.lookup = l])
      BY <2>3 DEF SkipReference
    <3>5. QED
      BY <2>1, <3>3, <3>4 DEF TraceTyped
  <2>4. QED
    BY <2>2, <2>3
<1>2. /\ u = [t EXCEPT !.lookup = l] /\ TraceOK(t, proposed)
      /\ TraceOK(u, proposed) => TraceInv'
  BY <1>1, TraceGoesOn
<1>3. /\ u.plan = t.plan /\ u.comp = t.comp /\ u.depth = t.depth /\ u.source = t.source
      /\ u.changed = t.changed /\ u.matches = t.matches /\ u.fields = t.fields
      /\ u.templates = t.templates
      /\ u.lookup = l /\ u.descend = t.descend /\ u.changes = t.changes
      /\ DOMAIN u = TraceFields
  BY <1>2 DEF TraceOK, TraceTyped, TraceFields
<1> HIDE DEF t, u
<1>4. TraceTyped(u) /\ Keeps(t, u) /\ Direct(u) = Direct(t)
  BY <1>1, <1>2, <1>3 DEF TraceOK, TraceTyped, Keeps, Direct
<1>5. Sourced(u, proposed)
  BY <1>2, <1>3, <1>4, StillSourced DEF TraceOK
<1>6. InHand(u) /\ Covered(u, proposed)
  BY <1>1, <1>2, <1>3, <1>4 DEF TraceOK, InHand, Between, Covered
<1>7. \A c \in u.changes : Reported(u, proposed, c)
  BY <1>2, <1>3, <1>4, StillReported DEF TraceOK
<1>8. QED
  BY <1>2, <1>4, <1>5, <1>6, <1>7 DEF TraceOK

LEMMA OldValueTraces ==
  ASSUME TraceInv, OldValue
  PROVE  TraceInv'
<1> DEFINE t == tracing
           u == tracing'
<1>0. PICK match \in t.matches : \E f :
        /\ f.path = match[1]
        /\ Traces([t EXCEPT !.matches = t.matches \ {match}, !.lookup = NoLookup,
                     !.fields = t.fields \cup {f}])
  BY DEF OldValue
<1>1. PICK f :
        /\ f.path = match[1]
        /\ Traces([t EXCEPT !.matches = t.matches \ {match}, !.lookup = NoLookup,
                     !.fields = t.fields \cup {f}])
  BY <1>0
<1>2. TraceOK(t, proposed) /\ (TraceOK(u, proposed) => TraceInv') /\ DOMAIN t = TraceFields
  BY <1>1, TraceGoesOn DEF TraceOK, TraceTyped
<1>3. /\ u.plan = t.plan /\ u.comp = t.comp /\ u.depth = t.depth /\ u.source = t.source
      /\ u.changed = t.changed /\ u.matches = t.matches \ {match} /\ u.fields = t.fields \cup {f}
      /\ u.templates = t.templates
      /\ u.lookup = NoLookup /\ u.descend = t.descend /\ u.changes = t.changes
      /\ DOMAIN u = TraceFields
  <2> DEFINE ms == t.matches \ {match}
             fs == t.fields \cup {f}
  <2>1. u = [t EXCEPT !.matches = ms, !.lookup = NoLookup, !.fields = fs]
    BY <1>1, TraceGoesOn
  <2> HIDE DEF ms, fs
  <2>2. QED
    BY <1>2, <2>1 DEF TraceFields, ms, fs
<1> HIDE DEF t, u
<1>4. TraceTyped(u) /\ Keeps(t, u) /\ Direct(u) = Direct(t)
  BY <1>2, <1>3 DEF TraceOK, TraceTyped, Keeps, Direct, NoLookup
<1>5. Sourced(u, proposed)
  BY <1>2, <1>3, <1>4, StillSourced DEF TraceOK
<1>6. InHand(u)
  <2>1. {m[1] : m \in u.matches} \cup {g.path : g \in u.fields}
          = {m[1] : m \in t.matches} \cup {g.path : g \in t.fields}
    BY <1>1, <1>3
  <2>2. QED
    BY <1>2, <1>3, <2>1 DEF TraceOK, InHand, Between, NoLookup
<1>7. Covered(u, proposed)
  BY <1>2, <1>3, <1>4 DEF TraceOK, Covered
<1>8. \A c \in u.changes : Reported(u, proposed, c)
  BY <1>2, <1>3, <1>4, StillReported DEF TraceOK
<1>9. QED
  BY <1>2, <1>4, <1>5, <1>6, <1>7, <1>8 DEF TraceOK

LEMMA ReportChangeTraces ==
  ASSUME TraceInv, ReportChange
  PROVE  TraceInv'
<1> DEFINE t == tracing
           u == tracing'
           change == [template |-> Head(t.templates), named |-> Found, fields |-> t.fields,
                      source |-> t.source, depth |-> t.depth]
<1>1. /\ t.lookup.on /\ t.matches = {}
      /\ Traces([t EXCEPT !.templates = Tail(t.templates), !.fields = {}, !.lookup = NoLookup,
                   !.changes = t.changes \cup {change},
                   !.descend = IF t.depth = 1 THEN Append(t.descend, change) ELSE t.descend])
  BY DEF ReportChange, LookupEnds
<1>2. TraceOK(t, proposed) /\ (TraceOK(u, proposed) => TraceInv') /\ DOMAIN t = TraceFields
  BY <1>1, TraceGoesOn DEF TraceOK, TraceTyped
<1>3. /\ change.template = Head(t.templates) /\ change.fields = t.fields
      /\ change.source = t.source /\ change.depth = t.depth
  OBVIOUS
<1> HIDE DEF change
<1>4. /\ u.plan = t.plan /\ u.comp = t.comp /\ u.depth = t.depth /\ u.source = t.source
      /\ u.changed = t.changed /\ u.matches = {} /\ u.fields = {}
      /\ u.templates = Tail(t.templates) /\ u.lookup = NoLookup
      /\ u.descend = IF t.depth = 1 THEN Append(t.descend, change) ELSE t.descend
      /\ u.changes = t.changes \cup {change} /\ DOMAIN u = TraceFields
  <2> DEFINE left == Tail(t.templates)
             all == t.changes \cup {change}
             down == IF t.depth = 1 THEN Append(t.descend, change) ELSE t.descend
  <2>1. u = [t EXCEPT !.templates = left, !.fields = {}, !.lookup = NoLookup,
                      !.changes = all, !.descend = down]
    BY <1>1, TraceGoesOn
  <2> HIDE DEF left, all, down
  <2>2. QED
    BY <1>1, <1>2, <2>1 DEF TraceFields, left, all, down
<1> HIDE DEF t, u
<1>5. /\ t.templates # << >> /\ PathsOf(change) = Written(Head(t.templates), t.changed)
  <2>1. ~Between(t) /\ {m[1] : m \in t.matches} = {}
    BY <1>1, <1>2 DEF TraceOK, InHand
  <2>2. PathsOf(change) = {f.path : f \in t.fields}
    BY <1>3 DEF PathsOf
  <2>3. QED
    BY <1>2, <2>1, <2>2 DEF TraceOK, InHand
<1>6. /\ t.templates \in Seq(Template) /\ Tail(t.templates) \in Seq(Template)
      /\ ToSet(t.templates) = {Head(t.templates)} \cup ToSet(Tail(t.templates))
  BY <1>2, <1>5, TemplatesLeft DEF TraceOK, TraceTyped
<1>7. Keeps(t, u) /\ Direct(t) \subseteq Direct(u) /\ (t.depth = 1 => change \in Direct(u))
  BY <1>3, <1>4 DEF Keeps, Direct
<1>8. TraceTyped(u)
  <2>1. t.descend \in Seq(Direct(u))
    BY <1>2, <1>7, SeqGrows DEF TraceOK, TraceTyped
  <2>2. u.descend \in Seq(Direct(u))
    BY <1>4, <1>7, <2>1
  <2>3. QED
    BY <1>2, <1>3, <1>4, <1>6, <2>2 DEF TraceOK, TraceTyped, NoLookup
<1>9. Sourced(u, proposed)
  BY <1>2, <1>4, <1>7, StillSourced DEF TraceOK
<1>10. InHand(u)
  BY <1>4 DEF InHand, Between, NoLookup
<1>11. Covered(u, proposed)
  <2> SUFFICES ASSUME NEW q \in ToSet(u.comp), Follow(q, ChangedFields(u.plan, proposed)) # {},
                      ~ \E c \in Direct(u) : c.template = q
               PROVE  u.depth = 1 /\ q \in ToSet(u.templates)
    BY DEF Covered
  <2>1. t.depth = 1 /\ q \in ToSet(t.templates)
    BY <1>2, <1>4, <1>7 DEF TraceOK, Covered
  <2>2. q # Head(t.templates)
    BY <1>3, <1>7, <2>1
  <2>3. QED
    BY <1>4, <1>6, <2>1, <2>2
<1>12. Reported(u, proposed, change)
  <2>1. CASE t.depth = 1
    BY <1>2, <1>3, <1>4, <1>5, <2>1 DEF TraceOK, Sourced, Reported
  <2>2. CASE t.depth = 2
    <3>1. Below(u, change.source, t.changed)
      BY <1>2, <1>3, <1>7, <2>2, StillBelow DEF TraceOK, Sourced
    <3>2. QED
      BY <1>3, <1>5, <2>2, <3>1 DEF Reported
  <2>3. QED
    BY <1>2, <2>1, <2>2 DEF TraceOK, TraceTyped
<1>13. \A c \in u.changes : Reported(u, proposed, c)
  BY <1>2, <1>4, <1>7, <1>12, StillReported DEF TraceOK
<1>14. QED
  BY <1>2, <1>8, <1>9, <1>10, <1>11, <1>13 DEF TraceOK

LEMMA DescendTraces ==
  ASSUME TraceInv, Descend
  PROVE  TraceInv'
<1> DEFINE t == tracing
           u == tracing'
           change == Head(t.descend)
           rest == [t EXCEPT !.descend = Tail(@)]
<1>1. /\ t.templates = << >> /\ t.descend # << >>
      /\ \/ Traces(rest)
         \/ \E o \in ChildXR(change), comp \in Compositions :
              Traces(TracePipeline(rest, comp, o, {f.path : f \in change.fields}, 2))
  BY DEF Descend, TemplatesDone
<1>2. TraceOK(t, proposed) /\ (TraceOK(u, proposed) => TraceInv')
  BY <1>1, TraceGoesOn
<1>3. Between(t) /\ ~t.lookup.on
  BY <1>1, <1>2 DEF TraceOK, InHand
<1>4. change \in Direct(t) /\ Tail(t.descend) \in Seq(Direct(t))
  BY <1>1, <1>2, HeadTailProperties DEF TraceOK, TraceTyped
<1>5. /\ rest.plan = t.plan /\ rest.comp = t.comp /\ rest.depth = t.depth
      /\ rest.source = t.source /\ rest.changed = t.changed /\ rest.matches = {}
      /\ rest.fields = {} /\ rest.templates = << >> /\ rest.lookup = t.lookup
      /\ rest.descend = Tail(t.descend) /\ rest.changes = t.changes /\ DOMAIN rest = TraceFields
  BY <1>1, <1>2, <1>3 DEF TraceOK, TraceTyped, TraceFields, Between
<1> HIDE DEF change, rest
<1>6. /\ u.plan = t.plan /\ u.comp = t.comp /\ u.matches = {} /\ u.fields = {}
      /\ u.lookup = t.lookup /\ u.descend = Tail(t.descend) /\ u.changes = t.changes
      /\ DOMAIN u = TraceFields
      /\ \/ /\ u.depth = t.depth /\ u.source = t.source /\ u.changed = t.changed
            /\ u.templates = << >>
         \/ /\ u.depth = 2 /\ u.source \in ChildXR(change) /\ u.changed = PathsOf(change)
            /\ u.templates \in Compositions
  <2>1. CASE Traces(rest)
    BY <1>5, <2>1, TraceGoesOn
  <2>2. ASSUME NEW o \in ChildXR(change), NEW comp \in Compositions,
               Traces(TracePipeline(rest, comp, o, {f.path : f \in change.fields}, 2))
        PROVE  <1>6
    <3>1. u = TracePipeline(rest, comp, o, PathsOf(change), 2)
      BY <2>2, TraceGoesOn DEF PathsOf
    <3>2. QED
      BY <1>5, <3>1 DEF TracePipeline, TraceFields
  <2>3. QED
    BY <1>1, <2>1, <2>2
<1> HIDE DEF t, u
<1>7. Keeps(t, u) /\ Direct(u) = Direct(t)
  BY <1>6 DEF Keeps, Direct
<1>8. u.source \in ChildXR(change) => u.source \in Object /\ Denotes(change, u.source)
  BY DEF ChildXR
<1>9. TraceTyped(u)
  BY <1>1, <1>2, <1>4, <1>6, <1>7, <1>8, CompositionAssumption DEF TraceOK, TraceTyped
<1>10. Sourced(u, proposed)
  <2>1. CASE u.depth = t.depth /\ u.source = t.source /\ u.changed = t.changed
    BY <1>2, <1>7, <2>1, StillSourced DEF TraceOK
  <2>2. CASE u.depth = 2 /\ u.source \in ChildXR(change) /\ u.changed = PathsOf(change)
    BY <1>4, <1>7, <1>8, <2>2 DEF Sourced, Below
  <2>3. QED
    BY <1>6, <2>1, <2>2
<1>11. InHand(u)
  BY <1>3, <1>6 DEF InHand, Between
<1>12. Covered(u, proposed)
  <2>1. ToSet(t.templates) = {}
    BY <1>1 DEF ToSet
  <2>2. QED
    BY <1>2, <1>6, <1>7, <2>1 DEF TraceOK, Covered
<1>13. \A c \in u.changes : Reported(u, proposed, c)
  BY <1>2, <1>6, <1>7, StillReported DEF TraceOK
<1>14. QED
  BY <1>2, <1>9, <1>10, <1>11, <1>12, <1>13 DEF TraceOK

(* The steps of the walk leave a trace alone: there is none in Begin, and  *)
(* while there is one the stack is empty.                                  *)
LEMMA WalkStepTraces ==
  ASSUME WalkInv, TraceInv, WalkStep
  PROVE  TraceInv'
<1>1. tracing' = tracing
  BY DEF WalkStep
<1>2. CASE tracing = NoTrace
  BY <1>1, <1>2 DEF TraceInv
<1>3. CASE tracing # NoTrace
  <2>1. stack = << >> /\ pc \in {"walk", "done"} /\ TraceOK(tracing, proposed)
        /\ (pc = "done" => tracing.templates = << >>)
    BY <1>3 DEF TraceInv
  <2>2. (TraceDone /\ Answer) \/ Mirror
    BY <2>1 DEF WalkStep, Begin, FindClaim, FindOwnedXR, Enter, NoComposition, NextRef, ReturnCall
  <2>3. CASE TraceDone /\ Answer
    BY <1>1, <2>1, <2>3 DEF TraceDone, TemplatesDone, Answer, TraceInv
  <2>4. CASE Mirror
    BY <1>1, <2>1, <2>4 DEF Mirror, walkVars, TraceInv
  <2>5. QED
    BY <2>2, <2>3, <2>4
<1>4. QED
  BY <1>2, <1>3

LEMMA TraceNext == WalkInv /\ TraceInv /\ [ComposedNext]_composedVars => TraceInv'
<1> SUFFICES ASSUME WalkInv, TraceInv, [ComposedNext]_composedVars PROVE TraceInv'
  OBVIOUS
<1>1. CASE ResetComposed
  BY <1>1 DEF ResetComposed, TraceInv
<1>2. CASE UNCHANGED composedVars
  BY <1>2 DEF composedVars, vars, walkVars, TraceInv
<1>3. QED
  BY <1>1, <1>2, FindCompositionTraces, NextTemplateTraces, LookupTraces, OldValueTraces,
     ReportChangeTraces, DescendTraces, WalkStepTraces DEF ComposedNext

LEMMA TraceInvariance == ComposedSpec => [](WalkInv /\ TraceInv)
<1>1. ComposedInit => TraceInv
  BY DEF ComposedInit, TraceInv
<1>2. QED
  BY <1>1, TraceNext, TracingIsSeparate, WalkInvariance, PTL DEF ComposedSpec

(* The patches write from more when they read more.                        *)
LEMMA WrittenFrom ==
  ASSUME NEW t, NEW plan, NEW root
  PROVE  /\ root \in Object => Updated(plan, root) \subseteq ChangedFields(plan, root)
         /\ \A path \in Written(t, ChangedFields(plan, root)) :
              \E o \in Namesakes(root) : path \in Written(t, Updated(plan, o))
<1>1. ASSUME root \in Object PROVE Updated(plan, root) \subseteq ChangedFields(plan, root)
  BY <1>1 DEF ChangedFields, Namesakes
<1>2. ASSUME NEW path \in Written(t, ChangedFields(plan, root))
      PROVE  \E o \in Namesakes(root) : path \in Written(t, Updated(plan, o))
  <2>1. PICK p \in Follow(t, ChangedFields(plan, root)) : path = p.to
    BY DEF Written
  <2>2. PICK c \in ChangedFields(plan, root) : IsPrefix(c, p.from) \/ IsPrefix(p.from, c)
    BY DEF Follow
  <2>3. PICK o \in Namesakes(root) : c \in Updated(plan, o)
    BY DEF ChangedFields
  <2>4. p \in Follow(t, Updated(plan, o))
    BY <2>2, <2>3 DEF Follow
  <2>5. QED
    BY <2>1, <2>4 DEF Written
<1>3. QED
  BY <1>1, <1>2

LEMMA FollowGrows ==
  ASSUME NEW t, NEW small, NEW large, small \subseteq large
  PROVE  Follow(t, small) \subseteq Follow(t, large)
BY DEF Follow

(* What is predicted is what the patches make of the plan's changes: every *)
(* field that is written, from the proposed resource and from a composite  *)
(* reported there; beyond these only what follows from the fields of a     *)
(* resource with its kind and name; and nothing else, whatever the map     *)
(* does meanwhile (server.go:188-203; compose.go:82-105, 254-328).         *)
THEOREM PredictionsFollowPatches == ComposedSpec => []ChangesFollowPatches
<1>1. WalkInv /\ TraceInv => ChangesFollowPatches
  <2> DEFINE plan == tracing.plan
             own == Updated(plan, proposed)
             all == ChangedFields(plan, proposed)
  <2> SUFFICES ASSUME WalkInv, TraceInv, pc = "done", tracing # NoTrace
               PROVE  /\ \A c \in At(1) :
                           /\ c.source = proposed
                           /\ Written(c.template, own) \subseteq PathsOf(c)
                           /\ \A path \in PathsOf(c) : \E o \in Object :
                                /\ KindOf[o] = KindOf[proposed] /\ NameOf[o] = NameOf[proposed]
                                /\ \E p \in Follow(c.template, Updated(plan, o)) : p.to = path
                      /\ \A c \in At(2) : \E up \in At(1) :
                           /\ Denotes(up, c.source)
                           /\ PathsOf(c) = Written(c.template, PathsOf(up))
                      /\ \A t \in ToSet(tracing.comp) :
                           Follow(t, own) # {} => \E c \in At(1) : c.template = t
    BY DEF ChangesFollowPatches, Written
  <2>1. TraceOK(tracing, proposed) /\ tracing.templates = << >> /\ At(1) = Direct(tracing)
        /\ proposed \in Object
    BY DEF TraceInv, At, Direct, WalkInv, PhaseOK
  <2>2. \A c \in tracing.changes : Reported(tracing, proposed, c)
    BY <2>1 DEF TraceOK
  <2>3. \A c \in At(1) : c.source = proposed /\ PathsOf(c) = Written(c.template, all)
    BY <2>2 DEF At, Reported
  <2>4. ASSUME NEW c \in At(2)
        PROVE  \E up \in At(1) : Denotes(up, c.source) /\ PathsOf(c) = Written(c.template, PathsOf(up))
    BY <2>1, <2>2 DEF At, Reported, Below
  <2>5. own \subseteq all
    BY <2>1, WrittenFrom
  <2>6. \A t : Follow(t, own) \subseteq Follow(t, all)
    BY <2>5, FollowGrows
  <2>7. \A c \in At(1) : Written(c.template, own) \subseteq PathsOf(c)
    BY <2>3, <2>6 DEF Written
  <2>8. ASSUME NEW c \in At(1), NEW path \in PathsOf(c)
        PROVE  \E o \in Object :
                 /\ KindOf[o] = KindOf[proposed] /\ NameOf[o] = NameOf[proposed]
                 /\ \E p \in Follow(c.template, Updated(plan, o)) : p.to = path
    <3>1. PICK o \in Namesakes(proposed) : path \in Written(c.template, Updated(plan, o))
      BY <2>3, <2>8, WrittenFrom
    <3>2. QED
      BY <3>1 DEF Namesakes, Written
  <2>9. ToSet(tracing.templates) = {}
    BY <2>1 DEF ToSet
  <2>10. \A t \in ToSet(tracing.comp) :
           Follow(t, all) # {} => \E c \in At(1) : c.template = t
    BY <2>1, <2>9 DEF TraceOK, Covered
  <2>11. QED
    BY <2>3, <2>4, <2>6, <2>7, <2>8, <2>10
<1>2. QED
  BY <1>1, TraceInvariance, PTL

-----------------------------------------------------------------------------
(* Names.  What a lookup looks for is the first reference of the parent    *)
(* that it would stop at; while neither the parent nor its candidates      *)
(* change this is one resource, and it is what every lookup of a template  *)
(* finds.                                                                  *)

First(refs, template, o) ==
  \/ o = None /\ \A i \in 1 .. Len(refs) : ~Hits(refs[i], template)
  \/ \E i \in 1 .. Len(refs) : /\ refs[i] = o /\ Hits(refs[i], template)
                               /\ \A j \in 1 .. i - 1 : ~Hits(refs[j], template)

WellNamed(s, template, o) == First(RefsOf(s), template, o)

CandidatesOf(s, template) == {o \in ToSet(RefsOf(s)) : RefersTo(o, template)}

Quiet(s, template) == ({s} \cup CandidatesOf(s, template)) \cap touched = {}

OldOf(o) == IF o = None THEN << >> ELSE <<o, cache[o]>>

ChangeNamed(c) ==
  Quiet(c.source, c.template) =>
    /\ WellNamed(c.source, c.template, c.named)
    /\ \A f \in c.fields : f.old = OldOf(c.named)

FieldsNamed(fields, s, template) ==
  Quiet(s, template) =>
    \A f \in fields : \E o : WellNamed(s, template, o) /\ f.old = OldOf(o)

LooksFor(refs, s, template) ==
  Quiet(s, template) =>
    /\ \A o : First(refs, template, o) <=> WellNamed(s, template, o)
    /\ ToSet(refs) \subseteq ToSet(RefsOf(s))

NamesOK(t) ==
  /\ \A c \in t.changes : ChangeNamed(c)
  /\ t.templates # << >> =>
       /\ FieldsNamed(t.fields, t.source, Head(t.templates))
       /\ t.lookup.on => LooksFor(t.lookup.refs, t.source, Head(t.templates))

LEMMA InToSet ==
  ASSUME NEW s \in Seq(Object), NEW i \in 1 .. Len(s)
  PROVE  s[i] \in ToSet(s)
BY DEF ToSet

(* There is one such resource.                                             *)
LEMMA OneFirst ==
  ASSUME NEW refs, Len(refs) \in Nat, NEW template, NEW o, NEW p,
         First(refs, template, o), First(refs, template, p)
  PROVE  o = p
<1>1. CASE o = None /\ \A i \in 1 .. Len(refs) : ~Hits(refs[i], template)
  BY <1>1 DEF First
<1>2. CASE \E i \in 1 .. Len(refs) : /\ refs[i] = o /\ Hits(refs[i], template)
                                     /\ \A j \in 1 .. i - 1 : ~Hits(refs[j], template)
  <2>1. PICK i \in 1 .. Len(refs) : /\ refs[i] = o /\ Hits(refs[i], template)
                                    /\ \A j \in 1 .. i - 1 : ~Hits(refs[j], template)
    BY <1>2
  <2>2. PICK k \in 1 .. Len(refs) : /\ refs[k] = p /\ Hits(refs[k], template)
                                    /\ \A j \in 1 .. k - 1 : ~Hits(refs[j], template)
    BY <2>1 DEF First
  <2>3. ~(i < k) /\ ~(k < i)
    BY <2>1, <2>2
  <2>4. QED
    BY <2>1, <2>2, <2>3
<1>3. QED
  BY <1>1, <1>2 DEF First

(* A reference that is passed over is not the one looked for.              *)
LEMMA PassOver ==
  ASSUME NEW refs \in Seq(Object), refs # << >>, NEW template, ~Hits(Head(refs), template), NEW o
  PROVE  First(Tail(refs), template, o) <=> First(refs, template, o)
<1> DEFINE tail == Tail(refs)
<1>1. /\ Len(refs) \in Nat \ {0} /\ Head(refs) = refs[1] /\ tail \in Seq(Object)
      /\ Len(tail) = Len(refs) - 1 /\ \A i \in 1 .. Len(refs) - 1 : tail[i] = refs[i + 1]
  BY HeadTailProperties
<1> HIDE DEF tail
<1>2. ~Hits(refs[1], template)
  BY <1>1
<1>3. (\A i \in 1 .. Len(tail) : ~Hits(tail[i], template))
        <=> (\A i \in 1 .. Len(refs) : ~Hits(refs[i], template))
  <2>1. ASSUME NEW i \in 1 .. Len(refs), \A k \in 1 .. Len(tail) : ~Hits(tail[k], template)
        PROVE  ~Hits(refs[i], template)
    <3>1. CASE i = 1
      BY <1>2, <3>1
    <3>2. CASE i # 1
      <4>1. i - 1 \in 1 .. Len(tail) /\ tail[i - 1] = refs[i]
        BY <1>1, <3>2
      <4>2. QED
        BY <2>1, <4>1
    <3>3. QED
      BY <3>1, <3>2
  <2>2. ASSUME NEW i \in 1 .. Len(tail), \A k \in 1 .. Len(refs) : ~Hits(refs[k], template)
        PROVE  ~Hits(tail[i], template)
    <3>1. i + 1 \in 1 .. Len(refs) /\ tail[i] = refs[i + 1]
      BY <1>1
    <3>2. QED
      BY <2>2, <3>1
  <2>3. QED
    BY <2>1, <2>2
<1>4. ASSUME NEW i \in 1 .. Len(tail), tail[i] = o, Hits(tail[i], template),
             \A j \in 1 .. i - 1 : ~Hits(tail[j], template)
      PROVE  First(refs, template, o)
  <2>1. i + 1 \in 1 .. Len(refs) /\ refs[i + 1] = o /\ Hits(refs[i + 1], template)
    BY <1>1, <1>4
  <2>2. ASSUME NEW j \in 1 .. (i + 1) - 1 PROVE ~Hits(refs[j], template)
    <3>1. CASE j = 1
      BY <1>2, <3>1
    <3>2. CASE j # 1
      <4>1. j - 1 \in 1 .. i - 1 /\ tail[j - 1] = refs[j]
        BY <1>1, <3>2
      <4>2. QED
        BY <1>4, <4>1
    <3>3. QED
      BY <3>1, <3>2
  <2>3. QED
    BY <2>1, <2>2 DEF First
<1>5. ASSUME NEW i \in 1 .. Len(refs), refs[i] = o, Hits(refs[i], template),
             \A j \in 1 .. i - 1 : ~Hits(refs[j], template)
      PROVE  First(tail, template, o)
  <2>1. i # 1
    BY <1>2, <1>5
  <2>2. i - 1 \in 1 .. Len(tail) /\ tail[i - 1] = refs[i]
    BY <1>1, <2>1
  <2>3. ASSUME NEW j \in 1 .. (i - 1) - 1 PROVE ~Hits(tail[j], template)
    <3>1. j + 1 \in 1 .. i - 1 /\ tail[j] = refs[j + 1]
      BY <1>1, <2>2
    <3>2. QED
      BY <1>5, <3>1
  <2>4. QED
    BY <1>5, <2>2, <2>3 DEF First
<1>6. First(tail, template, o) <=> First(refs, template, o)
  BY <1>3, <1>4, <1>5 DEF First
<1>7. QED
  BY <1>6 DEF tail

(* A lookup that ends has found it.                                        *)
LEMMA LookupFinds ==
  ASSUME tracing.lookup.refs \in Seq(Object), LookupEnds
  PROVE  First(tracing.lookup.refs, Head(tracing.templates), Found)
<1> DEFINE refs == tracing.lookup.refs
<1>1. CASE refs = << >>
  <2>1. Found = None /\ \A i \in 1 .. Len(refs) : ~Hits(refs[i], Head(tracing.templates))
    BY <1>1 DEF Found
  <2>2. QED
    BY <2>1 DEF First
<1>2. CASE refs # << >>
  <2>1. Found = refs[1] /\ Hits(Found, Head(tracing.templates)) /\ 1 \in 1 .. Len(refs)
    BY <1>2, HeadTailProperties DEF Found, LookupEnds
  <2>2. \A j \in 1 .. 1 - 1 : ~Hits(refs[j], Head(tracing.templates))
    OBVIOUS
  <2>3. QED
    BY <2>1, <2>2 DEF First
<1>3. QED
  BY <1>1, <1>2

(* The steps of the trace read a map that does not change in them.         *)
LEMMA NamesInSameMap ==
  ASSUME UNCHANGED <<mirrorVars, touched>>, NamesOK(tracing')
  PROVE  NamesOK(tracing)'
<1>1. /\ \A s : RefsOf(s)' = RefsOf(s)
      /\ \A o, t : Hits(o, t)' <=> Hits(o, t)
      /\ \A o : OldOf(o)' = OldOf(o)
  BY DEF mirrorVars, RefsOf, Hits, RefersTo, LiveRef, OldOf
<1>2. \A refs, t, o : First(refs, t, o)' <=> First(refs, t, o)
  BY <1>1 DEF First
<1>3. \A s, t, o : WellNamed(s, t, o)' <=> WellNamed(s, t, o)
  BY <1>1, <1>2 DEF WellNamed, First
<1>4. \A s, t : Quiet(s, t)' <=> Quiet(s, t)
  BY <1>1 DEF Quiet, CandidatesOf, RefersTo
<1>5. \A c : ChangeNamed(c)' <=> ChangeNamed(c)
  BY <1>1, <1>3, <1>4 DEF ChangeNamed
<1>6. \A fs, s, t : FieldsNamed(fs, s, t)' <=> FieldsNamed(fs, s, t)
  BY <1>1, <1>3, <1>4 DEF FieldsNamed
<1>7. \A refs, s, t : LooksFor(refs, s, t)' <=> LooksFor(refs, s, t)
  BY <1>1, <1>2, <1>3, <1>4 DEF LooksFor
<1>8. QED
  BY <1>5, <1>6, <1>7 DEF NamesOK

(* While source and candidates are quiet, what is looked for stays.        *)
LEMMA QuietStays ==
  ASSUME WalkInv, Mirror, pc # "idle", NEW s \in Object, NEW template, Quiet(s, template)'
  PROVE  /\ Quiet(s, template) /\ RefsOf(s)' = RefsOf(s)
         /\ \A o \in ToSet(RefsOf(s)) : Hits(o, template)' <=> Hits(o, template)
         /\ \A o : WellNamed(s, template, o) => WellNamed(s, template, o)' /\ OldOf(o)' = OldOf(o)
         /\ \A o : WellNamed(s, template, o)' => WellNamed(s, template, o)
<1>1. /\ touched \subseteq touched'
      /\ \A o \in Object : o \notin touched' => cache'[o] = cache[o]
  BY DEF Mirror
<1>2. RefsOf(s)' = RefsOf(s) /\ RefsOf(s) \in Seq(Object)
  BY <1>1, RefsAreObjects DEF Quiet, RefsOf
<1>3. CandidatesOf(s, template)' = CandidatesOf(s, template)
  BY <1>2 DEF CandidatesOf, RefersTo
<1>4. Quiet(s, template)
  BY <1>1, <1>3 DEF Quiet
<1>5. \A o \in CandidatesOf(s, template) : o \in Object /\ cache'[o] = cache[o]
  BY <1>1, <1>2, <1>3 DEF Quiet, CandidatesOf, ToSet
<1>6. \A o \in ToSet(RefsOf(s)) : Hits(o, template)' <=> Hits(o, template)
  BY <1>5 DEF CandidatesOf, Hits, RefersTo, LiveRef
<1>7. \A i \in 1 .. Len(RefsOf(s)) : RefsOf(s)[i] \in ToSet(RefsOf(s))
  BY <1>2 DEF ToSet
<1>8. \A o : WellNamed(s, template, o)' <=> WellNamed(s, template, o)
  BY <1>2, <1>6, <1>7 DEF WellNamed, First
<1>9. \A o : WellNamed(s, template, o) => OldOf(o)' = OldOf(o)
  <2> SUFFICES ASSUME NEW o, WellNamed(s, template, o), o # None
               PROVE  cache'[o] = cache[o]
    BY DEF OldOf
  <2>1. o \in CandidatesOf(s, template)
    BY <1>7 DEF WellNamed, First, CandidatesOf, Hits
  <2>2. QED
    BY <1>5, <2>1
<1>10. QED
  BY <1>2, <1>4, <1>6, <1>8, <1>9

LEMMA NoNames == NamesOK(NoTrace)
BY DEF NamesOK, NoTrace

LEMMA MirrorKeepsNames ==
  ASSUME WalkInv, TraceInv, NamesOK(tracing), Mirror, tracing' = tracing
  PROVE  NamesOK(tracing)'
<1>1. CASE tracing = NoTrace
  BY <1>1 DEF NamesOK, NoTrace
<1>2. CASE tracing # NoTrace
  <2> DEFINE t == tracing
             template == Head(t.templates)
  <2>1. pc # "idle" /\ TraceTyped(t)
    BY <1>2 DEF TraceInv, TraceOK
  <2>2. ASSUME NEW c \in t.changes PROVE ChangeNamed(c)'
    <3> SUFFICES ASSUME Quiet(c.source, c.template)'
                 PROVE  /\ WellNamed(c.source, c.template, c.named)'
                        /\ \A f \in c.fields : f.old = OldOf(c.named)'
      BY DEF ChangeNamed
    <3>1. c.source \in Object /\ ChangeNamed(c)
      BY <2>1 DEF TraceTyped, NamesOK
    <3>2. QED
      BY <2>1, <3>1, QuietStays DEF ChangeNamed
  <2>3. t.source \in Object /\ t.lookup.refs \in Seq(Object)
    BY <2>1 DEF TraceTyped
  <2>4. ASSUME t.templates # << >> PROVE FieldsNamed(t.fields, t.source, template)'
    <3> SUFFICES ASSUME Quiet(t.source, template)', NEW f \in t.fields
                 PROVE  \E o : WellNamed(t.source, template, o)' /\ f.old = OldOf(o)'
      BY DEF FieldsNamed
    <3>1. Quiet(t.source, template)
      BY <2>1, <2>3, QuietStays
    <3>2. PICK o : WellNamed(t.source, template, o) /\ f.old = OldOf(o)
      BY <2>4, <3>1 DEF NamesOK, FieldsNamed
    <3>3. QED
      BY <2>1, <2>3, <3>2, QuietStays
  <2>5. ASSUME t.templates # << >>, t.lookup.on PROVE LooksFor(t.lookup.refs, t.source, template)'
    <3> SUFFICES ASSUME Quiet(t.source, template)'
                 PROVE  /\ \A o : First(t.lookup.refs, template, o)' <=> WellNamed(t.source, template, o)'
                        /\ ToSet(t.lookup.refs) \subseteq ToSet(RefsOf(t.source)')
      BY DEF LooksFor
    <3>1. /\ \A o : First(t.lookup.refs, template, o) <=> WellNamed(t.source, template, o)
          /\ ToSet(t.lookup.refs) \subseteq ToSet(RefsOf(t.source))
      BY <2>1, <2>3, <2>5, QuietStays DEF NamesOK, LooksFor
    <3>2. \A i \in 1 .. Len(t.lookup.refs) : t.lookup.refs[i] \in ToSet(RefsOf(t.source))
      BY <2>3, <3>1, InToSet
    <3>3. \A o \in ToSet(RefsOf(t.source)) : Hits(o, template)' <=> Hits(o, template)
      BY <2>1, <2>3, QuietStays
    <3>4. \A o : First(t.lookup.refs, template, o)' <=> First(t.lookup.refs, template, o)
      BY <3>2, <3>3 DEF First
    <3>5. RefsOf(t.source)' = RefsOf(t.source)
          /\ \A o : WellNamed(t.source, template, o)' <=> WellNamed(t.source, template, o)
      BY <2>1, <2>3, QuietStays
    <3>6. QED
      BY <3>1, <3>4, <3>5
  <2>6. QED
    BY <2>2, <2>4, <2>5 DEF NamesOK
<1>3. QED
  BY <1>1, <1>2

LEMMA LookupNames ==
  ASSUME WalkInv, TraceInv, NamesOK(tracing), LookUpParent \/ SkipReference
  PROVE  NamesOK(tracing)'
<1> DEFINE t == tracing
           u == tracing'
           template == Head(t.templates)
<1>1. PICK l : Traces([t EXCEPT !.lookup = l]) /\ DOMAIN l = {"on", "refs"} /\
               \/ l.refs = RefsOf(t.source)
               \/ /\ l.refs = Tail(t.lookup.refs) /\ t.lookup.refs # << >>
                  /\ ~Hits(Head(t.lookup.refs), template) /\ l.on = t.lookup.on
  <2>1. DOMAIN t.lookup = {"on", "refs"}
    BY TraceGoesOn DEF LookUpParent, SkipReference, TraceOK, TraceTyped
  <2>2. CASE LookUpParent
    <3> DEFINE l == [on |-> TRUE, refs |-> RefsOf(t.source)]
    <3>1. DOMAIN l = {"on", "refs"} /\ l.refs = RefsOf(t.source)
      OBVIOUS
    <3>2. Traces([t EXCEPT !.lookup = l])
      BY <2>2 DEF LookUpParent, Parent
    <3> HIDE DEF l
    <3>3. QED
      BY <3>1, <3>2
  <2>3. CASE SkipReference
    <3> DEFINE l == [t.lookup EXCEPT !.refs = Tail(t.lookup.refs)]
    <3>1. DOMAIN l = {"on", "refs"} /\ l.on = t.lookup.on /\ l.refs = Tail(t.lookup.refs)
      BY <2>1
    <3>2. Traces([t EXCEPT !.lookup = l])
      BY <2>3 DEF SkipReference
    <3> HIDE DEF l
    <3>3. QED
      BY <2>3, <3>1, <3>2 DEF SkipReference
  <2>4. QED
    BY <2>2, <2>3
<1>2. TraceTyped(t) /\ DOMAIN t = TraceFields /\ UNCHANGED <<mirrorVars, touched>>
  BY <1>1, TraceGoesOn DEF TraceOK, TraceTyped, Traces, vars
<1>3. /\ u.changes = t.changes /\ u.templates = t.templates /\ u.fields = t.fields
      /\ u.source = t.source /\ u.lookup = l
  BY <1>1, <1>2, TraceGoesOn DEF TraceFields
<1> HIDE DEF t, u
<1>4. ASSUME t.templates # << >>, l.on PROVE LooksFor(l.refs, t.source, template)
  <2>1. CASE l.refs = RefsOf(t.source)
    BY <2>1 DEF LooksFor, WellNamed
  <2>2. CASE /\ l.refs = Tail(t.lookup.refs) /\ t.lookup.refs # << >>
             /\ ~Hits(Head(t.lookup.refs), template) /\ l.on = t.lookup.on
    <3>1. t.lookup.refs \in Seq(Object) /\ LooksFor(t.lookup.refs, t.source, template)
      BY <1>2, <1>4, <2>2 DEF TraceTyped, NamesOK, t
    <3>2. \A o : First(l.refs, template, o) <=> First(t.lookup.refs, template, o)
      BY <2>2, <3>1, PassOver
    <3>3. ToSet(l.refs) \subseteq ToSet(t.lookup.refs)
      <4>1. /\ Tail(t.lookup.refs) \in Seq(Object) /\ Len(t.lookup.refs) \in Nat \ {0}
            /\ Len(Tail(t.lookup.refs)) = Len(t.lookup.refs) - 1
            /\ \A i \in 1 .. Len(t.lookup.refs) - 1 : Tail(t.lookup.refs)[i] = t.lookup.refs[i + 1]
        BY <2>2, <3>1, HeadTailProperties
      <4>2. ASSUME NEW i \in 1 .. Len(l.refs) PROVE l.refs[i] \in ToSet(t.lookup.refs)
        <5>1. i + 1 \in 1 .. Len(t.lookup.refs) /\ l.refs[i] = t.lookup.refs[i + 1]
          BY <2>2, <4>1
        <5>2. QED
          BY <3>1, <5>1 DEF ToSet
      <4>3. QED
        BY <2>2, <4>1, <4>2 DEF ToSet
    <3>4. QED
      BY <3>1, <3>2, <3>3 DEF LooksFor
  <2>3. QED
    BY <1>1, <2>1, <2>2
<1>5. NamesOK(u)
  BY <1>3, <1>4 DEF NamesOK, t
<1>6. QED
  BY <1>2, <1>5, NamesInSameMap DEF u

LEMMA OldValueNames ==
  ASSUME WalkInv, TraceInv, NamesOK(tracing), OldValue
  PROVE  NamesOK(tracing)'
<1> DEFINE t == tracing
           u == tracing'
           template == Head(t.templates)
<1>0. PICK match \in t.matches : \E f :
        /\ f.old = OldOf(Found)
        /\ Traces([t EXCEPT !.matches = t.matches \ {match}, !.lookup = NoLookup,
                     !.fields = t.fields \cup {f}])
  BY DEF OldValue, OldOf
<1>1. PICK f :
        /\ f.old = OldOf(Found)
        /\ Traces([t EXCEPT !.matches = t.matches \ {match}, !.lookup = NoLookup,
                     !.fields = t.fields \cup {f}])
  BY <1>0
<1>2. TraceTyped(t) /\ DOMAIN t = TraceFields /\ UNCHANGED <<mirrorVars, touched>>
  BY <1>1, TraceGoesOn DEF TraceOK, TraceTyped, Traces, vars
<1>3. /\ u.changes = t.changes /\ u.templates = t.templates /\ u.fields = t.fields \cup {f}
      /\ u.source = t.source /\ u.lookup = NoLookup
  <2> DEFINE ms == t.matches \ {match}
             fs == t.fields \cup {f}
  <2>1. u = [t EXCEPT !.matches = ms, !.lookup = NoLookup, !.fields = fs]
    BY <1>1, TraceGoesOn
  <2> HIDE DEF ms, fs
  <2>2. QED
    BY <1>2, <2>1 DEF TraceFields, fs
<1>4. First(t.lookup.refs, template, Found) /\ t.lookup.on
  BY <1>2, LookupFinds DEF TraceTyped, OldValue, LookupEnds
<1>5. ASSUME t.templates # << >> PROVE FieldsNamed(u.fields, t.source, template)
  <2> SUFFICES ASSUME Quiet(t.source, template), NEW g \in u.fields
               PROVE  \E o : WellNamed(t.source, template, o) /\ g.old = OldOf(o)
    BY DEF FieldsNamed
  <2>1. WellNamed(t.source, template, Found)
    BY <1>4, <1>5 DEF NamesOK, LooksFor
  <2>2. CASE g \in t.fields
    BY <1>5, <2>2 DEF NamesOK, FieldsNamed
  <2>3. CASE g = f
    BY <1>1, <2>1, <2>3
  <2>4. QED
    BY <1>3, <2>2, <2>3
<1>6. NamesOK(u)
  BY <1>3, <1>5 DEF NamesOK, NoLookup
<1>7. QED
  BY <1>2, <1>6, NamesInSameMap

LEMMA ReportChangeNames ==
  ASSUME WalkInv, TraceInv, NamesOK(tracing), ReportChange
  PROVE  NamesOK(tracing)'
<1> DEFINE t == tracing
           u == tracing'
           template == Head(t.templates)
           change == [template |-> template, named |-> Found, fields |-> t.fields,
                      source |-> t.source, depth |-> t.depth]
           left == Tail(t.templates)
           all == t.changes \cup {change}
           down == IF t.depth = 1 THEN Append(t.descend, change) ELSE t.descend
<1>1. Traces([t EXCEPT !.templates = left, !.fields = {}, !.lookup = NoLookup,
                       !.changes = all, !.descend = down])
  BY DEF ReportChange
<1>2. /\ TraceTyped(t) /\ DOMAIN t = TraceFields /\ UNCHANGED <<mirrorVars, touched>>
      /\ TraceOK(t, proposed)
  BY <1>1, TraceGoesOn DEF TraceOK, TraceTyped, Traces, vars
<1>3. u.changes = t.changes \cup {change} /\ u.fields = {} /\ u.lookup = NoLookup
  <2>1. u = [t EXCEPT !.templates = left, !.fields = {}, !.lookup = NoLookup,
                      !.changes = all, !.descend = down]
    BY <1>1, TraceGoesOn
  <2>2. u.changes = all /\ u.fields = {} /\ u.lookup = NoLookup
    <3> HIDE DEF left, all, down, change
    <3>1. QED
      BY <1>2, <2>1 DEF TraceFields
  <2>3. QED
    BY <2>2
<1>4. First(t.lookup.refs, template, Found) /\ t.lookup.on
  BY <1>2, LookupFinds DEF TraceTyped, ReportChange, LookupEnds
<1>5. t.templates # << >>
  BY <1>2, <1>4 DEF TraceOK, InHand
<1>6. /\ change.template = template /\ change.fields = t.fields
      /\ change.source = t.source /\ change.named = Found
  OBVIOUS
<1> HIDE DEF change
<1>7. ChangeNamed(change)
  <2> SUFFICES ASSUME Quiet(t.source, template)
               PROVE  /\ WellNamed(t.source, template, Found)
                      /\ \A f \in t.fields : f.old = OldOf(Found)
    BY <1>6 DEF ChangeNamed
  <2>1. WellNamed(t.source, template, Found)
    BY <1>4, <1>5 DEF NamesOK, LooksFor
  <2>2. Len(RefsOf(t.source)) \in Nat
    BY <1>2, RefsAreObjects DEF TraceTyped
  <2>3. ASSUME NEW f \in t.fields PROVE f.old = OldOf(Found)
    <3>1. PICK o : WellNamed(t.source, template, o) /\ f.old = OldOf(o)
      BY <1>5 DEF NamesOK, FieldsNamed
    <3>2. o = Found
      BY <2>1, <2>2, <3>1, OneFirst DEF WellNamed
    <3>3. QED
      BY <3>1, <3>2
  <2>4. QED
    BY <2>1, <2>3
<1>8. NamesOK(u)
  BY <1>3, <1>7 DEF NamesOK, NoLookup, FieldsNamed
<1>9. QED
  BY <1>2, <1>8, NamesInSameMap

(* The steps that turn to another template, or start.                      *)
LEMMA TurnNames ==
  ASSUME WalkInv, TraceInv, NamesOK(tracing), FindComposition \/ NextTemplate \/ Descend
  PROVE  NamesOK(tracing)'
<1> DEFINE u == tracing'
<1>1. UNCHANGED <<mirrorVars, touched>>
  BY DEF FindComposition, NextTemplate, Descend, Traces, vars
<1>2. u.changes \subseteq tracing.changes /\ u.fields = {} /\ ~u.lookup.on
  <2>1. CASE FindComposition
    <3>1. PICK plan, comp :
            u = [TracePipeline(NoTrace, comp, proposed, ChangedFields(plan, proposed), 1)
                   EXCEPT !.plan = plan, !.comp = comp]
      BY <2>1 DEF FindComposition
    <3>2. u.changes = {} /\ u.fields = {} /\ u.lookup = NoLookup
      BY <3>1 DEF TracePipeline, NoTrace
    <3>3. QED
      BY <3>2 DEF NoLookup
  <2>2. CASE NextTemplate
    <3> DEFINE new == Matches(Head(tracing.templates), tracing.changed)
               left == IF new = {} THEN Tail(tracing.templates) ELSE tracing.templates
    <3>1. /\ Traces([tracing EXCEPT !.matches = new, !.templates = left])
          /\ tracing.matches = {} /\ tracing.fields = {}
      BY <2>2 DEF NextTemplate
    <3>2. /\ tracing' = [tracing EXCEPT !.matches = new, !.templates = left]
          /\ DOMAIN tracing = TraceFields /\ ~tracing.lookup.on
      BY <3>1, TraceGoesOn DEF TraceOK, TraceTyped, InHand, Between
    <3> HIDE DEF new, left
    <3>3. QED
      BY <3>1, <3>2 DEF TraceFields
  <2>3. CASE Descend
    <3> DEFINE rest == [tracing EXCEPT !.descend = Tail(tracing.descend)]
    <3>1. /\ tracing.templates = << >>
          /\ \/ Traces(rest)
             \/ \E o, comp, paths : Traces(TracePipeline(rest, comp, o, paths, 2))
      BY <2>3 DEF Descend, TemplatesDone
    <3>2. TraceOK(tracing, proposed)
      BY <3>1, TraceGoesOn
    <3>3. DOMAIN tracing = TraceFields /\ tracing.fields = {} /\ ~tracing.lookup.on
      BY <3>1, <3>2 DEF TraceOK, TraceTyped, InHand, Between
    <3>4. /\ rest.changes = tracing.changes /\ rest.fields = {} /\ rest.lookup = tracing.lookup
          /\ DOMAIN rest = TraceFields
      BY <3>3 DEF TraceFields
    <3> HIDE DEF rest
    <3>5. CASE Traces(rest)
      BY <3>3, <3>4, <3>5, TraceGoesOn
    <3>6. ASSUME NEW o, NEW comp, NEW paths, Traces(TracePipeline(rest, comp, o, paths, 2))
          PROVE  <1>2
      <4>1. u = TracePipeline(rest, comp, o, paths, 2)
        BY <3>6, TraceGoesOn
      <4>2. u.changes = rest.changes /\ u.fields = rest.fields /\ u.lookup = rest.lookup
        BY <3>4, <4>1 DEF TracePipeline, TraceFields
      <4>3. QED
        BY <3>3, <3>4, <4>2
    <3>7. QED
      BY <3>1, <3>5, <3>6
  <2>4. QED
    BY <2>1, <2>2, <2>3
<1>3. NamesOK(u)
  BY <1>2 DEF NamesOK, FieldsNamed
<1>4. QED
  BY <1>1, <1>3, NamesInSameMap

LEMMA NamesNext ==
  WalkInv /\ TraceInv /\ NamesOK(tracing) /\ [ComposedNext]_composedVars => NamesOK(tracing)'
<1> SUFFICES ASSUME WalkInv, TraceInv, NamesOK(tracing), [ComposedNext]_composedVars
             PROVE  NamesOK(tracing)'
  OBVIOUS
<1>1. CASE ResetComposed
  BY <1>1 DEF ResetComposed, NamesOK, NoTrace
<1>2. CASE WalkStep
  <2>1. CASE Mirror
    BY <1>2, <2>1, MirrorKeepsNames DEF WalkStep
  <2>2. CASE ~Mirror
    <3>1. UNCHANGED <<mirrorVars, touched, tracing>>
      BY <1>2, <2>2 DEF WalkStep, Begin, FindClaim, FindOwnedXR, Enter, NoComposition, NextRef,
                        ReturnCall, Answer
    <3>2. QED
      BY <3>1, NamesInSameMap
  <2>3. QED
    BY <2>1, <2>2
<1>3. CASE UNCHANGED composedVars
  <2>1. UNCHANGED <<mirrorVars, touched, tracing>>
    BY <1>3 DEF composedVars, vars
  <2>2. QED
    BY <2>1, NamesInSameMap
<1>4. QED
  BY <1>1, <1>2, <1>3, TurnNames, LookupNames, OldValueNames, ReportChangeNames DEF ComposedNext

(* Name and old values of a predicted change are of one resource, although *)
(* each is looked up on its own while the map changes, as long as the      *)
(* parent and the references that can be meant stay as they are            *)
(* (compose.go:314, 332-370).                                              *)
THEOREM ChangesNameTheirResource == ComposedSpec => []NamesItsResource
<1>1. ComposedInit => NamesOK(tracing)
  BY NoNames DEF ComposedInit
<1>2. WalkInv /\ TraceInv /\ NamesOK(tracing) => NamesItsResource
  <2> SUFFICES ASSUME WalkInv, TraceInv, NamesOK(tracing), NEW c \in tracing.changes,
                      ({c.source} \cup Candidates(c)) \cap touched = {}
               PROVE  /\ \A f \in c.fields : f.old = OldOf(c.named)
                      /\ \A o \in Candidates(c) :
                           Candidates(c) = {o} /\ LiveRef(o) => c.named = o
                      /\ c.named # None => c.named \in Candidates(c)
    BY DEF NamesItsResource, OldOf
  <2>1. Quiet(c.source, c.template) /\ Candidates(c) = CandidatesOf(c.source, c.template)
    BY DEF Quiet, CandidatesOf, Candidates
  <2>2. /\ First(RefsOf(c.source), c.template, c.named)
        /\ \A f \in c.fields : f.old = OldOf(c.named)
    BY <2>1 DEF NamesOK, ChangeNamed, WellNamed
  <2>3. tracing # NoTrace
    BY DEF NoTrace
  <2>4. RefsOf(c.source) \in Seq(Object)
    BY <2>3, RefsAreObjects DEF TraceInv, TraceOK, TraceTyped
  <2>5. \A i \in 1 .. Len(RefsOf(c.source)) : RefsOf(c.source)[i] \in ToSet(RefsOf(c.source))
    BY <2>4 DEF ToSet
  <2>6. c.named # None => c.named \in Candidates(c)
    BY <2>1, <2>2, <2>5 DEF First, CandidatesOf, Hits
  <2>7. ASSUME NEW o \in Candidates(c), Candidates(c) = {o}, LiveRef(o)
        PROVE  c.named = o
    <3>1. PICK i \in 1 .. Len(RefsOf(c.source)) : RefsOf(c.source)[i] = o
      BY <2>1, <2>4 DEF CandidatesOf, ToSet
    <3>2. Hits(RefsOf(c.source)[i], c.template)
      BY <2>1, <2>7, <3>1 DEF Hits, CandidatesOf
    <3>3. PICK k \in 1 .. Len(RefsOf(c.source)) :
            RefsOf(c.source)[k] = c.named /\ Hits(RefsOf(c.source)[k], c.template)
      BY <2>2, <3>2 DEF First
    <3>4. c.named \in Candidates(c)
      BY <2>1, <2>5, <3>3 DEF CandidatesOf, Hits
    <3>5. QED
      BY <2>7, <3>4
  <2>8. QED
    BY <2>2, <2>6, <2>7
<1>3. QED
  BY <1>1, <1>2, NamesNext, TraceInvariance, PTL DEF ComposedSpec
=============================================================================
