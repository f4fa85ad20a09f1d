----------------------------- MODULE MirrorProofs -----------------------------
(***************************************************************************)
(* What every reader of the state cache can rely on, proved of the         *)
(* abstract mirror: a map entry is a content the object really has had.    *)
(***************************************************************************)
EXTENDS ClusterMirror, TLAPS

(* The contents o has had so far.                                          *)
Had(o) == (1 .. rev[o]) \ gone[o]

MirrorInv ==
  /\ rev \in [Object -> 0 .. MaxRev]
  /\ gone \in [Object -> SUBSET Nat]
  /\ at \in [Object -> Nat]
  /\ cache \in [Object -> Nat]
  /\ \A o \in Object : /\ gone[o] \subseteq 1 .. rev[o]
                       /\ at[o] <= rev[o]
                       /\ cache[o] = Content(o, at[o])

(* The empty mirror of an empty cluster.                                   *)
LEMMA MirrorInvInit == MirrorInit => MirrorInv
BY MaxRevAssumption DEF MirrorInit, ClusterInit, MirrorInv, Content, Alive

(* A write adds the next revision, catching up serves one there is.        *)
LEMMA MirrorInvNext == MirrorInv /\ [MirrorNext]_mirrorVars => MirrorInv'
<1> SUFFICES ASSUME MirrorInv, [MirrorNext]_mirrorVars PROVE MirrorInv'
  OBVIOUS
<1> USE MaxRevAssumption DEF MirrorInv
<1>1. CASE UNCHANGED mirrorVars
  BY <1>1 DEF mirrorVars, Content, Alive
<1>2. ASSUME NEW o \in Object, WriteObject(o), UNCHANGED <<cache, at>> PROVE MirrorInv'
  <2>1. /\ rev' \in [Object -> 0 .. MaxRev]
        /\ \A p \in Object : rev'[p] = IF p = o THEN rev[o] + 1 ELSE rev[p]
    BY <1>2 DEF WriteObject
  <2>2. /\ gone' \in [Object -> SUBSET Nat]
        /\ \A p \in Object : gone'[p] = gone[p] \/ (p = o /\ gone'[p] = gone[p] \cup {rev[o] + 1})
    BY <1>2 DEF WriteObject
  <2>3. ASSUME NEW p \in Object
        PROVE  /\ gone'[p] \subseteq 1 .. rev'[p] /\ at'[p] <= rev'[p]
               /\ cache'[p] = Content(p, at[p])'
    BY <1>2, <2>1, <2>2 DEF Content, Alive
  <2>4. QED
    BY <1>2, <2>1, <2>2, <2>3
<1>3. ASSUME NEW o \in Object, Apply(o) PROVE MirrorInv'
  <2>1. PICK k \in at[o] .. rev[o] :
          /\ at' = [at EXCEPT ![o] = k]
          /\ cache' = [cache EXCEPT ![o] = Content(o, k)]
          /\ UNCHANGED <<rev, gone>>
    BY <1>3 DEF Apply
  <2>2. k \in Nat /\ k <= rev[o] /\ Content(o, k) \in Nat
    BY DEF Content
  <2>3. QED
    BY <2>1, <2>2 DEF Content, Alive
<1>4. QED
  BY <1>1, <1>2, <1>3 DEF MirrorNext

(* A map entry is a content the object has had.                            *)
LEMMA EntryIsReal ==
  ASSUME MirrorInv, NEW o \in Object, cache[o] # 0
  PROVE  cache[o] \in Had(o) /\ cache[o] \in 1 .. MaxRev
BY MaxRevAssumption DEF MirrorInv, Had, Content, Alive

(* What an object has had it will always have had: an old revision is      *)
(* never turned into a deletion.                                           *)
LEMMA HadGrows ==
  ASSUME MirrorInv, [MirrorNext]_mirrorVars, NEW o \in Object
  PROVE  Had(o) \subseteq Had(o)' /\ rev[o] <= rev'[o]
<1> USE MaxRevAssumption DEF MirrorInv, Had
<1>1. CASE UNCHANGED mirrorVars
  BY <1>1 DEF mirrorVars
<1>2. ASSUME NEW p \in Object, WriteObject(p) PROVE Had(o) \subseteq Had(o)' /\ rev[o] <= rev'[o]
  BY <1>2 DEF WriteObject
<1>3. ASSUME NEW p \in Object, Apply(p) PROVE Had(o) \subseteq Had(o)' /\ rev[o] <= rev'[o]
  BY <1>3 DEF Apply
<1>4. QED
  BY <1>1, <1>2, <1>3 DEF MirrorNext
=============================================================================
