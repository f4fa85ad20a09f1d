---------------------------- MODULE ClusterMirror ----------------------------
(***************************************************************************)
(* What the operator's state cache promises about each object of the       *)
(* cluster, and nothing about how: the map it serves plans from holds only *)
(* revisions the cluster really had, and it moves through them forwards.   *)
(*                                                                         *)
(* An object's life is numbered by revisions 1, 2, ...; a revision in      *)
(* gone[o] is a deletion.  `at' is the revision the mirror last applied,   *)
(* `cache' the entry it then serves (0: the map has no entry).             *)
(***************************************************************************)
EXTENDS Naturals

CONSTANTS Object,   \* what resourceKey names: one API version of one object
          MaxRev    \* bound: how often an object is written

ASSUME MaxRevAssumption == MaxRev \in Nat

VARIABLES rev, gone, cache, at

mirrorVars == <<rev, gone, cache, at>>

-----------------------------------------------------------------------------
(* The cluster (external: the API server's storage).                       *)

Alive(o, k) == k # 0 /\ k \notin gone[o]

(* What a map that has seen revision k of o must hold for o.               *)
Content(o, k) == IF Alive(o, k) THEN k ELSE 0

(* An object is created, updated or, when it exists, deleted.              *)
WriteObject(o) ==
  /\ rev[o] < MaxRev
  /\ rev' = [rev EXCEPT ![o] = @ + 1]
  /\ \/ UNCHANGED gone
     \/ /\ Alive(o, rev[o])
        /\ gone' = [gone EXCEPT ![o] = @ \cup {rev[o] + 1}]

ClusterInit ==
  /\ rev = [o \in Object |-> 0]
  /\ gone = [o \in Object |-> {}]

-----------------------------------------------------------------------------
(* The mirror.                                                             *)

(* Catch up with some revision that is not older than the current one.     *)
Apply(o) ==
  \E k \in at[o] .. rev[o] :
    /\ at' = [at EXCEPT ![o] = k]
    /\ cache' = [cache EXCEPT ![o] = Content(o, k)]
    /\ UNCHANGED <<rev, gone>>

MirrorInit ==
  /\ ClusterInit
  /\ cache = [o \in Object |-> 0]
  /\ at = [o \in Object |-> 0]

MirrorNext ==
  \E o \in Object : \/ WriteObject(o) /\ UNCHANGED <<cache, at>>
                    \/ Apply(o)

MirrorSpec == MirrorInit /\ [][MirrorNext]_mirrorVars
=============================================================================
