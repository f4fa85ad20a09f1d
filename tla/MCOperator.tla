------------------------------ MODULE MCOperator ------------------------------
(* A small instance of Operator for TLC: one type, one object.             *)
EXTENDS Operator, TLC

CONSTANTS c1, o1

MC_GvrOf == o1 :> c1
=============================================================================
