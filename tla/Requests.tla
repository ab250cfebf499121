------------------------------ MODULE Requests ------------------------------
(***************************************************************************)
(* The request identifiers that the scheduling modules share.              *)
(***************************************************************************)
EXTENDS FiniteSets

CONSTANT Request

ASSUME RequestAssumption == IsFiniteSet(Request)
=============================================================================
