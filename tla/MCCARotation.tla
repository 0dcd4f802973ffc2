---------------------------- MODULE MCCARotation ----------------------------
(* A model-checking instance of CARotation. *)
EXTENDS CARotation

CONSTANT n1

OneNode == {n1}
NoNodes == {}
RouteTransition == {"route"}
=============================================================================
