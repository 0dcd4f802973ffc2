-------------------------- MODULE MCRouteOwnership --------------------------
(* A small instance of RouteOwnership: a routes for p, b does not, and c   *)
(* is an identity that a replacement may take.                             *)
EXTENDS RouteOwnership

CONSTANTS a, b, c, p

OnlyA == [n \in Nodes |-> IF n = a THEN {p} ELSE {}]
Twice == [n \in Nodes |-> 2]
=============================================================================
