-------------------------- MODULE MCFirewallRollout --------------------------
(***************************************************************************)
(* A small instance of FirewallRollout: a policy that runs everywhere, one *)
(* that Nebula refuses and one that it stops over.  The members are        *)
(* enrolled and the network's settings stand: MCOperations changes both.   *)
(***************************************************************************)
EXTENDS FirewallRollout

Rule(peers, effect) == [peers |-> peers, dns |-> TRUE, effect |-> effect]

EveryEffect == {Rule(<<2>>, "runs"), Rule(<<>>, "refused"), Rule(<<>>, "stops")}

StageNext == Policies \/ Agents \/ Arrivals

StageSpec == Init /\ [][StageNext]_vars /\ Fairness
=============================================================================
