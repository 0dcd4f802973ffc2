------------------------------ MODULE MCAgents ------------------------------
(***************************************************************************)
(* What an agent and the control plane tell each other beside the          *)
(* configuration: the agent's bearer credentials (AgentCredential, which   *)
(* this module extends) and its runtime observations, with the readiness   *)
(* and health made of them (RuntimeTelemetry).  The two share no state;    *)
(* the subject, chosen at the start, is the one that runs, and the         *)
(* variables of the other keep their first value.  CredentialsMatch,       *)
(* SecretKept and ResumeFinishes are those of AgentCredential.             *)
(***************************************************************************)
EXTENDS AgentCredential, Sequences

VARIABLES subject, fleet, network, members, reporters, nebula, wire, store,
          server, truth, faults

telemetry == <<fleet, network, members, reporters, nebula, wire, store, server,
               truth, faults>>

-----------------------------------------------------------------------------
(* Fleets of members 1 and 2 and lighthouses 3 and 4, of which the last is *)
(* reached by name and placed apart; member 1 reports twice or three       *)
(* times.                                                                  *)
One ==
    [active |-> {1, 3}, pending |-> {}, revocable |-> {},
     beats |-> <<2, 0, 0, 0>>, revs |-> 1, gateways |-> {}, pings |-> {1},
     policies |-> {}, faults |-> 0, version |-> 0, looks |-> {}]

Two == [One EXCEPT !.active = {1, 3, 4}]

Fleets ==
    { \* one lighthouse takes the place of another between two probes
      [One EXCEPT !.version = 7, !.pending = {4}, !.revocable = {3},
                  !.revs = 3],
      \* a policy closes one of two targets
      [Two EXCEPT !.policies = {{3}}, !.revs = 2],
      \* a ready network in which things change
      [Two EXCEPT !.version = 7, !.beats = <<2, 0, 1, 1>>, !.pending = {2},
                  !.looks = {"routes", "names"}],
      [Two EXCEPT !.version = 7, !.beats = <<2, 0, 1, 1>>, !.pings = {},
                  !.revocable = {4}, !.revs = 2, !.looks = {"names"}],
      \* transitions between reports, some of which are lost
      [Two EXCEPT !.version = 7, !.beats = <<3, 0, 0, 0>>,
                  !.looks = {"history"}],
      [One EXCEPT !.version = 7, !.beats = <<3, 0, 0, 0>>, !.faults = 1,
                  !.looks = {"history"}],
      \* restarts of the process, and a node that leaves
      [One EXCEPT !.faults = 2, !.pings = {}, !.looks = {"process"}],
      [One EXCEPT !.faults = 1, !.revocable = {1}, !.revs = 2] }
    \cup \* documents of every earlier release
    {[One EXCEPT !.version = v, !.looks = {"process"}] : v \in 1 .. 7}

Telemetry == INSTANCE RuntimeTelemetry WITH
    scene <- fleet, node <- members, agent <- reporters,
    Members <- {1, 2}, Lighthouses <- {3, 4}, Named <- {4},
    Domain <- <<1, 1, 1, 2>>, Scenes <- Fleets, Fresh <- 2, Wide <- 2,
    Late <- 1, Offline <- 2, Transit <- 1, MaxTargets <- 2, Limit <- 2

TelemetryIdle ==
    /\ fleet = "idle" /\ network = "idle" /\ members = "idle"
    /\ reporters = "idle" /\ nebula = "idle" /\ wire = "idle" /\ store = "idle"
    /\ server = "idle" /\ truth = "idle" /\ faults = "idle"

-----------------------------------------------------------------------------
InitAgents ==
    /\ Init
    /\ \/ subject = "credential" /\ TelemetryIdle
       \/ subject = "telemetry" /\ Telemetry!Init

NextAgents ==
    \/ /\ subject = "credential"
       /\ Next
       /\ UNCHANGED <<subject, telemetry>>
    \/ /\ subject = "telemetry"
       /\ Telemetry!Next
       /\ UNCHANGED <<subject, vars>>

AgentsSpec == InitAgents /\ [][NextAgents]_<<subject, vars, telemetry>>

(* Readiness, fleet health and probe transitions say what is so:           *)
(* RuntimeTelemetry!ObservationsHold.                                      *)
ObservationsHold == subject = "telemetry" => Telemetry!ObservationsHold
=============================================================================
