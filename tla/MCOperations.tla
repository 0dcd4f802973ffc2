---------------------------- MODULE MCOperations ----------------------------
(***************************************************************************)
(* What people do to a running system: administrators admit, revoke and    *)
(* replace members and change settings and policies around a rollout       *)
(* (FirewallRollout, which this module extends), and operators back a      *)
(* deployment up, restore it and move it to PostgreSQL (Custody).  The two *)
(* share no state; the subject, chosen at the start, is the one that runs, *)
(* and the variables of the other keep their first value.                  *)
(* SignedOncePerRevision and RevocationNeverRefused are those of           *)
(* FirewallRollout.                                                        *)
(***************************************************************************)
EXTENDS FirewallRollout

VARIABLES subject, scene, old, seen, stable, pg, op, told, daemon, secret,
          catalog, cuts, budget

custody == <<scene, old, seen, stable, pg, op, told, daemon, secret, catalog,
             cuts, budget>>

(* A policy that names the second of two members.                          *)
NamesTwo == {[peers |-> <<2>>, dns |-> TRUE, effect |-> "runs"]}

-----------------------------------------------------------------------------
Deployment == INSTANCE Custody WITH MaxWrites <- 2

(* Two scenes of Custody, each with the commands that may be issued and    *)
(* the servers that may be started out of turn, and two faults or slips    *)
(* between them: enough for a second one to meet what the first left       *)
(* behind.                                                                 *)

(* Backup and restore of a current deployment, in which a node that routes *)
(* subnets may enroll.                                                     *)
Recovery ==
    [goal |-> "restore", versions |-> {Deployment!FirewallScopes}, routed |-> TRUE,
     slips |-> {"create", "createNew", "verify", "restore", "finalize",
                "old", "new"},
     budget |-> 2]

(* The import of an older deployment's backup into PostgreSQL.             *)
Migration ==
    [goal |-> "cutover", versions |-> {1, 2, 3}, routed |-> FALSE,
     slips |-> {"migrate", "import", "check", "telemetry", "old", "pg"},
     budget |-> 2]

CustodyIdle ==
    /\ scene = "idle" /\ old = "idle" /\ seen = "idle" /\ stable = "idle"
    /\ pg = "idle" /\ op = "idle" /\ told = "idle" /\ daemon = "idle"
    /\ secret = "idle" /\ catalog = "idle" /\ cuts = "idle" /\ budget = "idle"

-----------------------------------------------------------------------------
InitOperations ==
    /\ Init
    /\ \/ subject = "rollout" /\ CustodyIdle
       \/ subject = "custody" /\ Deployment!InitScene({Recovery, Migration})

NextOperations ==
    \/ /\ subject = "rollout"
       /\ Next
       /\ UNCHANGED <<subject, custody>>
    \/ /\ subject = "custody"
       /\ Deployment!Next
       /\ UNCHANGED <<subject, vars>>

(* Custody's Fairness.                                                     *)
CustodyFairness ==
    /\ WF_custody(subject = "custody" /\ Deployment!CommandStep)
    /\ WF_custody(subject = "custody" /\ Deployment!DaemonStep)
    /\ WF_custody(subject = "custody" /\ Deployment!Plan)

OperationsSpec ==
    /\ InitOperations
    /\ [][NextOperations]_<<subject, vars, custody>>
    /\ CustodyFairness

(* No interruption of a backup, a restore or a cutover loses or invents    *)
(* state: Custody!Safe.                                                    *)
CustodySafe == subject = "custody" => Deployment!Safe

(* None of them is a dead end: Custody!Recovers.                           *)
CustodyRecovers == []<>(subject = "custody" => Deployment!Restarted)
=============================================================================
