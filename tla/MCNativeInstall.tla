--------------------------- MODULE MCNativeInstall ---------------------------
(***************************************************************************)
(* The macOS and the Windows installer for TLC: an instance starts on a    *)
(* host of one system or of the other, and stays there.                    *)
(***************************************************************************)
EXTENDS DarwinInstall

CONSTANTS Processes, Operator, MaxCalls, MaxFaults

VARIABLES subject, wfiles, wtree, wservice, wlock, wwork, wcalls, wfaults

wvars == <<wfiles, wtree, wservice, wlock, wwork, wcalls, wfaults>>

MCReleases == 1..3

(* The second release needs no new root; the third one does and raises the *)
(* security floor over the first.                                          *)
MCRelease ==
    << [root |-> 1, floor |-> 1, bundle |-> 1, reads |-> {1}, write |-> 1],
       [root |-> 1, floor |-> 1, bundle |-> 2, reads |-> {1}, write |-> 1],
       [root |-> 2, floor |-> 2, bundle |-> 2, reads |-> {1, 2}, write |-> 1] >>

WindowsReleases == 1..2

WindowsRelease ==
    << [root |-> 1, floor |-> 1, bundle |-> 2, reads |-> {1}, write |-> 1],
       [root |-> 2, floor |-> 2, bundle |-> 2, reads |-> {1, 2}, write |-> 1] >>

(* Nothing installed, or a release running that was rolled back to.        *)
WindowsHosts ==
    {[state |-> [high |-> 0, active |-> 0, previous |-> 0], running |-> FALSE, open |-> FALSE],
     [state |-> [high |-> 2, active |-> 1, previous |-> 2], running |-> TRUE, open |-> TRUE]}

Windows == INSTANCE WindowsInstall WITH
    Releases <- WindowsReleases, Release <- WindowsRelease, Hosts <- WindowsHosts,
    files <- wfiles, tree <- wtree, service <- wservice, lock <- wlock, work <- wwork,
    calls <- wcalls, faults <- wfaults

SuiteInit ==
    /\ subject \in {"darwin", "windows"}
    /\ Init
    /\ Windows!Init
    /\ subject = "darwin" => wfiles.state.live.high = 0

SuiteNext ==
    \/ subject = "darwin" /\ Next /\ UNCHANGED <<subject, wvars>>
    \/ subject = "windows" /\ Windows!Next /\ UNCHANGED <<subject, vars>>

(* Fairness and Windows!Fairness, each on its own hosts.                   *)
SuiteFairness ==
    /\ WF_vars(subject = "darwin" /\ Step)
    /\ SF_vars(subject = "darwin" /\ Proceed)
    /\ \A p \in Processes : WF_wvars(subject = "windows" /\ Windows!Step(p))
    /\ WF_wvars(subject = "windows" /\ Windows!Proceed)

SuiteSpec == SuiteInit /\ [][SuiteNext]_<<subject, vars, wvars>> /\ SuiteFairness

(* Whatever is installed, rolled back, uninstalled or interrupted, the     *)
(* runtime gate stands open, and the node agent runs, only in front of one *)
(* published release that link, service and state agree on.                *)
NativeServes == Serves /\ Windows!Serves

(* Neither installer ever lowers its accepted release or its trusted root. *)
NativeAdvances == [][NeverLowered /\ Windows!NeverLowered]_<<vars, wvars>>

(* Every accepted intake, transaction and uninstall ends, from any crash.  *)
NativeEnds == Ends /\ Windows!Ends

=============================================================================
