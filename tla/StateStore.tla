----------------------------- MODULE StateStore -----------------------------
(***************************************************************************)
(* What the control service relies on from its persistence boundary, the   *)
(* interface StateStore of internal/control/service.go: a View reads one   *)
(* stable snapshot; an Update commits all of its callback's mutations or   *)
(* none of them, once; and ErrUncertainCommit is the only answer after     *)
(* which an Update may or may not have taken effect.  FileStore and        *)
(* PostgresStore are shown to implement this module.                       *)
(*                                                                         *)
(* The document is the set of the updates whose mutations it contains, so  *)
(* that a lost, repeated or partly applied update shows.  Every request is *)
(* made once; a caller that tries again makes another request.             *)
(***************************************************************************)

CONSTANT Requests

VARIABLES
    doc,    \* the updates the stored document contains
    call    \* for each request, where it is and what its answer was based on

vars == <<doc, call>>

(***************************************************************************)
(* A request's phases: "holding" has taken its snapshot;                   *)
(* "done" is an Update that returned nil and changed the document; "read"  *)
(* is a View, or an Update that changed nothing, that returned nil;        *)
(* "refused" is an error that promises no effect; "uncertain" is           *)
(* ErrUncertainCommit, or an answer that never came.                       *)
(***************************************************************************)
Phases ==
    {"idle", "running", "holding", "done", "read", "refused", "uncertain"}

Calls == [phase : Phases, saw : SUBSET Requests]

NotCalled == [phase |-> "idle", saw |-> {}]

Running == {r \in Requests : call[r].phase \in {"running", "holding"}}

Answered(phase, saw) == [phase |-> phase, saw |-> saw]

Init ==
    /\ doc = {}
    /\ call = [r \in Requests |-> NotCalled]

Call(r) ==
    /\ call[r].phase = "idle"
    /\ call' = [call EXCEPT ![r] = Answered("running", {})]
    /\ UNCHANGED doc

(* The request takes the snapshot it will answer from, or its callback     *)
(* will change.                                                            *)
Observe(r) ==
    /\ call[r].phase = "running"
    /\ call' = [call EXCEPT ![r] = Answered("holding", doc)]
    /\ UNCHANGED doc

(* The update takes effect: in one step, at most once, and on the document *)
(* its callback was given.  One whose outcome is in doubt may still do so  *)
(* after its caller was told.                                              *)
TakeEffect(r) ==
    /\ call[r].phase \in {"holding", "uncertain"}
    /\ call[r].saw = doc
    /\ r \notin doc
    /\ doc' = doc \cup {r}
    /\ UNCHANGED call

Succeed(r) ==
    /\ call[r].phase = "holding"
    /\ r \in doc
    /\ call' = [call EXCEPT ![r] = Answered("done", @.saw \cup {r})]
    /\ UNCHANGED doc

Read(r) ==
    /\ r \in Running
    /\ r \notin doc
    /\ call' = [call EXCEPT ![r] =
                  Answered("read", IF @.phase = "holding" THEN @.saw ELSE doc)]
    /\ UNCHANGED doc

Refuse(r) ==
    /\ r \in Running
    /\ r \notin doc
    /\ call' = [call EXCEPT ![r] = Answered("refused", {})]
    /\ UNCHANGED doc

(* The answer to some of the running requests is lost or is                *)
(* ErrUncertainCommit.                                                     *)
Doubt(lost) ==
    /\ call' = [r \in Requests |->
                  IF r \in lost THEN Answered("uncertain", call[r].saw)
                  ELSE call[r]]
    /\ UNCHANGED doc

Next ==
    \/ \E r \in Requests :
          \/ Call(r) \/ Observe(r) \/ TakeEffect(r)
          \/ Succeed(r) \/ Read(r) \/ Refuse(r)
    \/ \E lost \in SUBSET Running : Doubt(lost)

Spec == Init /\ [][Next]_vars
=============================================================================
