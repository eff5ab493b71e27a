-------------------------- MODULE TaskStateMachine --------------------------
(***************************************************************************)
(* The status vocabulary and the pure decisions of the task engine:        *)
(* internal/task/state_machine.go and the status lists of model/task.go.   *)
(*                                                                         *)
(* A Task is an aggregate with a status of its own; a TaskRun is one       *)
(* attempt to execute it.  Both draw from the same eight names, but only   *)
(* the Task ever rests in "retrying".                                      *)
(***************************************************************************)
EXTENDS Naturals

\* The statuses a TaskRun can still leave, and the ones it never leaves.
ActiveStatuses == {"pending", "running", "retrying"}
TerminalStatuses == {"success", "failed", "canceled", "warning", "skipped"}
Statuses == ActiveStatuses \cup TerminalStatuses

\* The edges of StateMachine.ValidateTransition other than staying put.
TransitionEdges ==
    ({"pending"} \X {"running", "canceled", "skipped"})
    \cup ({"running"} \X {"success", "failed", "retrying", "canceled", "warning"})
    \cup ({"retrying"} \X {"running", "failed", "canceled"})
    \cup ({"success", "failed", "canceled", "skipped"} \X {"pending"})
    \cup ({"warning"} \X {"pending", "running", "canceled"})

ValidTransition(from, to) == from = to \/ <<from, to>> \in TransitionEdges

(***************************************************************************)
(* What a failed attempt does to the aggregate: another attempt while the  *)
(* retry budget lasts, "failed" otherwise.  The deadline of the retry is   *)
(* data no property here depends on.                                       *)
(***************************************************************************)
NextAfterFailureUncounted(from, count, max) ==      \* slip: the attempt is not counted
    IF from \in {"running", "retrying"} /\ max > 0 /\ count < max
    THEN [status |-> "retrying", count |-> count]
    ELSE [status |-> "failed", count |-> count]
NextAfterFailure(from, count, max) ==
    IF from \in {"running", "retrying"} /\ max > 0 /\ count < max
    THEN [status |-> "retrying", count |-> count + 1]
    ELSE [status |-> "failed", count |-> count]
=============================================================================
