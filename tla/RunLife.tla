------------------------------- MODULE RunLife -------------------------------
(***************************************************************************)
(* What the task engine promises about the runs of its tasks to somebody   *)
(* who only reads the table, however many processes work on it and die: a  *)
(* run is asked for or follows a failed one, waits, may be executed, and   *)
(* ends once.  Only an execution succeeds.  A task has one open run at a   *)
(* time unless its runs may queue, and a failure is followed up at most    *)
(* once, while nothing else has happened to its task.                      *)
(***************************************************************************)
EXTENDS Naturals

CONSTANTS
    Runs,      \* identities, in the order in which they are given out
    Tasks,
    Queueing   \* automations may queue behind an open run

VARIABLES
    phase,     \* "none", "queued", "executing", "succeeded", "failed", "dropped"
    of,        \* the task of a run
    after      \* the failed run it follows, or 0

lifeVars == <<phase, of, after>>

LifeInit ==
    /\ phase = [r \in Runs |-> "none"]
    /\ of \in [Runs -> Tasks]
    /\ after = [r \in Runs |-> 0]

Open == {r \in Runs : phase[r] \in {"queued", "executing"}}
Unborn(r) == phase[r] = "none" /\ \A q \in Runs : q < r => phase[q] # "none"
Latest(p) == \A q \in Runs : phase[q] # "none" /\ of[q] = of[p] => q <= p
Free(t) == \A q \in Open : of[q] # t

Born(r, t, p) ==
    /\ Unborn(r)
    /\ phase' = [phase EXCEPT ![r] = "queued"]
    /\ of' = [of EXCEPT ![r] = t]
    /\ after' = [after EXCEPT ![r] = p]

Ask(r, t) ==
    /\ Queueing \/ Free(t)
    /\ Born(r, t, 0)

Retry(r, p) ==
    /\ phase[p] = "failed"
    /\ Latest(p)
    /\ Free(of[p])
    /\ \A q \in Runs : after[q] # p
    /\ Born(r, of[p], p)

Start(r) ==
    /\ phase[r] = "queued"
    /\ phase' = [phase EXCEPT ![r] = "executing"]
    /\ UNCHANGED <<of, after>>

Succeed(r) ==
    /\ phase[r] = "executing"
    /\ phase' = [phase EXCEPT ![r] = "succeeded"]
    /\ UNCHANGED <<of, after>>

\* Turned down while it waited, failed when it ran, or found without an owner.
Fail(r) ==
    /\ r \in Open
    /\ phase' = [phase EXCEPT ![r] = "failed"]
    /\ UNCHANGED <<of, after>>

\* A cancellation takes several runs at once.
Drop(R) ==
    /\ R \subseteq Open
    /\ phase' = [r \in Runs |-> IF r \in R THEN "dropped" ELSE phase[r]]
    /\ UNCHANGED <<of, after>>

LifeNext ==
    \/ \E r \in Runs : Start(r) \/ Succeed(r) \/ Fail(r)
    \/ \E r \in Runs, t \in Tasks : Ask(r, t)
    \/ \E r, p \in Runs : Retry(r, p)
    \/ \E R \in SUBSET Open : Drop(R)

LifeSpec == LifeInit /\ [][LifeNext]_lifeVars
=============================================================================
