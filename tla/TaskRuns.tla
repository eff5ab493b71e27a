------------------------------ MODULE TaskRuns ------------------------------
(***************************************************************************)
(* The durable execution core of the task engine (internal/task): how      *)
(* several server processes ("cores") share one database, reserve a        *)
(* TaskRun, fence it with an ownership lease, enter it, settle it together *)
(* with its Task, publish the retry it earned, and repair what a dead      *)
(* process left behind.                                                    *)
(*                                                                         *)
(* Every database transaction of the code is one step; so is every access  *)
(* to the process-local ownership slot.  Between two steps of one core any *)
(* step of any other may happen.  A core that dies never comes back: the   *)
(* code draws a new random owner identity at every start, so a restarted   *)
(* process is another element of Cores.                                    *)
(***************************************************************************)
EXTENDS Naturals, FiniteSets, TaskStateMachine

CONSTANTS
    Cores,          \* server processes (execution owner identities)
    NoCore,         \* the empty execution_owner_id
    Serving,        \* the cores whose API answers Cancel, Pause and Resume
    Tasks,          \* tasks of one policy
    Rivals,         \* pairs of tasks that share a node
    MaxTriggers,    \* bound: runs that are not retries
    MaxRuns,        \* bound: TaskRun rows
    MaxRetries,     \* the policy's retry budget
    MaxAttempts,    \* taskRunEffectMaxAttempts
    MaxConcurrent,  \* bound: the largest quota the policy is given
    Faults          \* what the environment does in this instance

FaultKinds == {"crash", "shutdown", "skew", "deadline", "maintenance", "refuse",
               "renewError", "deliveryError", "cancel", "pause", "policy", "edit", "auto"}

ASSUME ConstantsAssumption ==
    /\ NoCore \notin Cores
    /\ Serving \subseteq Cores
    /\ Tasks # {}
    /\ MaxRuns \in Nat
    /\ MaxRetries \in Nat
    /\ MaxAttempts \in Nat \ {0}
    /\ MaxConcurrent \in Nat \ {0}
    /\ Faults \subseteq FaultKinds

\* Sharing a node is symmetric, and a task is no rival of its own
\* (hasRunningConflict excludes the task it is asked about).
ASSUME RivalsAssumption ==
    \A t, u \in Tasks : <<t, u>> \in Rivals => t # u /\ <<u, t>> \in Rivals

RunIds == 1..MaxRuns

VARIABLES
    task,     \* tasks: status, retry_count, enabled
    run,      \* task_runs: one row per id, "none" before it is inserted
    effect,   \* task_run_effects: the retry effect of each run
    worker,   \* per core and task: pendingRuns slot and the runner's state
    courier,  \* per core and run: a claimed retry effect being delivered
    sweep,    \* per core: the run a recovery sweep has claimed
    api,      \* per core and task: a Cancel or Pause request in progress
    core,     \* life cycle of each process
    policy    \* the policy row: enabled, max_concurrent

vars == <<task, run, effect, worker, courier, sweep, api, core, policy>>
rows == <<task, run, effect>>

WorkerPcs == {"idle", "admitted", "reserved", "rejected", "claimed", "loaded",
              "limited", "refused", "entered", "provider", "settle", "recover"}
CancelPcs == {"read", "signaled", "orphan", "fallback", "overwrite"}
PausePcs == {"pausing", "pauseOverwrite"}
Outcomes == {"success", "warning", "failed", "final", "timeout", "canceled"}

Idle == [pc |-> "idle", run |-> 0, seen |-> "none", tries |-> 0,
         outcome |-> "none", canceled |-> FALSE, kind |-> "none", barred |-> FALSE]
Quiet == [pc |-> "idle", seen |-> "none"]
NoClaim == [run |-> 0, seen |-> "none"]
NoEffect == [status |-> "none", owner |-> NoCore, lease |-> FALSE, attempts |-> 0]
NoRun(t) == [status |-> "none", task |-> t, trigger |-> "manual",
             owner |-> NoCore, lease |-> FALSE, pred |-> 0]

TaskRow == [status : Statuses, retries : 0..MaxRetries, enabled : BOOLEAN]
RunRow == [status : Statuses \cup {"none"}, task : Tasks, trigger : {"manual", "auto", "retry"},
           owner : Cores \cup {NoCore}, lease : BOOLEAN, pred : 0..MaxRuns]
EffectRow == [status : {"none", "pending", "running", "failed", "succeeded"},
              owner : Cores \cup {NoCore}, lease : BOOLEAN, attempts : 0..MaxAttempts]
Runner == [pc : WorkerPcs, run : 0..MaxRuns, seen : Statuses \cup {"none"}, tries : 0..MaxRetries,
           outcome : Outcomes \cup {"none"}, canceled : BOOLEAN,
           kind : {"none", "user", "shutdown"}, barred : BOOLEAN]
Claim == [run : 0..MaxRuns, seen : Statuses \cup {"none"}]
Request == [pc : {"idle"} \cup CancelPcs \cup PausePcs, seen : Statuses \cup {"none"}]

\* Every row and every process-local record is well formed; in particular an
\* effect is never claimed more than MaxAttempts times (claimTaskRunEffect).
TypeOK ==
    /\ task \in [Tasks -> TaskRow]
    /\ run \in [RunIds -> RunRow]
    /\ effect \in [RunIds -> EffectRow]
    /\ worker \in [Cores -> [Tasks -> Runner]]
    /\ courier \in [Cores -> [RunIds -> {"none", "claimed", "failing"}]]
    /\ sweep \in [Cores -> Claim]
    /\ api \in [Cores -> [Tasks -> Request]]
    /\ core \in [Cores -> {"up", "sealed", "draining", "down"}]
    /\ policy \in [enabled : BOOLEAN, quota : 1..MaxConcurrent]

Init ==
    /\ task = [t \in Tasks |-> [status |-> "pending", retries |-> 0, enabled |-> TRUE]]
    /\ run = [r \in RunIds |-> NoRun(CHOOSE t \in Tasks : TRUE)]
    /\ effect = [r \in RunIds |-> NoEffect]
    /\ worker = [c \in Cores |-> [t \in Tasks |-> Idle]]
    /\ courier = [c \in Cores |-> [r \in RunIds |-> "none"]]
    /\ sweep = [c \in Cores |-> NoClaim]
    /\ api = [c \in Cores |-> [t \in Tasks |-> Quiet]]
    /\ core = [c \in Cores |-> "up"]
    /\ policy = [enabled |-> TRUE, quota |-> MaxConcurrent]

-----------------------------------------------------------------------------
(* Queries the transactions make, and the row updates they share. *)

Active(r) == run[r].status \in ActiveStatuses
RunsOf(t) == {r \in RunIds : run[r].status # "none" /\ run[r].task = t}
IsLatest(r) == r \in RunsOf(run[r].task) /\ \A q \in RunsOf(run[r].task) : q <= r
Fresh(r) == run[r].status = "none" /\ \A q \in RunIds : q < r => run[q].status # "none"
Triggered == {r \in RunIds : run[r].status # "none" /\ run[r].trigger # "retry"}

\* A run that survives its launcher: recovery starts it again, nobody fails it.
Durable(r) == run[r].status = "pending" /\ run[r].trigger \in {"auto", "retry"}

\* The two ownership predicates of the WHERE clauses: the capability, and the
\* capability or a lapsed lease.
Owned(c, r) == run[r].owner \in {NoCore, c}
ClaimableAlways(c, r) == TRUE                        \* slip: lease not looked at
Claimable(c, r) == Owned(c, r) \/ ~run[r].lease

PolicyRuns(statuses) == {r \in RunIds : run[r].status \in statuses}
ReserveSlot == Cardinality(PolicyRuns({"pending", "running"})) < policy.quota
AdmitSlotOver(r) == Cardinality(PolicyRuns({"running"}) \ {r}) <= policy.quota  \* slip: off by one
AdmitSlot(r) == Cardinality(PolicyRuns({"running"}) \ {r}) < policy.quota

MayRun(t) == task[t].enabled /\ policy.enabled
RivalRunning(t) == \E u \in Tasks : <<t, u>> \in Rivals /\ task[u].status = "running"

Closed(R, s) ==
    [r \in RunIds |-> IF r \in R
                      THEN [run[r] EXCEPT !.status = s, !.owner = NoCore, !.lease = FALSE]
                      ELSE run[r]]
WithOwner(r, c, leased) == [run EXCEPT ![r].owner = c, ![r].lease = leased]
WithStatus(t, s) == [task EXCEPT ![t].status = s]
Published(r) ==
    IF effect[r].status = "none" THEN [effect EXCEPT ![r].status = "pending"] ELSE effect
Insert(r, t, trigger, pred, leased) ==
    [run EXCEPT ![r] = [status |-> "pending", task |-> t, trigger |-> trigger,
                        owner |-> NoCore, lease |-> leased, pred |-> pred]]

Freed(c, t) == [worker EXCEPT ![c][t] = Idle]
Moved(c, t, pc) == [worker EXCEPT ![c][t].pc = pc]

At(c, t, pc) == core[c] # "down" /\ worker[c][t].pc = pc

(***************************************************************************)
(* terminalizeTaskRunTx.  The run closes together with its Task, and the   *)
(* retry effect is inserted in the same transaction exactly when the run   *)
(* failed and left its Task retrying.  A pending duplicate of a run that   *)
(* somebody owns closes alone.  target = the current status stands for the *)
(* code's nil taskStatus.                                                  *)
(***************************************************************************)
Duplicate(r) ==
    /\ run[r].status = "pending"
    /\ \E q \in RunIds \ {r} : run[q].task = run[r].task /\ Active(q) /\ run[q].owner # NoCore

TerminalOKLate(owners, r, expected, target) ==       \* slip: status of the row not looked at
    run[r].owner \in owners /\ ValidTransition(task[run[r].task].status, target)
TerminalOK(owners, r, expected, target) ==
    /\ run[r].status \in expected
    /\ run[r].owner \in owners
    /\ Duplicate(r) \/ ValidTransition(task[run[r].task].status, target)

Terminalize(r, target, n, to) ==
    LET t == run[r].task IN
    /\ run' = Closed({r}, to)
    /\ task' = IF Duplicate(r) THEN task
               ELSE [task EXCEPT ![t].status = target, ![t].retries = n]
    /\ effect' = IF ~Duplicate(r) /\ to = "failed" /\ target = "retrying"
                 THEN Published(r) ELSE effect

\* Target of a recovery: an aggregate in flight fails, any other is kept.
RecoveryTargetKept(t) == task[t].status              \* slip: Task forgotten
RecoveryTarget(t) ==
    IF task[t].status \in {"running", "retrying"} THEN "failed" ELSE task[t].status

\* A runner's attempt to settle: done when the transaction commits or finds the
\* requested result already there, otherwise left to the deferred recovery.
Conclude(c, t, owners, expected, target, n, to) ==
    LET r == worker[c][t].run IN
    \/ /\ TerminalOK(owners, r, expected, target)
       /\ Terminalize(r, target, n, to)
       /\ worker' = Freed(c, t)
    \/ /\ ~TerminalOK(owners, r, expected, target)
       /\ worker' = IF run[r].status = to THEN Freed(c, t) ELSE Moved(c, t, "recover")
       /\ UNCHANGED rows

(***************************************************************************)
(* failTaskRunBeforeExecutor.  The Task is touched only when the refused   *)
(* run is the current retry, which then spends one unit of the budget.     *)
(***************************************************************************)
CanReject(c, r) == Active(r) /\ Owned(c, r)

Reject(r) ==
    LET t == run[r].task
        next == NextAfterFailure("retrying", task[t].retries, MaxRetries)
        current == run[r].trigger = "retry" /\ task[t].status = "retrying" /\ IsLatest(r)
    IN
    /\ run' = Closed({r}, "failed")
    /\ task' = IF current
               THEN [task EXCEPT ![t].status = next.status, ![t].retries = next.count]
               ELSE task
    /\ effect' = IF current /\ next.status = "retrying" THEN Published(r) ELSE effect

-----------------------------------------------------------------------------
(* Admission: how a run comes to exist and into a core's slot. *)

\* triggerCoreWithExpectedCronSpec, the manual path: take the local slot and
\* look, without locks, whether the task may run.
Trigger(c, t) ==
    /\ core[c] = "up"
    /\ worker[c][t].pc = "idle"
    /\ task[t].enabled
    /\ policy.enabled
    /\ task[t].status # "running"
    /\ Cardinality(Triggered) < MaxTriggers
    /\ worker' = [worker EXCEPT ![c][t] = [Idle EXCEPT !.pc = "admitted"]]
    /\ UNCHANGED <<task, run, effect, courier, sweep, api, core, policy>>

\* reserveTaskRun: the row is inserted by a transaction that checks again
\* everything but the policy's switch.
Reserve(c, t) ==
    LET open == /\ task[t].enabled
                /\ task[t].status # "running"
                /\ \A r \in RunsOf(t) : ~Active(r)
                /\ ~RivalRunning(t)
                /\ ReserveSlot
                /\ ~worker[c][t].canceled
    IN
    /\ At(c, t, "admitted")
    /\ \/ /\ open
          /\ Cardinality(Triggered) < MaxTriggers
          /\ \E r \in RunIds :
                /\ Fresh(r)
                /\ run' = Insert(r, t, "manual", 0, TRUE)
                /\ worker' = [worker EXCEPT ![c][t].pc = "reserved", ![c][t].run = r]
       \/ /\ ~open \/ Cardinality(Triggered) >= MaxTriggers
          /\ run' = run
          /\ worker' = Freed(c, t)
    /\ UNCHANGED <<task, effect, courier, sweep, api, core, policy>>

\* ReserveAutomationRunTx: inserted by the automation dispatcher.  The count of
\* active runs is taken there and never looked at.
ReserveAuto(t) ==
    /\ "auto" \in Faults
    /\ task[t].enabled
    /\ policy.enabled
    /\ ReserveSlot
    /\ Cardinality(Triggered) < MaxTriggers
    /\ \E r \in RunIds : Fresh(r) /\ run' = Insert(r, t, "auto", 0, FALSE)
    /\ UNCHANGED <<task, effect, worker, courier, sweep, api, core, policy>>

LaunchDurableEnabled(c, r) ==                        \* slip: switched off, so skipped
    /\ core[c] = "up" /\ Durable(r) /\ Claimable(c, r) /\ MayRun(run[r].task)
    /\ worker[c][run[r].task].pc = "idle"
    /\ worker' = [worker EXCEPT ![c][run[r].task] = [Idle EXCEPT !.pc = "reserved", !.run = r]]
    /\ UNCHANGED <<task, run, effect, courier, sweep, api, core, policy>>

\* reconcilePendingDurableRuns / launchDurableTaskRun: take the slot of a
\* durable pending run, or cancel it when its task or policy was switched off.
LaunchDurable(c, r) ==
    LET t == run[r].task IN
    /\ core[c] = "up"
    /\ Durable(r)
    /\ Claimable(c, r)
    /\ worker[c][t].pc = "idle"
    /\ \/ /\ MayRun(t)
          /\ worker' = [worker EXCEPT ![c][t] = [Idle EXCEPT !.pc = "reserved", !.run = r]]
          /\ UNCHANGED rows
       \/ /\ ~MayRun(t)
          /\ run' = Closed({r}, "canceled")
          /\ task' = IF run[r].trigger = "retry" /\ task[t].status = "retrying"
                     THEN WithStatus(t, "canceled") ELSE task
          /\ UNCHANGED <<effect, worker>>
    /\ UNCHANGED <<courier, sweep, api, core, policy>>

(***************************************************************************)
(* cancelTaskRunBeforeExecutorWithOwnership: a runner that never reached   *)
(* the executor gives its pending run up.  A shutdown releases it, any     *)
(* other cancellation settles it as canceled; the Task is left alone.      *)
(***************************************************************************)
CancelBusyForEver(c, t) == worker[c][t].kind = "user" \* slip: Cancel never reports back
CancelBusy(c, t) == api[c][t].pc \in CancelPcs

GivenUpCanceled(r, shutdown) == Closed({r}, "canceled") \* slip: shutdown taken for a cancel
GivenUp(r, shutdown) ==
    IF shutdown THEN WithOwner(r, NoCore, FALSE) ELSE Closed({r}, "canceled")

GiveUp(c, t, onError) ==
    LET r == worker[c][t].run
        shutdown == worker[c][t].kind = "shutdown"
        done == IF shutdown THEN run[r].status \in TerminalStatuses
                ELSE run[r].status = "canceled"
        allowed == run[r].status = "pending" /\ IF shutdown THEN Claimable(c, r) ELSE Owned(c, r)
    IN
    /\ worker[c][t].kind = "user" => ~CancelBusy(c, t)
    /\ run' = IF done \/ ~allowed THEN run ELSE GivenUp(r, shutdown)
    /\ worker' = IF done \/ allowed THEN Freed(c, t) ELSE onError
    /\ UNCHANGED <<task, effect>>

\* handoffPendingRunAdmission and claimTaskRunOwner: the reservation becomes a
\* goroutine that claims the lease, unless admission was sealed first.  A claim the
\* database did not answer ("renewError") settles nothing.
Launch(c, t) ==
    LET r == worker[c][t].run IN
    /\ At(c, t, "reserved")
    /\ \/ /\ core[c] = "up"
          /\ IF run[r].status \in {"pending", "running"} /\ Claimable(c, r)
             THEN run' = WithOwner(r, c, TRUE) /\ worker' = Moved(c, t, "claimed")
             ELSE run' = run /\ worker' = Moved(c, t, "rejected")
          /\ UNCHANGED <<task, effect>>
       \/ /\ core[c] # "up" /\ run[r].trigger = "manual"
          /\ GiveUp(c, t, Freed(c, t))
       \/ /\ IF core[c] = "up" THEN "renewError" \in Faults ELSE run[r].trigger # "manual"
          /\ worker' = Freed(c, t)
          /\ UNCHANGED rows
    /\ UNCHANGED <<courier, sweep, api, core, policy>>

\* The claim was lost: close the row if nobody owns it, and leave.
FailUnclaimed(c, t) ==
    LET r == worker[c][t].run IN
    /\ At(c, t, "rejected")
    /\ \/ CanReject(c, r) /\ Reject(r)
       \/ ~CanReject(c, r) /\ UNCHANGED rows
    /\ worker' = Freed(c, t)
    /\ UNCHANGED <<courier, sweep, api, core, policy>>

-----------------------------------------------------------------------------
(* The runner: runTaskWithContext between the claim and the provider. *)

AbortLoaded(c, t) ==                                 \* slip: the queue does not watch the context
    /\ At(c, t, "loaded") \/ At(c, t, "limited")
    /\ At(c, t, "loaded") => worker[c][t].canceled
    /\ GiveUp(c, t, Moved(c, t, "recover"))
    /\ UNCHANGED <<courier, sweep, api, core, policy>>

\* The context is gone (told to stop, or past its deadline in the queue or at a
\* lock), or somebody settled the run, before durable entry; or the quota refused
\* the entry.
Abort(c, t) ==
    /\ \/ At(c, t, "claimed") /\ (worker[c][t].canceled \/ run[worker[c][t].run].status = "canceled")
       \/ At(c, t, "loaded") /\ worker[c][t].canceled
       \/ At(c, t, "limited")
    /\ GiveUp(c, t, Moved(c, t, "recover"))
    /\ UNCHANGED <<courier, sweep, api, core, policy>>

MayLoad(c, t) ==
    /\ At(c, t, "claimed")
    /\ ~worker[c][t].canceled
    /\ run[worker[c][t].run].status # "canceled"

\* The node is archived or inside its maintenance window.
NodeRefuses(c, t) ==
    /\ "maintenance" \in Faults
    /\ MayLoad(c, t)
    /\ Conclude(c, t, {NoCore, c}, {"pending"}, task[t].status, task[t].retries, "canceled")
    /\ UNCHANGED <<courier, sweep, api, core, policy>>

\* Task row and conflicts are read under the core's strategy lock; a task that
\* is running, or has a rival that is, sends the runner to its recovery.
HoldsStrategyLockNever(c, u) == FALSE                \* slip: lock let go before entry
HoldsStrategyLock(c, u) ==
    worker[c][u].pc \in {"loaded", "limited", "refused", "entered", "provider", "settle"}

Load(c, t) ==
    /\ MayLoad(c, t)
    /\ \A u \in Tasks : <<t, u>> \in Rivals => ~HoldsStrategyLock(c, u)
    /\ worker' = IF task[t].status = "running" \/ RivalRunning(t)
                 THEN Moved(c, t, "recover")
                 ELSE [worker EXCEPT ![c][t].pc = "loaded", ![c][t].seen = task[t].status]
    /\ UNCHANGED <<task, run, effect, courier, sweep, api, core, policy>>

(***************************************************************************)
(* enterTaskExecutionForReason and EnterTaskExecutionTx.  The run's CAS is *)
(* on its status alone and the Task's on the status read by Load: nobody   *)
(* asks whether this core still owns the lease.                            *)
(***************************************************************************)
EntryOpen(c, t) == At(c, t, "loaded") /\ ~worker[c][t].canceled

Enter(c, t) ==
    LET r == worker[c][t].run IN
    /\ EntryOpen(c, t)
    /\ task[t].enabled
    /\ run[r].status = "pending"
    /\ AdmitSlot(r)
    /\ task[t].status = worker[c][t].seen
    /\ run' = [run EXCEPT ![r].status = "running"]
    /\ task' = WithStatus(t, "running")
    /\ worker' = [worker EXCEPT ![c][t].pc = "entered", ![c][t].tries = task[t].retries]
    /\ UNCHANGED <<effect, courier, sweep, api, core, policy>>

\* cancelQueuedCronRunTx: the task was paused while the run was queued.
EnterPaused(c, t) ==
    LET r == worker[c][t].run IN
    /\ EntryOpen(c, t)
    /\ ~task[t].enabled
    /\ IF run[r].status = "pending" /\ Owned(c, r)
       THEN run' = Closed({r}, "canceled") /\ worker' = Freed(c, t)
       ELSE run' = run /\ worker' = Moved(c, t, "refused")
    /\ UNCHANGED <<task, effect, courier, sweep, api, core, policy>>

\* The entry transaction rolled back: the quota is spent, a compare-and-swap
\* was lost, or the run no longer matches its task ("refuse").
EnterRefused(c, t) ==
    LET r == worker[c][t].run IN
    /\ EntryOpen(c, t)
    /\ task[t].enabled
    /\ \/ /\ run[r].status = "pending" /\ ~AdmitSlot(r)
          /\ worker' = Moved(c, t, "limited")
       \/ /\ \/ run[r].status # "pending"
             \/ AdmitSlot(r) /\ task[t].status # worker[c][t].seen
             \/ "refuse" \in Faults
          /\ worker' = Moved(c, t, "refused")
    /\ UNCHANGED <<task, run, effect, courier, sweep, api, core, policy>>

FailRefused(c, t) ==
    LET r == worker[c][t].run IN
    /\ At(c, t, "refused")
    /\ \/ CanReject(c, r) /\ Reject(r) /\ worker' = Freed(c, t)
       \/ /\ ~CanReject(c, r)
          /\ worker' = IF Active(r) THEN Moved(c, t, "recover") ELSE Freed(c, t)
          /\ UNCHANGED rows
    /\ UNCHANGED <<courier, sweep, api, core, policy>>

\* cancelTaskExecutionBeforeExecutor: entered, but the provider never starts;
\* the Task gets back the status it had before the entry.
CancelEntered(c, t) ==
    LET r == worker[c][t].run
        allowed == run[r].status = "running" /\ Owned(c, r) /\ task[t].status = "running"
    IN
    /\ At(c, t, "entered")
    /\ worker[c][t].canceled \/ worker[c][t].barred
    /\ worker[c][t].kind = "user" => ~CancelBusy(c, t)
    /\ run' = IF allowed THEN Closed({r}, "canceled") ELSE run
    /\ task' = IF allowed THEN WithStatus(t, worker[c][t].seen) ELSE task
    /\ worker' = IF allowed \/ run[r].status = "canceled" THEN Freed(c, t)
                 ELSE Moved(c, t, "recover")
    /\ UNCHANGED <<effect, courier, sweep, api, core, policy>>

\* failTaskExecutionBeforeExecutor: a hook failed, or was killed with the context;
\* no retry is scheduled.
PreProviderFail(c, t) ==
    /\ At(c, t, "entered")
    /\ "refuse" \in Faults \/ worker[c][t].canceled
    /\ Conclude(c, t, {c}, {"running"}, "failed", task[t].retries, "failed")
    /\ UNCHANGED <<courier, sweep, api, core, policy>>

BeginProvider(c, t) ==
    /\ At(c, t, "entered")
    /\ ~worker[c][t].canceled
    /\ ~worker[c][t].barred
    /\ worker' = Moved(c, t, "provider")
    /\ UNCHANGED <<task, run, effect, courier, sweep, api, core, policy>>

\* The executor returned.  A dead context or a canceled Task wins over the exit
\* code, as "timeout" or "canceled"; a context that dies only in the verification
\* may still leave "warning".  "timeout" and "final" (the provider suppresses
\* retries) earn no further attempt.
ProviderReturns(c, t) ==
    LET dead == worker[c][t].canceled
        gone == task[t].status = "canceled"
    IN
    /\ At(c, t, "provider")
    /\ \E o \in Outcomes :
          /\ o \in {"success", "failed"} => ~dead /\ ~gone
          /\ o = "warning" => dead \/ ~gone
          /\ o = "canceled" => dead \/ gone
          /\ worker' = [worker EXCEPT ![c][t].pc = "settle", ![c][t].outcome = o]
    /\ UNCHANGED <<task, run, effect, courier, sweep, api, core, policy>>

\* The terminal transaction of the outcome.
Settle(c, t) ==
    LET o == worker[c][t].outcome
        next == NextAfterFailure("running", worker[c][t].tries, MaxRetries)
    IN
    /\ At(c, t, "settle")
    /\ Conclude(c, t, {NoCore, c}, {"running"},
                CASE o = "failed" -> next.status
                  [] o \in {"final", "timeout"} -> "failed"
                  [] OTHER -> o,
                CASE o \in {"failed", "final"} -> next.count
                  [] o \in {"timeout", "canceled"} -> task[t].retries
                  [] OTHER -> 0,
                IF o \in {"final", "timeout"} THEN "failed" ELSE o)
    /\ UNCHANGED <<courier, sweep, api, core, policy>>

\* recoverTaskRunOnReturn, the deferred guard of a runner that settled nothing.
Recover(c, t) ==
    LET r == worker[c][t].run IN
    /\ At(c, t, "recover")
    /\ \/ /\ TerminalOK({NoCore, c}, r, ActiveStatuses, RecoveryTarget(t))
          /\ Terminalize(r, RecoveryTarget(t), task[t].retries, "failed")
       \/ /\ ~TerminalOK({NoCore, c}, r, ActiveStatuses, RecoveryTarget(t))
          /\ UNCHANGED rows
    /\ worker' = Freed(c, t)
    /\ UNCHANGED <<courier, sweep, api, core, policy>>

-----------------------------------------------------------------------------
(* Leases: expiry is a step of its own, because the clock decides it. *)

\* Somebody alive is about to renew or settle the lease.  The heartbeat stops
\* with the run's context, so a runner that was canceled, or whose deadline has
\* passed, no longer counts.
LeaseKept(r) ==
    \E c \in Cores :
       \/ sweep[c].run = r
       \/ /\ worker[c][run[r].task].run = r
          /\ worker[c][run[r].task].pc # "rejected"
          /\ ~worker[c][run[r].task].canceled

\* "skew": a paused process or a fast clock makes a kept lease look expired.
RunLeaseExpires(r) ==
    /\ Active(r)
    /\ run[r].lease
    /\ "skew" \in Faults \/ ~LeaseKept(r)
    /\ run' = [run EXCEPT ![r].lease = FALSE]
    /\ UNCHANGED <<task, effect, worker, courier, sweep, api, core, policy>>

Beating(c, t) ==
    /\ core[c] \in {"up", "sealed"}
    /\ worker[c][t].pc \in {"claimed", "loaded", "limited", "refused", "entered", "provider", "settle"}
    /\ ~worker[c][t].canceled

\* startTaskRunHeartbeat / renewTaskRunOwner: losing the row cancels the run's
\* context; so does a renewal the database did not answer.
Heartbeat(c, t) ==
    LET r == worker[c][t].run IN
    /\ Beating(c, t)
    /\ \/ /\ Active(r) /\ run[r].owner = c /\ ~run[r].lease
          /\ run' = WithOwner(r, c, TRUE)
          /\ worker' = worker
       \/ /\ ~(Active(r) /\ run[r].owner = c) \/ "renewError" \in Faults
          /\ run' = run
          /\ worker' = [worker EXCEPT ![c][t].canceled = TRUE]
    /\ UNCHANGED <<task, effect, courier, sweep, api, core, policy>>

\* newRunContext / computeExecTimeout: the run's context has a deadline, counted
\* from its launch, so that it also passes in the queue; heartbeat and provider end
\* with the context.
DeadlinePasses(c, t) ==
    /\ "deadline" \in Faults
    /\ core[c] # "down"
    /\ worker[c][t].pc # "idle"
    /\ ~worker[c][t].canceled
    /\ worker' = [worker EXCEPT ![c][t].canceled = TRUE]
    /\ UNCHANGED <<task, run, effect, courier, sweep, api, core, policy>>

-----------------------------------------------------------------------------
(* Recovery sweeps: Manager.Run at start-up and on every tick. *)

\* A run whose lease lapsed, which no runner of this process holds and no launch
\* will pick up again.
ReapableLive(c, r) == Active(r) /\ ~Durable(r) /\ worker[c][run[r].task].pc = "idle" \* slip: lease not looked at
ReapableRunning(c, r) ==                             \* slip: abandoned reservations missed
    run[r].status = "running" /\ ~run[r].lease /\ worker[c][run[r].task].pc = "idle"
Reapable(c, r) ==
    Active(r) /\ ~Durable(r) /\ ~run[r].lease /\ worker[c][run[r].task].pc = "idle"

\* reconcileExpiredOrdinaryRuns: claim such a run.
ReapClaim(c, r) ==
    /\ core[c] \in {"up", "sealed"}
    /\ sweep[c] = NoClaim
    /\ Reapable(c, r)
    /\ run' = WithOwner(r, c, TRUE)
    /\ sweep' = [sweep EXCEPT ![c] = [run |-> r, seen |-> run[r].status]]
    /\ UNCHANGED <<task, effect, worker, courier, api, core, policy>>

\* reconcileClaimedOrdinaryRun: fail it, if it is still in the state it was
\* selected in.
ReapSettle(c) ==
    LET r == sweep[c].run
        t == run[r].task
    IN
    /\ core[c] # "down"
    /\ sweep[c] # NoClaim
    /\ \/ /\ TerminalOK({NoCore, c}, r, {sweep[c].seen}, RecoveryTarget(t))
          /\ Terminalize(r, RecoveryTarget(t), task[t].retries, "failed")
       \/ /\ ~TerminalOK({NoCore, c}, r, {sweep[c].seen}, RecoveryTarget(t))
          /\ UNCHANGED rows
    /\ sweep' = [sweep EXCEPT ![c] = NoClaim]
    /\ UNCHANGED <<worker, courier, api, core, policy>>

\* reconstructMissingRetryEffect: a retrying task whose latest run failed
\* without leaving a retry effect.
RebuildRetryEffect(c, r) ==
    LET t == run[r].task IN
    /\ core[c] \in {"up", "sealed"}
    /\ task[t].status = "retrying"
    /\ IsLatest(r)
    /\ run[r].status = "failed"
    /\ effect[r].status = "none"
    /\ \A q \in RunsOf(t) : ~Active(q)
    /\ effect' = Published(r)
    /\ UNCHANGED <<task, run, worker, courier, sweep, api, core, policy>>

-----------------------------------------------------------------------------
(* Delivery of the retry effect, at most MaxAttempts claims. *)

\* Queued, or claimed by somebody whose lease lapsed, with attempts left.
EffectReadyUnbounded(r) == effect[r].status \in {"pending", "failed"} \* slip: attempts not counted
EffectReadyQueued(r) ==                              \* slip: lapsed claims not taken over
    effect[r].attempts < MaxAttempts /\ effect[r].status \in {"pending", "failed"}
EffectReady(r) ==
    /\ effect[r].attempts < MaxAttempts
    /\ effect[r].status \in {"pending", "failed"} \/ (effect[r].status = "running" /\ ~effect[r].lease)

\* claimTaskRunEffect.  A process that is shutting down still drains the
\* effects of the runs it settles.
ClaimEffect(c, r) ==
    /\ core[c] # "down"
    /\ courier[c][r] = "none"
    /\ EffectReady(r)
    /\ effect' = [effect EXCEPT ![r] = [status |-> "running", owner |-> c, lease |-> TRUE,
                                        attempts |-> effect[r].attempts + 1]]
    /\ courier' = [courier EXCEPT ![c][r] = "claimed"]
    /\ UNCHANGED <<task, run, worker, sweep, api, core, policy>>

SucceededLater(r) == [effect EXCEPT ![r].status = "pending"] \* slip: marked in another transaction
Succeeded(r) ==
    [effect EXCEPT ![r].status = "succeeded", ![r].owner = NoCore, ![r].lease = FALSE]
ClaimHeld(c, r) == effect[r].status = "running" /\ effect[r].owner = c

SupersededByHistory(r) ==                            \* slip: counts settled runs too
    ~MayRun(run[r].task) \/ task[run[r].task].status # "retrying" \/ RunsOf(run[r].task) # {r}
SupersededNever(r) ==                                \* slip: other runs not looked at
    ~MayRun(run[r].task) \/ task[run[r].task].status # "retrying"

\* The reservation no longer stands: paused, no longer retrying, or overtaken.
Superseded(r) ==
    LET t == run[r].task IN
    \/ ~MayRun(t)
    \/ task[t].status # "retrying"
    \/ ~IsLatest(r)
    \/ \E q \in RunsOf(t) \ {r} : Active(q)

\* executeRetryTaskRunEffect: one transaction inserts the retry run and marks
\* the effect succeeded, or resolves a reservation that was superseded.
DeliverRetry(c, r) ==
    LET t == run[r].task IN
    /\ core[c] # "down"
    /\ courier[c][r] = "claimed"
    /\ \/ /\ ClaimHeld(c, r) /\ Superseded(r)
          /\ task' = IF ~MayRun(t) /\ task[t].status = "retrying"
                     THEN WithStatus(t, "canceled") ELSE task
          /\ effect' = Succeeded(r)
          /\ courier' = [courier EXCEPT ![c][r] = "none"]
          /\ run' = run
       \/ /\ ClaimHeld(c, r) /\ ~Superseded(r) /\ ReserveSlot
          /\ \E q \in RunIds : Fresh(q) /\ run' = Insert(q, t, "retry", r, FALSE)
          /\ effect' = Succeeded(r)
          /\ courier' = [courier EXCEPT ![c][r] = "none"]
          /\ task' = task
       \/ /\ \/ ClaimHeld(c, r) /\ ~Superseded(r) /\ ~ReserveSlot
             \/ ~ClaimHeld(c, r) /\ effect[r].status # "succeeded"
             \/ "deliveryError" \in Faults
          /\ courier' = [courier EXCEPT ![c][r] = "failing"]
          /\ UNCHANGED rows
       \/ /\ effect[r].status = "succeeded"
          /\ courier' = [courier EXCEPT ![c][r] = "none"]
          /\ UNCHANGED rows
    /\ UNCHANGED <<worker, sweep, api, core, policy>>

\* failTaskRunEffect: back to the queue, or, when the attempts are spent and
\* the reservation still stands for the latest run, the task fails.
FailEffect(c, r) ==
    LET t == run[r].task
        exhausted == effect[r].attempts >= MaxAttempts /\ task[t].status = "retrying" /\ IsLatest(r)
    IN
    /\ core[c] # "down"
    /\ courier[c][r] = "failing"
    /\ \/ /\ ClaimHeld(c, r)
          /\ effect' = [effect EXCEPT ![r].status = "failed", ![r].owner = NoCore, ![r].lease = FALSE]
          /\ task' = IF exhausted THEN WithStatus(t, "failed") ELSE task
       \/ ~ClaimHeld(c, r) /\ UNCHANGED <<task, effect>>
    /\ courier' = [courier EXCEPT ![c][r] = "none"]
    /\ UNCHANGED <<run, worker, sweep, api, core, policy>>

EffectLeaseExpires(r) ==
    /\ effect[r].status = "running"
    /\ effect[r].lease
    /\ "skew" \in Faults \/ \A c \in Cores : courier[c][r] = "none"
    /\ effect' = [effect EXCEPT ![r].lease = FALSE]
    /\ UNCHANGED <<task, run, worker, courier, sweep, api, core, policy>>

-----------------------------------------------------------------------------
(* Processes.  One core is always left to carry on, as a restart would be. *)

Replaceable(c) == \E d \in Cores \ {c} : core[d] = "up"

\* A kill: everything process-local is gone, every row stays as it is.
Crash(c) ==
    /\ "crash" \in Faults
    /\ core[c] # "down"
    /\ Replaceable(c)
    /\ core' = [core EXCEPT ![c] = "down"]
    /\ worker' = [worker EXCEPT ![c] = [t \in Tasks |-> Idle]]
    /\ courier' = [courier EXCEPT ![c] = [r \in RunIds |-> "none"]]
    /\ sweep' = [sweep EXCEPT ![c] = NoClaim]
    /\ api' = [api EXCEPT ![c] = [t \in Tasks |-> Quiet]]
    /\ UNCHANGED <<task, run, effect, policy>>

\* StopAccepting: no claim and no handoff from here on.
Seal(c) ==
    /\ "shutdown" \in Faults
    /\ core[c] = "up"
    /\ Replaceable(c)
    /\ core' = [core EXCEPT ![c] = "sealed"]
    /\ UNCHANGED <<task, run, effect, worker, courier, sweep, api, policy>>

\* Shutdown: every owner is told to stop, and why unless a user told it first.
Shutdown(c) ==
    /\ core[c] = "sealed"
    /\ core' = [core EXCEPT ![c] = "draining"]
    /\ worker' = [worker EXCEPT ![c] =
                     [t \in Tasks |->
                        IF worker[c][t].pc = "idle" THEN worker[c][t]
                        ELSE [worker[c][t] EXCEPT !.canceled = TRUE,
                                 !.kind = IF worker[c][t].kind = "none"
                                          THEN "shutdown" ELSE worker[c][t].kind]]]
    /\ UNCHANGED <<task, run, effect, courier, sweep, api, policy>>

\* The process exits once its workers and its sweep have returned.
Drained(c) ==
    /\ core[c] = "draining"
    /\ worker[c] = [t \in Tasks |-> Idle]
    /\ courier[c] = [r \in RunIds |-> "none"]
    /\ sweep[c] = NoClaim
    /\ core' = [core EXCEPT ![c] = "down"]
    /\ api' = [api EXCEPT ![c] = [t \in Tasks |-> Quiet]]
    /\ UNCHANGED <<task, run, effect, worker, courier, sweep, policy>>

-----------------------------------------------------------------------------
(* Operators: Cancel, Pause and Resume, served by any core. *)

ApiAt(c, t, pc) == core[c] # "down" /\ api[c][t].pc = pc
Asked(c, t, pc) == [api EXCEPT ![c][t].pc = pc]
Answered(c, t) == [api EXCEPT ![c][t] = Quiet]

\* reconcileOrphanTaskRuns: refused while another core holds a live lease or
\* there is nothing to cancel; otherwise every active run and the aggregate go.
OrphanFencedNever(c, t) == FALSE                     \* slip: foreign leases ignored
OrphanFenced(c, t) ==
    \E r \in RunsOf(t) : Active(r) /\ ~Claimable(c, r)
RetryUndelivered(t) ==
    \E r \in RunsOf(t) : effect[r].status \notin {"none", "succeeded"}
OrphanOK(c, t) ==
    /\ ~OrphanFenced(c, t)
    /\ \/ \E r \in RunsOf(t) : Active(r)
       \/ task[t].status = "retrying" /\ RetryUndelivered(t)
CancelEveryRun(t) ==                                 \* slip: settled runs not filtered out
    /\ run' = Closed(RunsOf(t), "canceled")
    /\ task' = IF task[t].status \in ActiveStatuses THEN WithStatus(t, "canceled") ELSE task
CancelOrphans(t) ==
    /\ run' = Closed({r \in RunsOf(t) : Active(r)}, "canceled")
    /\ task' = IF task[t].status \in ActiveStatuses THEN WithStatus(t, "canceled") ELSE task

\* Cancel without a local owner: a barrier holds the slot for the transaction.
CancelDirect(c, t) ==
    /\ "cancel" \in Faults
    /\ core[c] # "down"
    /\ api[c][t] = Quiet
    /\ worker[c][t].pc = "idle"
    /\ OrphanOK(c, t)
    /\ CancelOrphans(t)
    /\ UNCHANGED <<effect, worker, courier, sweep, api, core, policy>>

\* Cancel with a local owner, cancelLiveOwnedTask: first the unlocked snapshot,
CancelRead(c, t) ==
    /\ "cancel" \in Faults
    /\ core[c] # "down"
    /\ api[c][t] = Quiet
    /\ worker[c][t].pc # "idle"
    /\ api' = [api EXCEPT ![c][t] = [pc |-> "read", seen |-> task[t].status]]
    /\ UNCHANGED <<task, run, effect, worker, courier, sweep, core, policy>>

\* then the signal to the runner (cancelTaskRunOwner); if it has left meanwhile
\* Cancel falls back on the orphan transaction and answers with its result,
CancelSignal(c, t) ==
    /\ ApiAt(c, t, "read")
    /\ \/ /\ worker[c][t].pc # "idle"
          /\ worker' = [worker EXCEPT ![c][t].canceled = TRUE, ![c][t].kind = "user"]
          /\ api' = Asked(c, t, "signaled")
          /\ UNCHANGED rows
       \/ /\ worker[c][t].pc = "idle"
          /\ \/ OrphanOK(c, t) /\ CancelOrphans(t) /\ UNCHANGED effect
             \/ ~OrphanOK(c, t) /\ UNCHANGED rows
          /\ api' = Answered(c, t)
          /\ worker' = worker
    /\ UNCHANGED <<courier, sweep, core, policy>>

ProviderStarted(c, t) == worker[c][t].pc = "provider" \/ worker[c][t].outcome # "none"
RunningRuns(t) == {r \in RunsOf(t) : run[r].status = "running"}

\* then cancelOwnedRunningTask, which takes the provider boundary away from the
\* runner and settles the running pair under locks,
CancelOwned(c, t) ==
    LET mine == {r \in RunningRuns(t) : run[r].owner = c}
        foreign == \E r \in RunningRuns(t) : ~Owned(c, r)
        retried == \E r \in mine : run[r].trigger = "retry"
        seen == worker[c][t].seen
    IN
    /\ ApiAt(c, t, "signaled")
    /\ IF worker[c][t].pc = "idle" \/ worker[c][t].barred \/ ProviderStarted(c, t)
       THEN /\ api' = IF ProviderStarted(c, t) THEN Answered(c, t) ELSE Asked(c, t, "orphan")
            /\ UNCHANGED <<task, run, worker>>
       ELSE /\ worker' = [worker EXCEPT ![c][t].barred = TRUE]
            /\ \/ /\ ~foreign /\ mine # {}
                  /\ run' = Closed(mine, "canceled")
                  /\ task' = IF seen # "none" /\ task[t].status = "running" /\ ~retried
                             THEN WithStatus(t, seen)
                             ELSE IF task[t].status \in ActiveStatuses
                             THEN WithStatus(t, "canceled") ELSE task
                  /\ api' = Answered(c, t)
               \/ /\ foreign \/ mine = {}
                  /\ api' = IF foreign \/ task[t].status = "running"
                            THEN Answered(c, t) ELSE Asked(c, t, "orphan")
                  /\ UNCHANGED <<task, run>>
    /\ UNCHANGED <<effect, courier, sweep, core, policy>>

\* then the orphan transaction,
CancelOrphan(c, t) ==
    /\ ApiAt(c, t, "orphan")
    /\ \/ OrphanOK(c, t) /\ CancelOrphans(t) /\ api' = Answered(c, t)
       \/ ~OrphanOK(c, t) /\ api' = Asked(c, t, "fallback") /\ UNCHANGED <<task, run>>
    /\ UNCHANGED <<effect, worker, courier, sweep, core, policy>>

\* then, chosen by the snapshot of the first step, cancelPendingTaskRuns, which
\* asks for no ownership,
CancelPending(c, t) ==
    LET queued == {r \in RunsOf(t) : run[r].status = "pending"}
        seen == api[c][t].seen
    IN
    /\ ApiAt(c, t, "fallback")
    /\ run' = IF seen = "running" THEN run ELSE Closed(queued, "canceled")
    /\ api' = IF seen = "retrying" \/ (seen = "pending" /\ queued # {})
              THEN Asked(c, t, "overwrite") ELSE Answered(c, t)
    /\ UNCHANGED <<task, effect, worker, courier, sweep, core, policy>>

\* and updateStatus, whose transition is validated against the snapshot and
\* whose write is conditional on nothing.
Overwrite(c, t) ==
    /\ ApiAt(c, t, "overwrite") \/ ApiAt(c, t, "pauseOverwrite")
    /\ ValidTransition(api[c][t].seen, "canceled")
    /\ task' = WithStatus(t, "canceled")
    /\ api' = Answered(c, t)
    /\ UNCHANGED <<run, effect, worker, courier, sweep, core, policy>>

\* Pause: snapshot, disable, and cancel the retry the snapshot showed.
PauseRead(c, t) ==
    /\ "pause" \in Faults
    /\ core[c] # "down"
    /\ api[c][t] = Quiet
    /\ task[t].enabled
    /\ api' = [api EXCEPT ![c][t] = [pc |-> "pausing", seen |-> task[t].status]]
    /\ UNCHANGED <<task, run, effect, worker, courier, sweep, core, policy>>

PauseDisable(c, t) ==
    /\ ApiAt(c, t, "pausing")
    /\ task' = [task EXCEPT ![t].enabled = FALSE]
    /\ api' = IF api[c][t].seen = "retrying" THEN Asked(c, t, "pauseOverwrite") ELSE Answered(c, t)
    /\ UNCHANGED <<run, effect, worker, courier, sweep, core, policy>>

Resume(c, t) ==
    /\ "pause" \in Faults
    /\ core[c] # "down"
    /\ ~task[t].enabled
    /\ task' = [task EXCEPT ![t].enabled = TRUE]
    /\ UNCHANGED <<run, effect, worker, courier, sweep, api, core, policy>>

\* DisablePolicyTx, the automation's way to disable: the switch, and every queued
\* run of the policy's tasks.
DisablePolicy ==
    /\ "policy" \in Faults
    /\ policy.enabled
    /\ policy' = [policy EXCEPT !.enabled = FALSE]
    /\ run' = Closed(PolicyRuns({"pending"}), "canceled")
    /\ UNCHANGED <<task, effect, worker, courier, sweep, api, core>>

\* The policy handler's Save of the switch and of max_concurrent: the operator's
\* way to disable clears the schedules and leaves the queued runs alone.
UpdatePolicy ==
    /\ "edit" \in Faults
    /\ \E b \in BOOLEAN, q \in 1..MaxConcurrent : policy' = [enabled |-> b, quota |-> q]
    /\ policy' # policy
    /\ UNCHANGED <<task, run, effect, worker, courier, sweep, api, core>>

-----------------------------------------------------------------------------
RunnerStep(c, t) ==
    \/ Reserve(c, t) \/ Launch(c, t) \/ FailUnclaimed(c, t) \/ Abort(c, t)
    \/ NodeRefuses(c, t) \/ Load(c, t) \/ Enter(c, t) \/ EnterPaused(c, t) \/ EnterRefused(c, t)
    \/ FailRefused(c, t) \/ CancelEntered(c, t) \/ PreProviderFail(c, t)
    \/ BeginProvider(c, t) \/ ProviderReturns(c, t) \/ Settle(c, t) \/ Recover(c, t)

\* What an operator starts, and the rest of a request the server has begun.
OperatorAsks(c, t) ==
    \/ Trigger(c, t)
    \/ /\ c \in Serving
       /\ CancelDirect(c, t) \/ CancelRead(c, t) \/ PauseRead(c, t) \/ Resume(c, t)
OperatorStep(c, t) ==
    \/ CancelSignal(c, t) \/ CancelOwned(c, t) \/ CancelOrphan(c, t) \/ CancelPending(c, t)
    \/ Overwrite(c, t) \/ PauseDisable(c, t)

SweepStep(c, r) ==
    \/ LaunchDurable(c, r) \/ ReapClaim(c, r) \/ RebuildRetryEffect(c, r)
    \/ ClaimEffect(c, r) \/ DeliverRetry(c, r) \/ FailEffect(c, r)

Next ==
    \/ \E c \in Cores, t \in Tasks :
          \/ RunnerStep(c, t) \/ OperatorAsks(c, t) \/ OperatorStep(c, t)
          \/ Heartbeat(c, t) \/ DeadlinePasses(c, t)
    \/ \E c \in Cores, r \in RunIds : SweepStep(c, r)
    \/ \E c \in Cores : ReapSettle(c) \/ Crash(c) \/ Seal(c) \/ Shutdown(c) \/ Drained(c)
    \/ \E t \in Tasks : ReserveAuto(t)
    \/ DisablePolicy \/ UpdatePolicy
    \/ \E r \in RunIds : RunLeaseExpires(r) \/ EffectLeaseExpires(r)

Spec == Init /\ [][Next]_vars

(***************************************************************************)
(* A goroutine that can move moves, the sweeps run on a ticker, a lease    *)
(* nobody renews lapses.  No operator, no heartbeat and no fault has to    *)
(* happen, and neither do operators go on asking nor deadlines passing for *)
(* ever: a durable run that is launched again is not overrun every time.   *)
(***************************************************************************)
Fairness ==
    /\ \A c \in Cores, t \in Tasks : WF_vars(RunnerStep(c, t)) /\ WF_vars(OperatorStep(c, t))
    /\ \A c \in Cores, r \in RunIds : WF_vars(SweepStep(c, r))
    /\ \A c \in Cores : WF_vars(ReapSettle(c) \/ Shutdown(c) \/ Drained(c))
    /\ \A r \in RunIds : WF_vars(RunLeaseExpires(r)) /\ WF_vars(EffectLeaseExpires(r))
    /\ <>[][\A c \in Cores, t \in Tasks : ~OperatorAsks(c, t) /\ ~DeadlinePasses(c, t)]_vars

FairSpec == Spec /\ Fairness

-----------------------------------------------------------------------------
(* Safety. *)

\* A Task says "running" exactly when one of its runs is, and never two: entry,
\* settlement, recovery and cancellation move the pair in one transaction
\* (enterTaskExecutionForReason, terminalizeTaskRunTx).
RunningAgrees ==
    \A t \in Tasks : Cardinality(RunningRuns(t)) = IF task[t].status = "running" THEN 1 ELSE 0

\* Manual triggers and delivered retries race for the same Task on different
\* cores and never leave it two active runs (reserveTaskRun,
\* executeRetryTaskRunEffect).  Automation runs are the exception: they queue.
OneActive ==
    "auto" \notin Faults =>
       \A r, q \in RunIds : Active(r) /\ Active(q) /\ run[r].task = run[q].task => r = q

\* A retry effect delivered several times, by several cores, after several
\* crashes, yields one run: each failed run has at most one retry, of its own
\* task, and only once its effect is spent (executeRetryTaskRunEffect).
RetryOnce ==
    /\ \A r, q \in RunIds : run[r].pred # 0 /\ run[r].pred = run[q].pred => r = q
    /\ \A r \in RunIds : run[r].pred # 0 =>
          /\ effect[run[r].pred].status = "succeeded"
          /\ run[run[r].pred].status = "failed"
          /\ run[run[r].pred].task = run[r].task

\* What stands behind a retrying Task: its latest run is active, or failed with an
\* effect that can still be delivered or rebuilt.
Deliverable(r) ==
    \/ effect[r].status = "none"
    \/ effect[r].status \in {"pending", "running", "failed"} /\ effect[r].attempts < MaxAttempts
    \/ effect[r].status = "running" /\ \E c \in Cores : courier[c][r] # "none"
Backed(t) ==
    \E r \in RunsOf(t) : IsLatest(r) /\ (Active(r) \/ (run[r].status = "failed" /\ Deliverable(r)))

\* A claim counts when it is made and nothing gives it back: the last one the
\* effect was allowed has died with its claimant.
LastClaimDied(t) ==
    \E r \in RunsOf(t) :
       /\ IsLatest(r)
       /\ run[r].status = "failed"
       /\ effect[r].status = "running"
       /\ effect[r].attempts = MaxAttempts
       /\ \A c \in Cores : courier[c][r] = "none"

\* The run that stood for the retry was canceled without its Task: in a maintenance
\* window, at the quota, or with a context that ended in the queue.
RunDropped(t) == \E r \in RunsOf(t) : IsLatest(r) /\ run[r].status = "canceled"

\* A retrying Task is never forgotten (buildTerminalEffects,
\* reconcileMissingRetryEffects).
RetryingIsBacked == \A t \in Tasks : task[t].status = "retrying" => Backed(t)

\* Whoever dies between the failure, the claims, the delivery and the launch, the
\* retry is lost only with the last claim (claimTaskRunEffect, failTaskRunEffect).
RetryOutlivesCrash ==
    \A t \in Tasks : task[t].status = "retrying" => Backed(t) \/ LastClaimDied(t)

\* Whatever processes, deadlines, renewals and windows do, a retry is lost in two
\* ways only: with the last claim, or with a run canceled before its entry
\* (cancelTaskRunBeforeExecutorWithOwnership).
RetryLossIsKnown ==
    \A t \in Tasks : task[t].status = "retrying" => Backed(t) \/ LastClaimDied(t) \/ RunDropped(t)

\* The length of the chain of retries that ends in r.
Depth[r \in RunIds] == IF run[r].pred \in 1..(r - 1) THEN 1 + Depth[run[r].pred] ELSE 0

\* No sequence of failures, refusals and recoveries yields more retries in a row
\* than the policy allows (NextAfterFailureConfigurable, failTaskRunBeforeExecutor).
RetryBudget == \A r \in RunIds : Depth[r] <= MaxRetries

\* Two cores are inside the provider for a Task only while one of them winds down,
\* told to stop by its deadline, by Shutdown or by a renewal that failed
\* (claimTaskRunOwner, startTaskRunHeartbeat).
OneLiveProvider ==
    \A c, d \in Cores, t \in Tasks :
       /\ worker[c][t].pc = "provider" /\ worker[d][t].pc = "provider"
       /\ ~worker[c][t].canceled /\ ~worker[d][t].canceled
       => c = d

\* At most one core is inside the provider for a Task.
ProviderExclusive ==
    \A c, d \in Cores, t \in Tasks :
       worker[c][t].pc = "provider" /\ worker[d][t].pc = "provider" => c = d

\* No core executes two tasks that share a node at once, however their loads and
\* entries interleave (hasRunningConflict under strategyLock).  The lock is local
\* to a process: nothing is said of two cores.
RivalsExclusive ==
    \A c \in Cores, t, u \in Tasks :
       <<t, u>> \in Rivals /\ worker[c][t].pc \in {"entered", "provider"} =>
          worker[c][u].pc \notin {"entered", "provider"}

\* A cancellation never overwrites an entry that committed behind it.
CancelKeepsEntry == \A t \in Tasks : task[t].status = "canceled" => RunningRuns(t) = {}

-----------------------------------------------------------------------------
(* What no step may do. *)

\* A settled run is never touched again, by a late runner, a second recovery, a
\* cancellation or a redelivery (the status conditions of every UPDATE).
TerminalFrozen ==
    [][\A r \in RunIds : run[r].status \in TerminalStatuses => run'[r] = run[r]]_vars

\* The steps core c itself takes; the others are the clock's, the policy handler's
\* and the automation dispatcher's.
CoreStep(c) ==
    \/ \E t \in Tasks :
          \/ RunnerStep(c, t) \/ OperatorAsks(c, t) \/ OperatorStep(c, t)
          \/ Heartbeat(c, t) \/ DeadlinePasses(c, t)
    \/ \E r \in RunIds : SweepStep(c, r)
    \/ ReapSettle(c) \/ Crash(c) \/ Seal(c) \/ Shutdown(c) \/ Drained(c)

\* Nobody takes a live lease from the core that holds it, and while it is live the
\* running run it protects is settled by no step of another core: no sweep, no
\* late runner and no Cancel served elsewhere (claimTaskRunOwner,
\* reconcileOrphanTaskRuns, the owner conditions of the terminal transactions).
LeaseFences ==
    [][\A r \in RunIds : \A c \in Cores :
          run[r].owner = c /\ run[r].lease =>
             /\ run'[r].owner \in {c, NoCore}
             /\ run[r].status = "running" /\ run'[r].status # "running" =>
                   \A d \in Cores \ {c} : ~CoreStep(d)]_vars

\* A core that is shutting down gives the durable runs it had not started back
\* to the queue, whatever point its runner had reached, unless the runner had
\* already turned the run down for another reason: its claim was lost, its entry
\* was refused, or it met a conflict and only the recovery is left
\* (markPendingRunsForShutdown, releaseTaskRunBeforeExecutor).
TurnedDown == {"rejected", "refused", "recover"}
ShutdownReleases ==
    [][\A c \in Cores, t \in Tasks :
          LET r == worker[c][t].run IN
          /\ worker[c][t].kind = "shutdown" /\ worker[c][t].pc \notin TurnedDown /\ r # 0 /\ Durable(r)
          /\ worker'[c][t].pc = "idle" /\ core'[c] # "down"
          => run'[r].status = "pending" /\ run'[r].owner # c]_vars

\* However often the quota is lowered, no step takes the number of running runs
\* above it (admitPolicySlot under the policy lock).
QuotaNotExceeded ==
    [][LET now == Cardinality(PolicyRuns({"running"}))
           next == Cardinality({r \in RunIds : run'[r].status = "running"})
       IN next > now => next <= policy'.quota]_vars

\* What the table says of each run to somebody who only reads it.
Phase(s) ==
    IF s \in {"pending", "retrying"} THEN "queued"
    ELSE IF s = "running" THEN "executing"
    ELSE IF s \in {"success", "warning"} THEN "succeeded"
    ELSE IF s \in {"canceled", "skipped"} THEN "dropped" ELSE s
Phases == [r \in RunIds |-> Phase(run[r].status)]
TaskOf == [r \in RunIds |-> run[r].task]
PredOf == [r \in RunIds |-> run[r].pred]

Life == INSTANCE RunLife WITH
    Runs <- RunIds, Queueing <- "auto" \in Faults, phase <- Phases, of <- TaskOf, after <- PredOf

\* Cores, leases, sweeps, deliveries and operators together do what RunLife
\* promises: in particular no run succeeds that was not executing, none ends
\* twice, and a retry follows only the latest, failed run of a task with no open
\* run (terminalizeTaskRunTx, executeRetryTaskRunEffect).
RefinesLife == Life!LifeSpec

-----------------------------------------------------------------------------
(* Liveness, under FairSpec. *)

\* Every run settles, wherever its processes died.
RunsSettle == \A r \in RunIds : Active(r) ~> run[r].status \in TerminalStatuses

\* Every Task leaves "retrying", unless its retry was lost with the last claim, or
\* with a run that was canceled before its entry, as a deadline in the queue does.
RetryResolves ==
    \A t \in Tasks : task[t].status = "retrying" ~>
                        task[t].status # "retrying" \/ LastClaimDied(t) \/ RunDropped(t)

\* Shutdown ends: no worker waits for something only a running server does.
ShutdownEnds == \A c \in Cores : core[c] = "sealed" ~> core[c] = "down"
=============================================================================
