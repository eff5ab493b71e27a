# Verification of xirang

xirang is a backup orchestrator: a Go server (`backend/`) with a web frontend
that schedules rsync, restic, rclone and command tasks on remote nodes, keeps
their history in a relational database, retries what fails, and catalogues the
backups that result.  Several server processes may share one database, and a
process may be stopped or killed at any point.  This directory holds TLA+ models
of four parts where that is hard: the durable task-execution core, the cron
occurrences that feed it, the delivery and escalation of the alerts it raises, and
the retention of recovery points, which deletes backups.  Each of the four has an
abstract specification of what it promises.  TLC configurations check the models on
small instances; TLAPS proofs establish their safety properties, and that each
implements its abstract specification, for every instance.

Paths below are relative to the repository; `task/` is `backend/internal/task/`
and `retention/` is `backend/internal/backupasset/retention/`.

## 1. The system

| Component | State it keeps | Operations | Interacts with |
|---|---|---|---|
| **Task execution core** `task/manager.go`, `runner.go`, `terminal.go` | rows `tasks`, `task_runs`, `task_run_effects`; per process: `pendingRuns` ownership slots, strategy and node locks | trigger, reserve, claim, enter, run the provider, settle, cancel, pause, recover, shut down | everything below, through rows it shares with other processes |
| Task state machine `task/state_machine.go` | none | transition table, next status after a failure | the core |
| Policy control `policy/`, `api/handlers/policy_handler.go` | `policies` (enabled, max_concurrent, schedule) | disable, edit, quota | counts and cancels runs of the core |
| **Cron occurrences** `task/manager.go`, `runner.go`, `task/scheduler` | `task_cron_occurrences`, `skip_next`, the cursor `tasks.next_run_at`; per process: scheduler entries | record, claim, dispatch, release, cancel, reconcile the cursor | reserves runs in the core; switched by pause, edits and policies |
| **Retention** `retention/`, `backupasset/lease.go` | lifecycle attempts, effect claims, tombstones, audit slots, holds, leases on recovery points | claim, revoke, drain, clean, delete, prove, complete, block, retry | closes points to readers, asks the owners of derived data to let go, calls the provider |
| Task chains `task/chain_runner.go` | downstream effects | deliver, skip | reserves or skips runs of dependent tasks |
| Restores and drills `task/drill.go` | restore and drill runs | admit under node exclusivity, recover | core locks |
| Mutable generations `task/rsync_versioning.go`, `rclone_*` | write latch of a mutable target | acquire, reconcile, release | entry transaction |
| Automation `automation/` | event queue, rules | match, act (run a task, disable a policy) | `ReserveAutomationRunTx`, `DisablePolicyTx` |
| **Alerting, escalation** `alerting/`, `escalation/` | rows `alerts`, `alert_deliveries`, `alert_escalation_events` | raise, route, fire a level, claim, send, complete, retry, replay | raised and resolved by runs of the core; edited and retried by operators; calls notification channels |
| Backup assets `backupasset/` | recovery points, catalogs, publications, exports, recoveries | publish, index, export, recover | entry (`runtime/admission.go`), finished runs |
| Health, SLO, anomaly, reporting | derived views | read | finished runs |
| API, auth, websocket, settings, nodes, profiles, frontend | requests, keys, CRUD rows | transport and CRUD | call the operations above |

`PROJECT.json` lists every component with its sources and the reason when it is
not modelled.

### What is hard here

**The execution core** promises that a task runs once when asked, that a failure is retried the
configured number of times, and that a dead process leaves nothing behind.  It
has to keep that promise while

* several processes act on the same rows, each transaction atomic but a runner's
  life made of a dozen of them;
* ownership is a lease that lapses by the clock, and its holder may be only slow;
* every run carries a deadline counted from its launch, which may pass while it
  queues, between two of its transactions, or inside the provider, and which also
  ends the heartbeat that keeps the lease;
* a process may be killed between any two transactions, or stop in an orderly way
  that must give back what it had not started;
* a Cancel is a conversation between a request and a runner: an unlocked read, an
  in-memory signal, and up to three transactions;
* a retry is an effect row that is claimed, delivered and redelivered a bounded
  number of times;
* the policy's quota and switch change while runs are queued and entering.

**The schedule** promises that every activation is acted on once, or visibly
canceled.  Every core ticks for every task, so callbacks are duplicated; a core may
die between recording an activation, moving the cursor and dispatching; a dispatch
holds a lease that may lapse under it; and the operator may pause, resume, skip,
edit, disable or cancel between any two of these.

**Retention** promises that backup bytes are deleted only when nobody may read them
and nothing protects them, and that a deletion is reported only when it happened.
The deletion itself is a call to an external provider that cannot be part of a
transaction: it may fail, time out, be repeated by another worker, or land after its
caller gave up.  Claims, fences, receipts and tombstones exist to bridge that gap.

**Alert delivery** promises that every alert is decided and every intended
notification settled, and that a channel hears of it once.  The first send, the retry
worker, the escalation engine and an operator's retry compete for the same rows in
several processes, a send cannot be part of a transaction, and the two routes, direct
and escalated, are chosen by readers who may be overtaken.

### What makes it correct

* task and run always agree, and one task has at most one active run;
* one failure earns at most one retry, and no more retries than the budget;
* a retry is lost in the named ways only, never by a race, and every run settles;
* a settled run is final, and a live lease is respected;
* entry never exceeds the quota in force;
* shutdown ends, and gives durable work back;
* an activation gets at most one run and is recorded before the cursor leaves it,
  every occurrence settles, and the cursor catches up;
* a channel is notified twice only after a lapsed lease or a lost answer, attempts stay
  within their budget, every level fires once, results and decisions are final, and
  every intent settles;
* no byte is deleted under a reader or a hold, a tombstone is never false, two
  workers never hold the same deletion, and every attempt finishes.

The hazards the properties are for, each at its line, are in `PROJECT.json`.

## 2. Modules

| Module | Models |
|---|---|
| `TaskStateMachine` | `task/state_machine.go` and the status lists of `model/task.go`: the transition table and the retry decision |
| `RunLife` | abstract: what the engine promises about the runs of its tasks to a reader of the table |
| `TaskRuns` | the execution core, its rows, its processes, its operators and its faults; implements `RunLife` |
| `TaskRuns_proofs` | the inductive invariant of `TaskRuns` and its first theorems |
| `TaskRunsFences_proofs` | what a step does to a row and a slot; leases, quota, strategy lock, orderly stop |
| `TaskRunsPairs_proofs` | a Task and its run agree; one provider at a time |
| `TaskRunsRetries_proofs` | the retry budget; a retrying Task is backed |
| `TaskRunsLife_proofs` | the refinement of `RunLife` |
| `Schedule` | abstract: what a cron schedule promises about its activations and its cursor |
| `CronOccurrences` | the schedule of one task on several cores: occurrences, dispatch, cursor, scheduler entries, operators; implements `Schedule` |
| `CronOccurrences_proofs` | its inductive invariant, its theorems and the refinement |
| `RecoveryPoint` | abstract: what retention promises about one recovery point |
| `PointLifecycle` | the retention protocol for one recovery point, which implements `RecoveryPoint` |
| `PointLifecycle_proofs` | its inductive invariant, its theorems and the refinement |
| `Notification` | abstract: what channels and operators may rely on about one alert |
| `AlertDelivery` | one alert: routing, escalation, delivery intents and their attempts, on several workers; implements `Notification` |
| `AlertDelivery_proofs` | its inductive invariant, its theorems and the refinement |
| `MC`, `MCCron`, `MCPoint`, `MCAlert` | the instances: model values, rival relations |

### State of `TaskRuns`

| Variable | Code |
|---|---|
| `task[t]` | the Task row: status, retry_count, enabled |
| `run[r]` | a TaskRun row: status, task, trigger, execution_owner_id, whether the lease is live, and the predecessor (`pred`) whose failure earned it (0 for none) |
| `effect[r]` | the retry row of `task_run_effects` for run r: status, claim owner, live claim lease, attempts |
| `worker[c][t]` | the `pendingRuns` slot of process c for task t and the program counter of its runner goroutine, with what the runner keeps in memory: the status it read, the retry count, the outcome, whether its context was canceled and why (`kind`), whether Cancel took the provider boundary (`barred`) |
| `courier[c][r]` | a retry effect process c has claimed and is delivering |
| `sweep[c]` | the run a recovery sweep of c has claimed, and the status it selected it in |
| `api[c][t]` | a Cancel or Pause request in progress and the snapshot it read |
| `core[c]` | up, sealed (StopAccepting), draining (Shutdown), down |
| `policy` | enabled, max_concurrent |

### Actions of `TaskRuns`

Every database transaction of the code is one step, and so is every access to
the ownership slot.  In the order of a run's life:

* admission: `Trigger` (the slot and the unlocked checks of
  `triggerCoreWithExpectedCronSpec`), `Reserve` (`reserveTaskRun`), `ReserveAuto`
  (`ReserveAutomationRunTx`), `LaunchDurable` (`launchDurableTaskRun`), `Launch`
  (hand-off and `claimTaskRunOwner`), `FailUnclaimed`;
* the runner: `Abort`, `NodeRefuses`, `Load`, `Enter`, `EnterPaused`,
  `EnterRefused`, `FailRefused`, `CancelEntered`, `PreProviderFail`,
  `BeginProvider`, `ProviderReturns`, `Settle`, `Recover`;
* leases and time: `RunLeaseExpires`, `EffectLeaseExpires`, `Heartbeat`, `DeadlinePasses`;
* sweeps: `ReapClaim`, `ReapSettle`, `RebuildRetryEffect`;
* the retry effect: `ClaimEffect`, `DeliverRetry`, `FailEffect`;
* processes: `Crash`, `Seal`, `Shutdown`, `Drained`;
* operators: `CancelDirect`, `CancelRead`, `CancelSignal`, `CancelOwned`,
  `CancelOrphan`, `CancelPending`, `Overwrite`, `PauseRead`, `PauseDisable`,
  `Resume`, `DisablePolicy` (automation), `UpdatePolicy` (the policy handler).

Settlement is the operator `Terminalize` (`terminalizeTaskRunTx`): the run closes,
its Task moves and the retry effect is inserted in one step.  `Reject` is
`failTaskRunBeforeExecutor`, `GiveUp` is `cancelTaskRunBeforeExecutorWithOwnership`.

`Faults` switches on what the environment does in an instance: `crash`,
`shutdown`, `deadline` (the execution timeout of `newRunContext`, counted from the
launch, passes: in the queue, between two transactions or inside the provider),
`skew` (a kept lease looks expired), `maintenance` (the node refuses),
`refuse` (entry refused for a reason outside the model, or a failed pre-hook),
`renewError` (a renewal fails, or the claim at launch), `deliveryError`, `cancel`, `pause`, `policy`, `edit`, `auto`
(automation runs).  `Serving` is the set of cores whose API answers Cancel, Pause and
Resume: both, except in `operators`, where one keeps the fair instance small.

### Abstractions

* Times are gone: a lease is live or lapsed, and lapsing is a step that can
  happen once nobody alive renews it (always, under `skew`).  Back-off deadlines
  are not modelled; a retry may be delivered as soon as it exists.
* The outcome of the provider is a free choice, limited by a dead context or a
  canceled Task as in `runTaskWithContext`.
* The tasks of an instance belong to one policy.  `Rivals` says which share a node.
* Claiming the lease and starting the heartbeat are one step with the hand-off
  (`Launch`): the code does them in one goroutine with nothing in between that
  another process can see.  The read of `launchDurableTaskRun` and the transaction
  of `cancelPendingDurableRun` are one step.
* The second call of `cancelOwnedRunningTask`, in the fallback for a snapshot that
  said running, finds the boundary already taken and does nothing; it is left out.
* A killed process never returns: every start draws a new random owner identity,
  so a restart is another element of `Cores`.  The model always leaves one process
  up, as the supervisor would.
* Pause with `cancelRunning` is Pause followed by Cancel.
* A deadline that passes between the last look at the context and `beginProvider`
  is one that passes just inside the provider.  A context that dies in the middle of
  a settling transaction is a database error there, which is not modelled.
* A runner that was handed over just before admission was sealed starts no heartbeat
  (`terminal.go:2459`).  The lease it claims at that moment lasts 30 s, as long as the
  grace period after which `Shutdown` cancels it (`cmd/server/main.go:349`), so the
  model lets it keep the lease until that cancellation.  The two durations have no
  margin: a drain that outlasts the grace period is not covered.
* Short reads are one step with the transaction that uses them: the conflict check of
  a trigger (`runner.go:327`) with the reservation, the Task status of a sweep
  (`terminal.go:2558`) with its settlement, the Task row of a runner
  (`runner.go:636`) with what it reads under the strategy lock.  Conflicts are checked
  again under that lock, and the run's status, its owner and the Task's transition in
  the settling or entering transaction; a Task that moved between the sweep's read and
  its settlement is the one outcome this folds away.
* Left out of the runner: the restoring node (`isNodeRestoring`, restores are not
  modelled) and the missing node, which fails the run without its Task
  (`runner.go:671`): deleting a node deletes its tasks in one transaction
  (`node/service.go:226`).  A node deleted between that check and the entry is not
  modelled.
* `Init` is an empty history: every row a run can meet is made by the actions.

### `CronOccurrences`

| Variable | Code |
|---|---|
| `task` | cron_spec, next_run_at (0 is NULL), skip_next, enabled and status of the Task row; the switch of its policy |
| `occ[s]` | the `task_cron_occurrences` row of activation s: state, dispatch owner, live lease |
| `made[s]`, `run` | how many runs activation s got; the task's active run |
| `reg[c]` | the scheduler entry of core c: its expression and next activation |
| `job[c][k]` | `triggerCore` in the tick callback (k = tick) and in the drain (k = drain): program counter, activation, expected expression |
| `admit[c]` | who holds `pendingRuns[task]` on core c |
| `page[c]`, `sync[c]`, `pausing[c]` | the page the drain still visits; SyncSchedule between its read and its compare-and-set; Pause between its two transactions |

Actions: `Tick`, `Ensure`, `AdvanceCursor`, `Claim`, `LoadTask`, `SettleOccurrence`,
`Reserve`, `Release` (one dispatch, in the order of
`triggerCoreWithExpectedCronSpec`); `DrainPage`, `DrainNext`; `SyncRead`, `SyncInit`,
`SyncRecord`, `SyncAdvance`; `Enter`, `RunEnds`, `RetryEnds`; `Pause`,
`PauseCancels`, `Resume`, `SetSkipNext`, `EditSpec`, `DisablePolicy`,
`EnablePolicy`, `CancelOccurrences`; `LeaseLapses`, `Clock`, `Crash`.

* Time is counted in activations: slot s is due when `now >= s`, so `cronutil.Next`
  is `now + 1` and `NextAfter(s)` is `s + 1`.  Every expression has the same slots;
  what tells expressions apart is their identity, which the code compares.
* What a run does is the business of `TaskRuns`: here it ends, and may leave the
  task retrying.  The task counts as retrying until the retry itself ended.
* A core that restarts draws a new owner id, so what it owned belongs to `Dead`.
* Pause's unlocked read and its first update are one step here; their race is in
  `TaskRuns` (`PauseRead`, `PauseDisable`).
* One callback runs at a time on a core, where the cron library starts a goroutine for
  each: a second callback of the same core meets the slot of the first (`admit`), and
  those of different cores do run together.
* SyncSchedule's loop of four is a step that reads again; giving up after four is a
  choice at every lost compare-and-set.

`Schedule` keeps the clock, the state of each activation, its number of runs, the plan
in force and the cursor, and forgets cores, dispatches, leases, entries and requests.
An activation is noted when it is due, then dispatched with its one run or called off;
the cursor passes noted activations one by one (`Pass`), jumps behind one whose run was
skipped (`SkipOver`, which is how `skip_next` may pass activations nobody recorded), and
starts from the clock when it is unset or the plan changes.

### `RecoveryPoint` and `PointLifecycle`

`RecoveryPoint` has four variables: whether the point is open, closing, retired or
gone, who may still be reading, whether a hold protects it, and whether the bytes are
stored.  Its actions say when each may change; `Destroy` needs a closing point, no
reader and no hold.

| Variable of `PointLifecycle` | Code |
|---|---|
| `point`, `att`, `claim` | rows `recovery_points`, `recovery_point_lifecycle_attempts`, `recovery_point_lifecycle_effect_claims` |
| `tomb`, `slots` | tombstones by operation; audit slots of the attempt |
| `own`, `lease[r]` | the retention worker's lease bound to the attempt; the leases of readers |
| `pc[w]`, `auth` | where each worker's pass is; the workers whose captured effect authority is still current |
| `sent`, `gone` | a provider delete was issued; the provider no longer has the bytes |

A worker's pass is `Flush` (the due audit), `Heartbeat`, then `Advance` until the
attempt is blocked or complete: `Select`, `PrepareEffect` with `EffectDone`,
`EffectFailed` or `EffectOutlived`, `Drain`, `PrepareUnclaimed`, `PrepareClaimed` or
`PrepareNothing`, `ProviderReturns` or `ProviderFails`, `Receipt`, `MarkUncertain`,
`ProgressProof`, `CompleteDelete`, `CompleteRetire`; of a blocked attempt,
`RetryBlocked` and `Resume`; and the audits in between.  Around it: readers
(`Acquire`, `ReleaseLease`, `LapseLease`, `TakeoverLease`, `EndLease`,
`ReconcileExpired`), holds, `ClaimAttempt`, time (`GateOpens`, `ClaimLapses`,
`FenceLapses`, `DeadlinePasses`), `Crash` and `DeleteLands`, the provider carrying out
a call whose caller may be gone.

* Times become what they are compared with: a lease is live, lapsed (past
  lease_expires_at) or over (past its absolute deadline), a retry gate is shut or
  open.  Revisions and fence tokens become whether a remembered one is current
  (`claim.rev`, `claim.bound`, `auth`).
* Blocked reasons the code treats alike share one value.
* The owners of derived data are represented by the content sessions, the only ones
  that hold leases drained outside `drainOrdinaryLeasesTx`; the others let go or fail
  (`owner` faults).
* Policies and purge plans are not modelled: an attempt of any operation starts
  whenever `ClaimTx` allows it.
* A worker that is in the middle of a complete attempt when the next one is claimed
  would find it complete at its next transaction; it is idle at once.
* An own lease that expired counts as past its absolute deadline when a blocked attempt
  resumes (`coordinator.go:1932`): until the deletion is proved, only the
  reconciliation past that deadline makes it so.  Blocking an attempt again for the hold that already blocks it changes
  nothing, and a claimed deletion that finds its lease renewed by another worker ends
  without a step.

### `AlertDelivery`

| Variable | Code |
|---|---|
| `alert`, `policy` | the alert's status, delivery_decision and last_level_fired; whether its escalation policy is enabled and applies |
| `fired` | the rows of `alert_escalation_events`, oldest first, by level |
| `row[k]` | the `alert_deliveries` row with delivery_key k: status, attempt_count, the worker whose attempt_id it bears, live lease, due retry.  k is `<<0, c>>` for the direct intent of channel c and `<<e, c>>` for that of event e |
| `past[k]` | history for the properties: accepted sends, lost answers, lapsed leases, forced claims |
| `router[p]`, `sender[p]`, `engine[p]` | the routing, the delivery attempt and the escalation that goroutine p is in, with what it has read |

Actions: `Raise`, `Replay`, `ReadRows`, `ReadHistory`, `Resolve`, `Commit` (one pass of
`dispatchCreatedAlertWithSender` up to `commitDeliveryDecision`); `Evaluate`, `Fire`
(one level); `Claim`, `Load`, `Send`, `Complete` (one `runDeliveryAttempt`); `Manual`,
`ManualNew`, `ForceClaim` (an operator's retry); `LeaseLapses`, `BackoffElapses`,
`EditPolicy`, `Close`, and the failures `RouteError`, `FireError`, `LoadError`,
`SendLost`, `CompleteError`, `Crash`.

* Reading the alert and reading its policy are one step of the engine: an alert that
  closed or advanced in between makes `Fire` do nothing, as it would anyway.
* Which channels silences, grouping, thresholds and cooldowns leave, and which channels
  of a level are enabled, is a free choice.
* Any free worker may claim any claimable intent: the code's goroutines pick rows from
  queries, but only the predicate of the claiming update decides.
* An attempt_id left behind on a settled row is never compared, so `owner` is cleared.
* Acked and resolved are one state: neither lets a level fire.

`Notification` keeps the alert's stage and decision, the number of levels fired and, per
message, whether it is open, sent or failed, the copies its channel took and the mishaps
(lost answers, lapsed leases) that explain more than one.  Routers, engines, senders,
leases, attempts and policies are hidden; `Seen` maps pending, sending and retrying rows
to an open message.

## 3. Runs

Bounds of `TaskRuns`: `MaxTriggers` runs that are not retries, `MaxRuns` rows in all (large enough
for every trigger with all its retries wherever a liveness property is checked, so
that the bound never blocks a delivery), `MaxRetries` the retry budget,
`MaxAttempts` the delivery attempts of an effect.  Two cores suffice for every
two-party race (a holder and a taker, a runner and a request elsewhere); the third
party of a race is a sweep, a courier or a request of one of them.

| Run | Instance | Checks |
|---|---|---|
| `recovery` | 2 cores, 1 task, 2 triggers, budget 1, 2 attempts; kills, deadlines, failed deliveries; fair | `RunsSettle`: every run settles, wherever its deadline passes and its process dies; `RetryResolves`: every retry is delivered and decided, unless it was lost with the last claim its effect was allowed or with a run canceled before its entry, both of which this instance reaches |
| `faults` | 2 cores, 1 task, 2 triggers, budget 1; kills, stops, deadlines, maintenance, refusals, failed renewals, failed deliveries | `TypeOK`, `RunningAgrees`, `OneActive`, `RetryOnce`, `RetryBudget`; `RetryLossIsKnown`: no third way to lose a retry; `OneLiveProvider`: two providers only while one winds down; `ShutdownReleases`: an orderly stop gives the durable runs it had not started back, unless the runner had already turned the run down; `RefinesLife` |
| `cancel` | 2 cores, 1 trigger, 1 run row; Cancel on both cores at any time, kills, skew, deadlines, refusals, automation runs | `TerminalFrozen`; `LeaseFences`: nobody takes a live lease, and no step of another core (`CoreStep`), a Cancel served there included, settles a running run under one |
| `quota` | 2 cores, 2 rival tasks of a policy whose switch and quota change | `QuotaNotExceeded`; `RivalsExclusive` (two tasks of one node never run on one core at once) |
| `operators` | 2 cores, one of them serving requests, 1 trigger, no retries; Cancel, Pause, Resume, both policy switches, automation runs, stops; fair | `ShutdownEnds`: a stopping process drains, whatever requests are in progress; `RunsSettle`: no queued run stays behind |
| `cron` | 2 cores, 1 activation, 2 operator requests, 1 fault of any kind; fair | `TypeOK`, `OneRunPerActivation`, `IntentBeforeCursor`, `OccurrencesSettle`, `CursorCatchesUp`, `RefinesSchedule` |
| `point` | 2 workers, 2 readers (one a content session), 2 faults of any kind; fair | `TypeOK`, `DeleteIsUnread`, `ProofIsTrue`, `PointShowsAttempt`, `LiveClaimKept`, `RefinesPoint`, `FinishesUnlessStuck` |
| `alerts` | 2 workers, 1 channel, 1 level, 2 attempts, 2 faults of any kind (crash, lapse, database error, lost answer, deleted channel, policy edit, manual retry); fair | `TypeOK`, `DuplicateIsPaid`, `AttemptBudget`, `LevelsFireOnce`, `SentIsFinal`, `DecisionIsFinal`, `NoDirectAfterEscalation`, `IntentsSettle`, `AlertIsDecided`, `RefinesNotification` |

Bounds of the others: `MaxFaults` failures altogether, of which a lone one already
puts a dead or slow actor against a live one, and two cover a failure during the
recovery from another (`point`); `MaxOps` operator requests, so that one can undo the
other; `MaxSlot` activations.  One activation suffices for every race on an occurrence
and for the cursor's step over it, and the cursor may stand one beyond.  `Ticking` is
the set of cores whose scheduler fires: one core ticks while both drain and reconcile,
so the duplicate dispatch comes from the drains; the proofs cover any number of
activations and ticking cores.  In `alerts` a channel has a direct and an escalated
intent, which is what the two routes compete for, two workers are any two of the four
kinds of sender, and `MaxEvents` leaves room for an event that should not be; the proofs
cover more channels, levels and workers.  These modules may stop (the bounds end, the
work is done), hence no deadlock check.

`AlertIsDecided` has one exception: an alert whose levels fired while it was undecided
but reached no channel (silenced, or its channels disabled), and whose policy was then
switched off.  `ensureDeliveryIntentTx` refuses it a direct intent at every replay, so
it stays pending until the policy applies again.

`FinishesUnlessStuck` excludes two states the code cannot leave by itself (`Stuck`).
One is the absolute deadline of run `deadline_wedge`.  The other is the
stale decision of `retryBlockedProviderDelete`: it reads that there is no claim, and
`retryUnclaimedBlocked` resumes two transactions later without looking again; when
another worker claimed the deletion in between, the lease is rotated under the claim,
and every later transaction refuses the rows as incoherent.

Four further runs check a statement of the repository's own documents or comments
that the code does not keep; TLC's trace shows how.

| Run | Statement | What the code does |
|---|---|---|
| `stale_cancel` | `manager.go:3277`, a stale snapshot cannot overwrite an entry that committed in the gap | `cancelLiveOwnedTask` ends in `updateStatus`, which writes `canceled` unconditionally, and so does Pause: task canceled, run running |
| `retry_stranded` | `docs/spec/domains/task-execution-recovery.md:227`, a restart can always reconcile | a retry run that meets a maintenance window is canceled and its task stays retrying; nothing will deliver again.  A deadline that passes in the queue does the same (`runner.go:610`) |
| `provider_overlap` | `terminal.go:2477`, the runner must return before another process publishes recovery effects | the heartbeat of a canceled run stops while its provider winds down, the lease lapses, a second provider starts.  A deadline inside the provider has the same effect |
| `deadline_wedge` | `retention/coordinator_test.go:3708`, an attempt past its absolute deadline restarts with a fresh fence | the test calls Advance alone; the worker calls Heartbeat first on every pass, which blocks the attempt again and shuts the gate that Advance then waits for |

### Fairness

`FairSpec` assumes weak fairness of each runner, each request already begun, each
sweep per core, the shutdown steps, and of lease expiry: goroutines that can move
are scheduled, the sweeps run on a ticker (`Manager.Run`), and time passes.  A
provider is assumed to return, which `execution timeout` and the run's context
enforce in the code.  No heartbeat, fault or operator request has to happen, and
operators stop asking eventually (`<>[][~OperatorAsks]`): with a Cancel repeated
for ever no shutdown needs to end.  In the same way deadlines do not pass for ever
(`<>[][~DeadlinePasses]`).  Without that TLC finds two cores trading one durable run
without end, each launch outlasting its timeout in the queue and each give-up slower
than the lease.  The timeout is a day unless configured (`runner.go:37`) and the lease
half a minute (`terminal.go:20`), so it is the repetition without end that is excluded,
not any finite number of such rounds.

`CronOccurrences` assumes weak fairness of every dispatch, drain and reconciliation
step per core (callbacks end, the sweeps run on the same ticker), of a started run
and retry ending, and of lease expiry; no tick, clock step, fault or operator request
has to happen.  `PointLifecycle` assumes it of every worker (its pass runs on a
ticker, its calls end), of the gate opening, of a dead execution's claim lapsing, of a
reader's absolute deadline passing and of the lease reconciliation; nobody has to start
an attempt, read, or release a hold, and the provider need not carry out a call its
caller gave up.  `AlertDelivery` assumes weak fairness of every worker (the retry worker
and the engine run on tickers, a send ends by its client's timeout), of leases whose
attempt is over lapsing and of back-offs ending; nobody has to raise, close, edit or
retry anything.

## 4. Proofs

### `TaskRuns_proofs`

It holds for any sets of cores and tasks, any bounds and any faults;
the only assumption is `ConstantsAssumption`.

The inductive invariant is

    IInv == TypeOK /\ LocalOK /\ EffectOfFailed /\ RetryOnce /\ OneActive

None of its parts is inductive alone.  `TypeOK` needs `LocalOK` (a runner past
admission has a run, a loaded one has read a status, a settling one has an
outcome), or a step could write a row that is none.  `RetryOnce` needs
`EffectOfFailed`: a delivery spends the running effect of its run, so that run has
not been retried (its effect would be succeeded) and has failed (it would have no
effect), hence is terminal and final.

The argument separates what a step does to the tables from which action took it.
`GoodStep` is the whole repertoire: a step either inserts no run, changes only
active runs and never revives a spent effect (`Keeps`, `EffectsKeep`), or inserts
exactly one run with the evidence it needs (`Inserts`).  `GoodStepKeepsInvariants`
derives the invariants from that; the lemmas `RunnerAdmission`, `RunnerEntry`,
`RunnerSettles`, `LeaseSteps`, `SweepSteps`, `EffectSteps`, `CoreSteps`,
`OperatorSteps` and `PolicySteps` show it for every action, resting on one lemma for
each shared transaction (`TerminalizeOK`, `RejectOK`, `ConcludeOK`, `GiveUpOK`,
`InsertOK`, `CancelOrphansOK`).

| Theorem | Statement |
|---|---|
| `Inductive` | `Spec => []IInv` |
| `TypeCorrect` | `Spec => []TypeOK` |
| `RetryIsOnce` | `Spec => []RetryOnce`: redelivery never yields a second retry |
| `OneActiveRun` | `Spec => []OneActive` (vacuous with automation runs, which queue on purpose) |
| `SettledIsFinal` | `Spec => TerminalFrozen` |

### `TaskRunsFences_proofs`

For any cores, tasks, bounds and faults, from `ConstantsAssumption` and
`RivalsAssumption` (sharing a node is symmetric and irreflexive).  The first half
turns every action into facts about single rows and slots: `RowMove` is all a step
may do to a run (with who may do it and what it must have held), `SlotMove` all it may
do to a runner's slot.  The second half, and the modules after it, reason from
these facts and hardly look at an action again.

`LeasesFence` and `QuotaHolds` follow from `RowMove` alone.  The other two need

    SlotInv == RunnerInv /\ QueueInv /\ LockInv

what a runner remembers of its run stays true, a queued durable run in the name of a
living core is in its runner's hands, and no two rivals hold a core's strategy lock.

| Theorem | Statement |
|---|---|
| `LeasesFence` | `Spec => LeaseFences` |
| `QuotaHolds` | `Spec => QuotaNotExceeded` |
| `RivalsAreExclusive` | `Spec => []RivalsExclusive` |
| `ShutdownHandsBack` | `Spec => ShutdownReleases` |

The proof of the last one corrected the property: without its exception for a run
turned down before the stop, it fails with three cores, or with two rival tasks, which
the instance of `faults` does not have.  A runner that lost its claim, was refused
entry or met a conflict closes its run as failed, even when the stop reaches it first
(`failTaskRunBeforeExecutor` and `recoverTaskRunOnReturn` do not look at the reason of
the cancellation).

### `TaskRunsPairs_proofs`

A Task and its running run are written together, but not every writer asks whether
they still agree.  The theorems name the faults they leave out and hold under every
other one.

    CalmInv == ApiCalm /\ CoreCalm /\ SweepApart /\ NoRetryingRun
    PairInv == Together /\ RunningOwned /\ NotMine

`Fenced` says that a runner nobody told to stop holds the live lease of its active run;
it is where the absence of skew is used, and with it a takeover implies that the runner
is gone or canceled.  `Together` is `RunningAgrees` without cardinalities,
`RunningOwned` that a running run has an owner, `NotMine` that a runner that was refused
or lost its claim does not own the run if it runs: otherwise its rejection would close
the run and leave the Task running.  `Inside` says that a runner past its entry, until
it is told to stop, holds the running run in its own name, and that nobody tells it to
stop where nothing disturbs it (`Undisturbed`: no deadline, stop or failed renewal).
With `OneRunning` (one running run per Task) it gives both provider theorems.

| Theorem | Statement |
|---|---|
| `TaskAndRunAgree` | without skew, Cancel and Pause: `Spec => []RunningAgrees` |
| `LiveProviderIsOne` | without skew, Cancel, and either automation runs or Pause: `Spec => []OneLiveProvider`: two cores are inside the provider for a Task only while one of them winds down |
| `ProviderIsExclusive` | without deadlines, orderly stops and failed renewals besides: `Spec => []ProviderExclusive` |

The hypotheses are needed.  Under skew a slow runner enters a run that another core
has taken over, and the other's rejection closes the running run alone.  Cancel and
Pause end in the unconditional write of run `stale_cancel`.  A deadline, a stop, a failed
renewal or a Cancel ends the heartbeat while the provider still runs, as in run
`provider_overlap`.  Every run has a deadline, so `ProviderIsExclusive` speaks of
executions that end in time, and `LiveProviderIsOne` of all.

### `TaskRunsRetries_proofs`

    BudgetInv == OrderInv /\ (\E g : Sol(g)) /\ \A g : Sol(g) => Counted(g)
    BackInv   == OpenInv /\ (Mild => TakenInv) /\ EffectInv /\ Backing

`RetryBudget` bounds `Depth`, a recursive function of the table, about which nothing can
be shown by induction on its argument here.  The proof speaks of the solutions `g` of its
recursion (`Sol`) instead and goes by induction over time: the empty table has one, an
insertion extends every solution by one value, no other step changes the recursion.
`Counted` relates each chain's length to `retry_count`: at most that while its last run
is active, less once the failure has been counted, and at most what the runner read at
entry (`tries`), from which it will compute the next count.  `OrderInv` says why the
count belongs to that chain: an active run is the latest of its Task and in its owner's
slot, and a retrying Task has spent something.

`RetryingIsBacked` needs that nobody closes the run that stands for the retry, and that
no delivery is given up while the reservation stands.  `OpenInv`: everything is switched
on and the queue fits the quota, so a pending run is always admitted.  `TakenInv`: a
runner told to stop has lost its run to another core, so giving up changes nothing;
this needs the faults to be `Mild` (kills, skew, refusals, failed deliveries).
`EffectInv`: a claimed effect is with a courier.  `Backing` is the property with the
deliverability that survives a step, and with the two losses that more faults allow.
`Wide` is everything but operators and automation: `Mild`, deadlines, maintenance
windows, failed renewals and orderly stops.

| Theorem | Statement |
|---|---|
| `BudgetHolds` | without automation runs: `Spec => []RetryBudget` |
| `RetriesAreBacked` | under skew, refusals and failed deliveries: `Spec => []RetryingIsBacked` |
| `RetriesOutliveCrashes` | with kills besides: `Spec => []RetryOutlivesCrash`: a retry is lost only with the last claim its effect was allowed |
| `RetryLossesAreKnown` | under `Wide`: `Spec => []RetryLossIsKnown`: with the last claim, or with a run canceled before its entry |

An automation run that succeeds while a retry waits resets `retry_count` in the middle
of the chain, hence the hypothesis of the first.  TLC refutes `RetryingIsBacked` for
every other fault by itself (`maintenance`, as in run `retry_stranded`, `deadline`,
`renewError`, `shutdown`, `policy`, `edit` with two tasks, `cancel`, `pause`, `auto`), so the second
cannot be widened.  Of these only `deadline` can be switched off by nobody: a retry that
outlasts its timeout in the queue is lost in every configuration, which is why
`RetryLossesAreKnown` is the statement to rely on.  With kills it fails when each of `MaxAttempts` claimants dies before
its delivery: the claim is counted when it is made and nothing gives it back.

### `TaskRunsLife_proofs`

`RunLife` is the execution core without cores: runs are asked for or follow a failed
one, wait, execute, and end as succeeded, failed or dropped.  `TaskRuns` maps to it by
the `Phase` of each row's status, its task and its predecessor; everything else
(Tasks, leases, effects, processes, requests) is hidden.  For any constants, from
`ConstantsAssumption`:

| Theorem | Statement |
|---|---|
| `RunsRefineLife` | `Spec => RefinesLife`: initial states map to initial states (`LifeInitOK`) and every step under `IInv` to a step or a stutter of `RunLife` (`LifeNextOK`) |

A step changes the table in one of a few forms, each with a lemma: owner or lease only
(a stutter), entry (`Start`), settlement of one active run (`Succeed`, `Fail`), closing
a set of active runs (`Drop`), insertion (`Ask`, `Retry`).  `Succeed` needs a running
run, which `terminalizeTaskRunTx` compares under its lock; the guards of `Retry` come
from the checks of the delivery (`Superseded`) and, that the run failed and was never
retried, from `EffectOfFailed` and `RetryOnce`.  The instance of `faults` has no
automation runs; with them `Queueing` lets runs of one task overlap, and the theorem
covers both cases.

### `CronOccurrences_proofs`

For any cores, activations, expressions, operators and faults, from `CronAssumption`:

    IInv == TypeOK /\ LocalInv /\ OneRunPerActivation

`LocalInv` is about what the processes remember: the activation a dispatch or a
reconciliation carries is a real one, a registered scheduler entry points at a real
activation, and whoever is about to move the cursor has seen the activation recorded.
`TypeOK` needs the first two, since a remembered activation indexes the occurrences
and becomes the next cursor.
`OneRunPerActivation` is inductive beside it because the only step that
makes a run is the reservation, which looks at the occurrence's state and at the
existing run in the transaction that changes both, and nothing returns a dispatched
occurrence to the queue.  `IntentBeforeCursor` follows for every step: only
`AdvanceCursor` and `SyncAdvance` move the cursor without skip_next, and whoever reaches
them knows the activation recorded (`LocalInv`), which never becomes unrecorded
(`Grows`).

| Theorem | Statement |
|---|---|
| `CronTypes` | `Spec => []TypeOK` |
| `CronOneRun` | `Spec => []OneRunPerActivation` |
| `CronIntent` | `Spec => IntentBeforeCursor` |
| `CronRefinement` | `Spec => RefinesSchedule` |

The refinement needs more than `IInv`: `DueInv` says that a paused task has no cursor,
that nothing is recorded, and no callback or reconciliation is about to record anything,
before it is due, and that the active run belongs to a dispatched occurrence.  The first
is why `Resume`, which leaves the cursor alone, is a new plan that rests; the second is
the guard of `Note`, the third that of `SkipOver`: a run consumes `skip_next` long after
its dispatch.  Every
action is shown to be one of nine kinds of step (`KnownStep`), stated over the states of
occurrences and the fields of the Task, and each kind to be a step or a stutter of
`Schedule` (`KnownRefines`).

### `PointLifecycle_proofs`

For any workers, readers and faults, from `LifecycleAssumption`:

    IInv == TypeOK /\ PhaseInv /\ QuietInv /\ SentInv /\ PcInv

A reader or a hold is admitted only while the point is readable and no attempt is
incomplete, and once an attempt started that never holds again, because an attempt ends
only by deleting or retiring the point.  So the absence of leases is stable from the
drain on, and every path to the provider has to start behind it: a phase, a resumed
block, or the stale program counter of a slow worker.  `PhaseInv` says what the
attempt's phase means for the point, `QuietInv` when readers must be gone, `SentInv`
what was sent to the provider and what is known of it (in particular `sent => ~held`),
`PcInv` what a worker at each program counter relies on from its earlier transactions.
`DeleteIsUnread` is a consequence of the middle two and inductive only with all of
them.  The lemmas go action by action; the theorems read off their property.

| Theorem | Statement |
|---|---|
| `PointTypes`, `PointUnread`, `PointProven`, `PointShown` | `Spec => []TypeOK`, `[]DeleteIsUnread`, `[]ProofIsTrue`, `[]PointShowsAttempt` |
| `PointClaimKept` | `Spec => LiveClaimKept` |
| `PointRefinement` | `Spec => RefinesPoint`: initial states map to initial states (`RefineInit`) and every step under the invariant to a step or a stutter of `RecoveryPoint` (`RefineNext`) |

### `AlertDelivery_proofs`

For any workers, channels, levels, attempts and faults, from `AlertAssumption` (the set
of workers is finite):

    IInv == TypeOK /\ RowsOK /\ WorkersOK /\ LevelsFireOnce

`DuplicateIsPaid` and `AttemptBudget` are bounds on what many workers do together, and
the argument is one of accounting.  A worker between its claim and its send may still
cause one accepted send, so such workers are counted with the sends accepted already
(`Pot`); lapsed leases and lost answers are what pays for more than one (`Debt`).
`RowsOK` says what the accounts of an intent are in each of its states: nothing spent
while it is pending, `Pot <= Debt` once it waits for a retry, has failed or its lease
lapsed, and `Pot <= 1 + Debt` always.  `WorkersOK` says the same of an answer that is
not yet written: an attempt that failed and still holds the lease leaves `Pot <= Debt`
and, if it will be retried, an attempt to spare.  A claim adds one to `Pot` and needs a
row in one of the first states; a send moves one from the workers to the channel; a lapse
adds one to `Debt`.  `CountMove` is the lemma about cardinalities, `ClaimStep` and
`SendStep` carry the two steps, `SenderMoves` and `RowsAdded` say that everything else
is undisturbed.  `RowMoves` lists what any step may do to a row, from which the action
properties follow.

| Theorem | Statement |
|---|---|
| `AlertTypes`, `AlertDuplicates`, `AlertBudget`, `AlertLevels` | `Spec => []TypeOK`, `[]DuplicateIsPaid`, `[]AttemptBudget`, `[]LevelsFireOnce` |
| `AlertSent`, `AlertDecision`, `AlertRoutes` | `Spec => SentIsFinal`, `DecisionIsFinal`, `NoDirectAfterEscalation` |
| `AlertRefinement` | `Spec => RefinesNotification` |

For the refinement `NoteInv` adds what the goroutines know: only a raised alert is
routed, an attempt has an intent, and one that is about to report success was accepted
by its channel.  The last is where the long way from the send to the row is bridged: a
worker may answer, lose its lease and be overtaken, but the only writer of `sent` is
`completeDelivery`, and only with the answer of its own send.  The guard of `Take` is
`DuplicateIsPaid` after the step, `FireLevel` rests on `LevelsFireOnce` (the intents of an
event do not exist before it), and `Decide` and `Ask` on the conditions that
`ensureDeliveryIntentTx` checks in the transaction that inserts the intent.

Every safety property of every passing run is a theorem (35 in all, in eight modules),
those of `TaskRuns` that need it under hypotheses on `Faults` that their instances
satisfy.  Three theorems are about stronger properties of fewer faults, which no passing
run repeats: `ProviderIsExclusive`, `RetriesAreBacked` and `RetriesOutliveCrashes`.  The
runs check what is left of them when deadlines pass (`OneLiveProvider`,
`RetryLossIsKnown`), and `provider_overlap` and `retry_stranded` show where the first
two end.

Only model-checked: the liveness properties (`RunsSettle`, `RetryResolves`,
`ShutdownEnds`, `OccurrencesSettle`, `CursorCatchesUp`, `FinishesUnlessStuck`,
`IntentsSettle`, `AlertIsDecided`); fairness and ENABLED are outside the prover.

## 5. Not modelled, and the plan

Left out of the core for now: chain, restore and drill triggers; the
mutable-generation latch that `EnterTaskExecutionTx` takes; the legacy runner that
registers only with the chain runner (`manager.go:3248`); deletion of a task's node
while a run is queued (`runner.go:671`).  The strategy and node locks live in one
process, so `RivalsExclusive` says nothing about two.  Left out of the schedule:
archiving, the retry cursor of rows written before the cut-over
(`TaskRunCronCursorModeLegacy`), and which of several tasks the drain serves first.
Left out of alerting: rows
without a delivery_key, which a migration leaves behind and `canonicalizeDeliveryCandidate`
repairs, deduplication between alerts, and the routing rules themselves.
Left out of retention: the evaluation of retention policies, purge plans, and points of
one repository that share native versions.

Disabling a policy through the policy handler leaves pending reservations queued,
where `docs/admin/backup-recovery.md:160` says that disabling cancels them; the
actions `UpdatePolicy` and `DisablePolicy` of `TaskRuns` have both behaviours, and
`operators` shows that the queued runs settle all the same.

The order of further work:

1. `TaskChain`: downstream effects and `skipTask`.
2. The mutable-generation latch, then restores and drills.
3. Publication of recovery points, the counterpart of retention; the automation
   dispatcher's claims, recoveries and exports: each a leased queue of its own.

The repository is far larger than what is modelled: most of it is recovery to targets,
export, content streaming, adapters of external tools, generated API documents, schema
contracts, HTTP handlers and the frontend.  Not planned: executors, SSH, confinement and
fetchers (external processes and I/O), authentication, settings, CRUD, reporting and the
frontend, which take no part in the protocol between processes.
