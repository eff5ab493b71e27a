-------------------------- MODULE CronOccurrences ---------------------------
(***************************************************************************)
(* The cron schedule of one task on several cores that share a database:   *)
(* how an activation becomes a durable occurrence, how occurrences are     *)
(* claimed and turned into runs, and how the schedule cursor               *)
(* (tasks.next_run_at) moves, while ticks are duplicated, delayed or lost, *)
(* cores die, runs fail, and operators pause, resume, skip, edit, disable  *)
(* and cancel.                                                             *)
(*                                                                         *)
(* Time is counted in activations: slot s is the s-th activation of every  *)
(* schedule and is due when now >= s, so cronutil.Next is now + 1 and      *)
(* cronutil.NextAfter(s) is s + 1.  What a run does once it started, and   *)
(* how a retry is delivered, is the business of TaskRuns: here a run ends, *)
(* perhaps leaving the task retrying, and a retry ends (the task counts as *)
(* retrying until then).                                                   *)
(***************************************************************************)
EXTENDS Naturals

CONSTANTS
    Cores, NoCore,
    Dead,            \* the owner a core was before it restarted
    Ticking,         \* the cores whose scheduler gets to fire
    Specs, NoSpec,   \* cron expressions; none
    MaxSlot,         \* bound: activations until the clock stops
    MaxOps,          \* bound: operator requests
    Faults,          \* what goes wrong in this instance
    MaxFaults        \* bound: how often

FaultKinds == {"crash", "db", "refuse", "fail", "lapse"}

ASSUME CronAssumption ==
    /\ NoCore \notin Cores /\ Dead \notin Cores \cup {NoCore} /\ Ticking \subseteq Cores /\ NoSpec \notin Specs
    /\ MaxSlot \in Nat /\ MaxOps \in Nat /\ MaxFaults \in Nat
    /\ Faults \subseteq FaultKinds

VARIABLES
    now,      \* activations due so far
    task,     \* tasks: cron columns and status; policies.enabled
    occ,      \* task_cron_occurrences, by activation
    made,     \* task_runs created for each activation
    run,      \* the task's active run
    reg,      \* per core: the scheduler entry and its next activation
    job,      \* per core: the tick callback and the drain, inside triggerCore
    admit,    \* per core: who holds pendingRuns[task]
    page,     \* per core: the occurrences the drain still has to visit
    sync,     \* per core: SyncSchedule
    pausing,  \* per core: Pause between its two transactions
    ops, faults

vars == <<now, task, occ, made, run, reg, job, admit, page, sync, pausing, ops, faults>>

Slots == 1..MaxSlot
Cursors == 0..(MaxSlot + 1)      \* 0 is NULL
Kinds == {"tick", "drain"}
JobPcs == {"idle", "ensure", "advance", "claim", "load", "cancel", "reserve", "release"}
SyncPcs == {"idle", "init", "record", "advance"}

TaskRows == [status : {"idle", "running", "retrying"}, enabled : BOOLEAN, policy : BOOLEAN,
             skip : BOOLEAN, spec : Specs \cup {NoSpec}, next : Cursors]
OccurrenceRows == [state : {"none", "queued", "dispatched", "canceled"},
                   owner : Cores \cup {NoCore, Dead}, live : BOOLEAN]
Runs == [st : {"none", "pending", "running"}, slot : 0..MaxSlot, core : Cores \cup {NoCore}]
Jobs == [pc : JobPcs, slot : 0..MaxSlot, spec : Specs \cup {NoSpec}]
Entries == [spec : Specs \cup {NoSpec}, at : Cursors]
Syncs == [pc : SyncPcs, spec : Specs \cup {NoSpec}, due : Cursors]

NoOccurrence == [state |-> "none", owner |-> NoCore, live |-> FALSE]
NoRun == [st |-> "none", slot |-> 0, core |-> NoCore]
NoJob == [pc |-> "idle", slot |-> 0, spec |-> NoSpec]
NoEntry == [spec |-> NoSpec, at |-> 0]
NoSync == [pc |-> "idle", spec |-> NoSpec, due |-> 0]

\* Every row and every local variable is well formed.
TypeOK ==
    /\ now \in 0..MaxSlot
    /\ task \in TaskRows
    /\ occ \in [Slots -> OccurrenceRows]
    /\ made \in [Slots -> Nat]
    /\ run \in Runs
    /\ reg \in [Cores -> Entries]
    /\ job \in [Cores -> [Kinds -> Jobs]]
    /\ admit \in [Cores -> Kinds \cup {"free", "run"}]
    /\ page \in [Cores -> SUBSET Slots]
    /\ sync \in [Cores -> Syncs]
    /\ pausing \in [Cores -> {"no", "yes", "retrying"}]
    /\ ops \in 0..MaxOps /\ faults \in 0..MaxFaults

Init ==
    /\ now = 0
    /\ \E g \in Specs : task = [status |-> "idle", enabled |-> TRUE, policy |-> TRUE,
                                skip |-> FALSE, spec |-> g, next |-> 0]
    /\ occ = [s \in Slots |-> NoOccurrence]
    /\ made = [s \in Slots |-> 0]
    /\ run = NoRun
    /\ reg = [c \in Cores |-> NoEntry]
    /\ job = [c \in Cores |-> [k \in Kinds |-> NoJob]]
    /\ admit = [c \in Cores |-> "free"]
    /\ page = [c \in Cores |-> {}]
    /\ sync = [c \in Cores |-> NoSync]
    /\ pausing = [c \in Cores |-> "no"]
    /\ ops = 0 /\ faults = 0

-----------------------------------------------------------------------------

Fault(f) == f \in Faults /\ faults < MaxFaults /\ faults' = faults + 1
Operator == ops < MaxOps /\ ops' = ops + 1

Scheduled == task.enabled /\ task.policy /\ task.spec # NoSpec

RecordedAgain(s) ==                                  \* slip: a canceled activation is queued again
    IF occ[s].state \in {"none", "canceled"} THEN [occ EXCEPT ![s].state = "queued"] ELSE occ
\* The insert of ensureCronOccurrenceWithExpectedSpec: the unique key on task
\* and activation lets callbacks of two cores meet in one row.
Recorded(s) ==
    IF occ[s].state = "none" THEN [occ EXCEPT ![s].state = "queued"] ELSE occ

\* The compare-and-set on the cursor of advanceCronScheduleCursor and SyncSchedule.
AdvanceTwo(g, s) ==                                  \* slip: counts the consumed activation twice
    IF /\ g # NoSpec /\ task.spec = g /\ task.enabled
       /\ task.status # "retrying" /\ task.next = s
    THEN [task EXCEPT !.next = s + 2]
    ELSE task
Advance(g, s) ==
    IF /\ g # NoSpec /\ task.spec = g /\ task.enabled
       /\ task.status # "retrying" /\ task.next = s
    THEN [task EXCEPT !.next = s + 1]
    ELSE task

CanceledQueueAll ==                                  \* slip: the state is not looked at
    [s \in Slots |-> IF occ[s].state # "none"
                     THEN [state |-> "canceled", owner |-> NoCore, live |-> FALSE] ELSE occ[s]]
\* cancelQueuedCronOccurrencesTx
CanceledQueue ==
    [s \in Slots |-> IF occ[s].state = "queued"
                     THEN [state |-> "canceled", owner |-> NoCore, live |-> FALSE] ELSE occ[s]]

-----------------------------------------------------------------------------
(* triggerCore for a cron activation, by a tick or by the drain. *)

\* occurrenceJob.Run: the entry hands the callback its next activation.
Tick(c) ==
    /\ c \in Ticking /\ reg[c].spec # NoSpec /\ reg[c].at <= now /\ job[c]["tick"].pc = "idle"
    /\ job' = [job EXCEPT ![c]["tick"] = [pc |-> "ensure", slot |-> reg[c].at, spec |-> reg[c].spec]]
    /\ reg' = [reg EXCEPT ![c].at = @ + 1]
    /\ UNCHANGED <<now, task, occ, made, run, admit, page, sync, pausing, ops, faults>>

\* A core's sweep drains occurrences and reconciles schedules in turn.
Sweeps(c) == job[c]["drain"].pc = "idle" /\ sync[c].pc = "idle"

\* drainCronOccurrences reads a page of queued occurrences ...
DrainPage(c) ==
    /\ Sweeps(c) /\ page[c] = {}
    /\ \E s \in Slots : occ[s].state = "queued"
    /\ page' = [page EXCEPT ![c] = {s \in Slots : occ[s].state = "queued"}]
    /\ UNCHANGED <<now, task, occ, made, run, reg, job, admit, sync, pausing, ops, faults>>

\* ... and visits each of them; the occurrence is there, its state is read again.
DrainNext(c) ==
    /\ Sweeps(c)
    /\ \E s \in page[c] :
         /\ page' = [page EXCEPT ![c] = @ \ {s}]
         /\ job' = IF occ[s].state # "queued" THEN job
                   ELSE [job EXCEPT ![c]["drain"] = [pc |-> "advance", slot |-> s, spec |-> NoSpec]]
    /\ UNCHANGED <<now, task, occ, made, run, reg, admit, sync, pausing, ops, faults>>

At(c, k, pc) == job[c][k].pc = pc
Goto(c, k, to) == job' = [job EXCEPT ![c][k].pc = to]
End(c, k) == job' = [job EXCEPT ![c][k] = NoJob]

\* Intent first: a tick of a replaced schedule records nothing, and an
\* activation that was dealt with needs no more.
Ensure(c) ==
    /\ At(c, "tick", "ensure")
    /\ LET s == job[c]["tick"].slot
       IN \/ /\ job[c]["tick"].spec = task.spec
             /\ occ' = Recorded(s)
             /\ IF occ[s].state \in {"none", "queued"} THEN Goto(c, "tick", "advance") ELSE End(c, "tick")
             /\ UNCHANGED faults
          \/ /\ job[c]["tick"].spec # task.spec
             /\ End(c, "tick") /\ UNCHANGED <<occ, faults>>
          \/ /\ Fault("db")
             /\ End(c, "tick") /\ UNCHANGED occ
    /\ UNCHANGED <<now, task, made, run, reg, admit, page, sync, pausing, ops>>

AdvanceCursor(c, k) ==
    /\ At(c, k, "advance")
    /\ task' = Advance(IF k = "tick" THEN job[c][k].spec ELSE task.spec, job[c][k].slot)
    /\ Goto(c, k, "claim")
    /\ UNCHANGED <<now, occ, made, run, reg, admit, page, sync, pausing, ops, faults>>

ClaimableOwn(c, s) ==                                \* slip: a lapsed lease is never taken over
    occ[s].state = "queued" /\ occ[s].owner \in {NoCore, c}
\* claimCronOccurrence takes a queued occurrence nobody else leases.
Claimable(c, s) ==
    occ[s].state = "queued" /\ (occ[s].owner \in {NoCore, c} \/ ~occ[s].live)

\* claimPendingRunOwnership, then claimCronOccurrence.
Claim(c, k) ==
    /\ At(c, k, "claim")
    /\ LET s == job[c][k].slot
       IN IF admit[c] = "free" /\ Claimable(c, s)
          THEN /\ occ' = [occ EXCEPT ![s].owner = c, ![s].live = TRUE]
               /\ admit' = [admit EXCEPT ![c] = k]
               /\ Goto(c, k, "load")
          ELSE End(c, k) /\ UNCHANGED <<occ, admit>>
    /\ UNCHANGED <<now, task, made, run, reg, page, sync, pausing, ops, faults>>

\* The deferred clean-up of a refused dispatch frees the process-local slot
\* first and gives the occurrence back afterwards.
GiveUp(c, k) == admit' = [admit EXCEPT ![c] = "free"] /\ Goto(c, k, "release")

\* The task row decides; it is read outside the reservation's transaction.
LoadTask(c, k) ==
    /\ At(c, k, "load")
    /\ IF ~task.enabled \/ ~task.policy THEN Goto(c, k, "cancel") /\ UNCHANGED admit
       ELSE IF task.status # "idle" THEN GiveUp(c, k)
       ELSE Goto(c, k, "reserve") /\ UNCHANGED admit
    /\ UNCHANGED <<now, task, occ, made, run, reg, page, sync, pausing, ops, faults>>

\* settleCronOccurrence: whoever owns the occurrence by now.
SettleOccurrence(c, k) ==
    /\ At(c, k, "cancel")
    /\ LET s == job[c][k].slot
       IN occ' = IF occ[s].state = "queued"
                 THEN [occ EXCEPT ![s] = [state |-> "canceled", owner |-> NoCore, live |-> FALSE]]
                 ELSE occ
    /\ GiveUp(c, k)
    /\ UNCHANGED <<now, task, made, run, reg, page, sync, pausing, ops, faults>>

\* reserveTaskRun: what the transaction asks of the task ...
Reservable(s) ==
    /\ task.policy /\ task.enabled
    /\ made[s] = 0
    /\ run.st = "none" /\ task.status # "running"
\* ... and of the occurrence before it links the two.
Mine(c, s) == occ[s].state = "queued" /\ occ[s].owner = c

Dispatched(s) == [occ EXCEPT ![s] = [state |-> "dispatched", owner |-> NoCore, live |-> FALSE]]

Reserve(c, k) ==
    /\ At(c, k, "reserve")
    /\ LET s == job[c][k].slot
       IN \/ /\ Reservable(s) /\ Mine(c, s)
             /\ occ' = Dispatched(s)
             /\ made' = [made EXCEPT ![s] = @ + 1]
             /\ run' = [st |-> "pending", slot |-> s, core |-> c]
             /\ admit' = [admit EXCEPT ![c] = "run"]
             /\ End(c, k) /\ UNCHANGED faults
          \/ /\ \/ ~(Reservable(s) /\ Mine(c, s)) /\ UNCHANGED faults
                \/ Fault("refuse")     \* quota, node, resource or database
             /\ GiveUp(c, k) /\ UNCHANGED <<occ, made, run>>
    /\ UNCHANGED <<now, task, reg, page, sync, pausing, ops>>

\* releaseCronOccurrence: the owner is this core, not this dispatch.
Release(c, k) ==
    /\ At(c, k, "release")
    /\ LET s == job[c][k].slot
       IN occ' = IF Mine(c, s) THEN [occ EXCEPT ![s].owner = NoCore, ![s].live = FALSE] ELSE occ
    /\ End(c, k)
    /\ UNCHANGED <<now, task, made, run, reg, admit, page, sync, pausing, ops, faults>>

\* A dispatch lease lapses when its holder is gone, or too slow.
LeaseLapses(s) ==
    /\ occ[s].live
    /\ \/ occ[s].owner \notin Cores /\ UNCHANGED faults
       \/ Fault("lapse")
    /\ occ' = [occ EXCEPT ![s].live = FALSE]
    /\ UNCHANGED <<now, task, made, run, reg, job, admit, page, sync, pausing, ops>>

-----------------------------------------------------------------------------
(* The run. *)

\* The process-local slot of the run's core, once the run is over.
Vacated == [c \in Cores |-> IF admit[c] = "run" THEN "free" ELSE admit[c]]

\* Entry of a queued cron run: pausing, clearing the schedule and skip_next
\* stop it here.
Enter ==
    /\ run.st = "pending" /\ admit[run.core] = "run"
    /\ IF ~Scheduled
       THEN run' = NoRun /\ admit' = Vacated /\ UNCHANGED task
       ELSE IF task.skip
       THEN /\ task' = [task EXCEPT !.skip = FALSE,
                                    !.next = IF @ <= run.slot THEN run.slot + 1 ELSE @]
            /\ run' = NoRun /\ admit' = Vacated
       ELSE /\ task' = [task EXCEPT !.status = "running"]
            /\ run' = [run EXCEPT !.st = "running"] /\ UNCHANGED admit
    /\ UNCHANGED <<now, occ, made, reg, job, page, sync, pausing, ops, faults>>

\* normalizeCronTerminalSchedule keeps the cursor of an enabled task.
Ended(status) ==
    [task EXCEPT !.status = status,
                 !.next = IF task.enabled \/ status = "retrying" THEN @ ELSE 0]

\* A run ends, on its core or by recovery after the core died.
RunEnds ==
    /\ run.st # "none" /\ (run.st = "running" \/ admit[run.core] # "run")
    /\ \/ task' = (IF run.st = "running" THEN Ended("idle") ELSE task) /\ UNCHANGED faults
       \/ run.st = "running" /\ Fault("fail") /\ task' = Ended("retrying")
    /\ run' = NoRun /\ admit' = Vacated
    /\ UNCHANGED <<now, occ, made, reg, job, page, sync, pausing, ops>>

\* The retry of a failed run was delivered and ended (TaskRuns).
RetryEnds ==
    /\ task.status = "retrying"
    /\ task' = Ended("idle")
    /\ UNCHANGED <<now, occ, made, run, reg, job, admit, page, sync, pausing, ops, faults>>

-----------------------------------------------------------------------------
(* SyncSchedule: reconciliation, and after Resume or an edit. *)

\* RegisterTaskAt keeps the live entry of an unchanged schedule.
Registered(c, spec, at) ==
    IF reg[c].spec = spec THEN reg
    ELSE [reg EXCEPT ![c] = [spec |-> spec, at |-> IF at = 0 THEN now + 1 ELSE at]]

SyncTo(c, to) == sync' = [sync EXCEPT ![c] = [pc |-> to, spec |-> task.spec, due |-> task.next]]
SyncEnd(c) == sync' = [sync EXCEPT ![c] = NoSync]

SyncReadSet(c) ==                                    \* slip: any cursor that is set is left alone
    /\ Sweeps(c) /\ page[c] = {}
    /\ IF ~Scheduled THEN reg' = [reg EXCEPT ![c] = NoEntry] /\ UNCHANGED sync
       ELSE IF task.next # 0
       THEN reg' = Registered(c, task.spec, task.next) /\ UNCHANGED sync
       ELSE SyncTo(c, "init") /\ UNCHANGED reg
    /\ UNCHANGED <<now, task, occ, made, run, job, admit, page, pausing, ops, faults>>
SyncRead(c) ==
    /\ Sweeps(c) /\ page[c] = {}
    /\ IF ~Scheduled THEN reg' = [reg EXCEPT ![c] = NoEntry] /\ UNCHANGED sync
       ELSE IF task.status = "retrying"
       THEN /\ reg' = IF task.next = 0 /\ reg[c].spec = NoSpec THEN reg
                     ELSE Registered(c, task.spec, task.next)
            /\ UNCHANGED sync
       ELSE IF task.next > now
       THEN reg' = Registered(c, task.spec, task.next) /\ UNCHANGED sync
       ELSE SyncTo(c, IF task.next = 0 THEN "init" ELSE "record") /\ UNCHANGED reg
    /\ UNCHANGED <<now, task, occ, made, run, job, admit, page, pausing, ops, faults>>

\* A lost compare-and-set reads again; after four of them the entry is
\* registered from what was read.
SyncAgain(c) ==
    /\ SyncEnd(c)
    /\ reg' \in {reg, Registered(c, sync[c].spec, sync[c].due)}

\* A cursor that is NULL starts from the clock.
SyncInit(c) ==
    /\ sync[c].pc = "init"
    /\ IF /\ task.spec = sync[c].spec /\ task.enabled
          /\ task.status # "retrying" /\ task.next = 0
       THEN /\ task' = [task EXCEPT !.next = now + 1]
            /\ reg' = Registered(c, sync[c].spec, now + 1)
            /\ SyncEnd(c)
       ELSE SyncAgain(c) /\ UNCHANGED task
    /\ UNCHANGED <<now, occ, made, run, job, admit, page, pausing, ops, faults>>

SyncRecordLate(c) ==                                 \* slip: the cursor goes first
    /\ sync[c].pc = "record"
    /\ sync' = [sync EXCEPT ![c].pc = "advance"]
    /\ UNCHANGED <<now, task, made, run, reg, job, occ, admit, page, pausing, ops, faults>>
\* An overdue activation is recorded ...
SyncRecord(c) ==
    /\ sync[c].pc = "record"
    /\ \/ /\ task.spec = sync[c].spec
          /\ occ' = Recorded(sync[c].due)
          /\ sync' = [sync EXCEPT ![c].pc = "advance"]
          /\ UNCHANGED <<reg, faults>>
       \/ /\ task.spec # sync[c].spec
          /\ reg' = [reg EXCEPT ![c] = NoEntry]
          /\ SyncEnd(c) /\ UNCHANGED <<occ, faults>>
       \/ /\ Fault("db")
          /\ SyncEnd(c) /\ UNCHANGED <<occ, reg>>
    /\ UNCHANGED <<now, task, made, run, job, admit, page, pausing, ops>>

\* ... before the cursor leaves it.
SyncAdvance(c) ==
    /\ sync[c].pc = "advance"
    /\ task' = Advance(sync[c].spec, sync[c].due)
    /\ IF task' # task
       THEN reg' = Registered(c, sync[c].spec, sync[c].due + 1) /\ SyncEnd(c)
       ELSE SyncAgain(c)
    /\ UNCHANGED <<now, occ, made, run, job, admit, page, pausing, ops, faults>>

-----------------------------------------------------------------------------
(* Operators, time, crashes. *)

\* Pause commits the switch, then cancels what is queued, and then the retry it
\* saw, whatever the status is by now.
Pause(c) ==
    /\ Operator /\ pausing[c] = "no" /\ task.enabled
    /\ task' = [task EXCEPT !.enabled = FALSE, !.skip = FALSE, !.next = 0]
    /\ pausing' = [pausing EXCEPT ![c] = IF task.status = "retrying" THEN "retrying" ELSE "yes"]
    /\ UNCHANGED <<now, occ, made, run, reg, job, admit, page, sync, faults>>

PauseCancels(c) ==
    /\ pausing[c] # "no"
    /\ occ' = CanceledQueue
    /\ reg' = [reg EXCEPT ![c] = NoEntry]
    /\ task' = IF pausing[c] = "retrying" THEN [task EXCEPT !.status = "idle"] ELSE task
    /\ pausing' = [pausing EXCEPT ![c] = "no"]
    /\ UNCHANGED <<now, made, run, job, admit, page, sync, ops, faults>>

Resume ==
    /\ Operator /\ ~task.enabled
    /\ task' = [task EXCEPT !.enabled = TRUE]
    /\ UNCHANGED <<now, occ, made, run, reg, job, admit, page, sync, pausing, faults>>

SetSkipNext ==
    /\ Operator /\ task.enabled /\ task.spec # NoSpec /\ ~task.skip
    /\ task' = [task EXCEPT !.skip = TRUE]
    /\ UNCHANGED <<now, occ, made, run, reg, job, admit, page, sync, pausing, faults>>

\* Editing or clearing the schedule starts a new cursor; what is queued stays.
EditSpec(g) ==
    /\ Operator /\ g # task.spec
    /\ task' = [task EXCEPT !.spec = g,
                            !.next = IF task.enabled /\ g # NoSpec THEN now + 1 ELSE 0]
    /\ UNCHANGED <<now, occ, made, run, reg, job, admit, page, sync, pausing, faults>>

\* DisablePolicyTx for a task with a schedule of its own: it keeps the
\* expression and loses the cursor, its pending run and its queue.
DisablePolicy ==
    /\ Operator /\ task.policy
    /\ task' = [task EXCEPT !.policy = FALSE, !.next = 0]
    /\ occ' = CanceledQueue
    /\ run' = IF run.st = "pending" THEN NoRun ELSE run
    /\ admit' = IF run.st = "pending" THEN Vacated ELSE admit
    /\ UNCHANGED <<now, made, reg, job, page, sync, pausing, faults>>

\* ResumeTasksForPolicy
EnablePolicy ==
    /\ Operator /\ ~task.policy
    /\ task' = [task EXCEPT !.policy = TRUE,
                            !.next = IF task.enabled /\ task.spec # NoSpec THEN now + 1 ELSE 0]
    /\ UNCHANGED <<now, occ, made, run, reg, job, admit, page, sync, pausing, faults>>

\* Cancel, whose effect on the run is RunEnds.
CancelOccurrences ==
    /\ Operator
    /\ occ' = CanceledQueue
    /\ UNCHANGED <<now, task, made, run, reg, job, admit, page, sync, pausing, faults>>

Clock ==
    /\ now < MaxSlot
    /\ now' = now + 1
    /\ UNCHANGED <<task, occ, made, run, reg, job, admit, page, sync, pausing, ops, faults>>

\* A core dies and starts again with nothing in memory and a new owner id.
Crash(c) ==
    /\ Fault("crash")
    /\ reg' = [reg EXCEPT ![c] = NoEntry]
    /\ job' = [job EXCEPT ![c] = [k \in Kinds |-> NoJob]]
    /\ admit' = [admit EXCEPT ![c] = "free"]
    /\ page' = [page EXCEPT ![c] = {}]
    /\ sync' = [sync EXCEPT ![c] = NoSync]
    /\ pausing' = [pausing EXCEPT ![c] = "no"]
    /\ occ' = [s \in Slots |-> IF occ[s].owner = c THEN [occ[s] EXCEPT !.owner = Dead] ELSE occ[s]]
    /\ UNCHANGED <<now, task, made, run, ops>>

-----------------------------------------------------------------------------

JobStep(c, k) ==
    \/ AdvanceCursor(c, k) \/ Claim(c, k) \/ LoadTask(c, k)
    \/ SettleOccurrence(c, k) \/ Reserve(c, k) \/ Release(c, k)

SyncStep(c) ==
    SyncRead(c) \/ SyncInit(c) \/ SyncRecord(c) \/ SyncAdvance(c)

Next ==
    \/ \E c \in Cores : \/ Tick(c) \/ DrainPage(c) \/ DrainNext(c) \/ SyncStep(c)
                        \/ Ensure(c) \/ Pause(c) \/ PauseCancels(c) \/ Crash(c)
                        \/ \E k \in Kinds : JobStep(c, k)
    \/ \E s \in Slots : LeaseLapses(s)
    \/ Enter \/ RunEnds \/ RetryEnds
    \/ Resume \/ SetSkipNext \/ DisablePolicy \/ EnablePolicy \/ CancelOccurrences
    \/ \E g \in Specs \cup {NoSpec} : EditSpec(g)
    \/ Clock

Spec == Init /\ [][Next]_vars

\* Callbacks and sweeps keep running and end, started runs and retries end
\* (TaskRuns), leases lapse.  No operator has to do anything.
Fairness ==
    /\ \A c \in Cores :
         /\ WF_vars(DrainPage(c)) /\ WF_vars(DrainNext(c))
         /\ WF_vars(Ensure(c)) /\ WF_vars(SyncStep(c)) /\ WF_vars(PauseCancels(c))
         /\ \A k \in Kinds : WF_vars(JobStep(c, k))
    /\ \A s \in Slots : WF_vars(LeaseLapses(s))
    /\ WF_vars(Enter) /\ WF_vars(RunEnds) /\ WF_vars(RetryEnds)

FairSpec == Spec /\ Fairness

-----------------------------------------------------------------------------
(* Properties. *)

\* An activation gets at most one run, and exactly the occurrences that got
\* one say so, however many callbacks, drains, releases and cancellations meet
\* on it.
OneRunPerActivation ==
    \A s \in Slots : made[s] = IF occ[s].state = "dispatched" THEN 1 ELSE 0

\* While the schedule stays what it is, the cursor never leaves an activation
\* behind that has no occurrence, unless skip_next moves it.
IntentBeforeCursor ==
    [][ (task'.spec = task.spec /\ task'.policy = task.policy /\ task.next # 0 /\ ~(task.skip /\ ~task'.skip))
        => \A s \in Slots : task.next <= s /\ s < task'.next => occ'[s].state # "none" ]_vars

\* What the rest of the system sees of the schedule.
S == INSTANCE Schedule WITH
    Activations <- Slots,
    clock <- now,
    item <- [s \in Slots |-> occ[s].state],
    runs <- made,
    plan <- <<task.spec, task.enabled, task.policy>>,
    cursor <- task.next

\* Cores, callbacks, drains and operators together keep the promise of Schedule:
\* no activation is recorded before it is due, a settled one is final and was
\* dispatched at most once, and the cursor leaves recorded activations only.
RefinesSchedule == S!ScheduleSpec

\* Every occurrence is dispatched or canceled in the end.
OccurrencesSettle ==
    \A s \in Slots : occ[s].state = "queued" ~> occ[s].state # "queued"

\* The cursor of a schedule in force is set, and catches up with the clock
\* after whatever held it back.
CursorCatchesUp ==
    (Scheduled /\ task.next <= now) ~> (~Scheduled \/ task.next > now)
=============================================================================
