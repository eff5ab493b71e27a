------------------------- MODULE TaskRunsLife_proofs -------------------------
(***************************************************************************)
(* The execution core implements RunLife, for any cores, tasks, bounds and *)
(* faults.  Every step changes the table in one of few forms (LifeForms);  *)
(* each form is a step of RunLife or changes nothing it can see.           *)
(***************************************************************************)
EXTENDS TaskRunsFences_proofs

LifeStep == [Life!LifeNext]_(Life!lifeVars)

\* The step does not touch what RunLife sees of a run.
Unseen(q) == SameRun(q) /\ run'[q].status = run[q].status

\* A change of phases alone, without a change of identities.
LEMMA Identities ==
  ASSUME \A q \in RunIds : SameRun(q)
  PROVE  TaskOf' = TaskOf /\ PredOf' = PredOf
  BY DEF SameRun, TaskOf, PredOf

\* Steps that the reader of the table does not notice.
LEMMA UnseenLife ==
  ASSUME \A q \in RunIds : Unseen(q)
  PROVE  LifeStep
<1>1. TaskOf' = TaskOf /\ PredOf' = PredOf
  BY Identities DEF Unseen
<1>2. Phases' = Phases
  BY DEF Unseen, Phases
<1> QED BY <1>1, <1>2 DEF LifeStep, Life!lifeVars

\* An untouched table, and a change of owner or lease.
LEMMA OwnerLife ==
  ASSUME \/ run' = run
         \/ \E r \in RunIds : \E o, b : OwnedAt(r, o, b)
  PROVE  LifeStep
  BY UnseenLife DEF Unseen, SameRun, OwnedAt, OnlyRun

\* One run moves on to another phase.
LEMMA OnePhase ==
  ASSUME NEW r \in RunIds, SameRun(r), OnlyRun(r)
  PROVE  /\ Phases' = [Phases EXCEPT ![r] = Phase(run'[r].status)]
         /\ TaskOf' = TaskOf /\ PredOf' = PredOf
<1>1. \A q \in RunIds : SameRun(q)
  BY DEF SameRun, OnlyRun
<1>2. Phases' = [Phases EXCEPT ![r] = Phase(run'[r].status)]
  BY DEF Phases, OnlyRun
<1> QED BY <1>1, <1>2, Identities

\* A queued run is entered.
LEMMA EnterLife ==
  ASSUME NEW r \in RunIds, run[r].status = "pending", EnteredAt(r)
  PROVE  LifeStep
<1>1. /\ Phases' = [Phases EXCEPT ![r] = "executing"]
      /\ TaskOf' = TaskOf /\ PredOf' = PredOf
  BY OnePhase DEF EnteredAt, Phase
<1>2. Phases[r] = "queued"
  BY DEF Phases, Phase
<1>3. Life!Start(r)
  BY <1>1, <1>2 DEF Life!Start
<1> QED BY <1>3 DEF LifeStep, Life!LifeNext

\* An executing run is settled with the result of its execution.
LEMMA SucceedLife ==
  ASSUME NEW r \in RunIds, run[r].status = "running", NEW s \in {"success", "warning"},
         ClosedAt({r}, s)
  PROVE  LifeStep
<1>1. SameRun(r) /\ OnlyRun(r) /\ run'[r].status = s
  BY DEF ClosedAt, OnlyRun
<1>2. /\ Phases' = [Phases EXCEPT ![r] = "succeeded"]
      /\ TaskOf' = TaskOf /\ PredOf' = PredOf
  BY <1>1, OnePhase DEF Phase
<1>3. Phases[r] = "executing"
  BY DEF Phases, Phase
<1>4. Life!Succeed(r)
  BY <1>2, <1>3 DEF Life!Succeed
<1> QED BY <1>4 DEF LifeStep, Life!LifeNext

\* The active runs are the open ones.
LEMMA ActiveIsOpen ==
  ASSUME IInv
  PROVE  \A r \in RunIds : (r \in Life!Open) <=> Active(r)
<1> SUFFICES ASSUME NEW r \in RunIds PROVE (r \in Life!Open) <=> Active(r)
  OBVIOUS
<1>1. run[r].status \in Statuses \cup {"none"}
  BY Tables DEF RunRow
<1>2. Phase(run[r].status) \in {"queued", "executing"} <=> Active(r)
  BY <1>1 DEF Phase, Active, ActiveStatuses, Statuses, TerminalStatuses
<1> QED BY <1>2 DEF Life!Open, Phases

\* An active run fails.
LEMMA FailLife ==
  ASSUME IInv, NEW r \in RunIds, Active(r), ClosedAt({r}, "failed")
  PROVE  LifeStep
<1>1. SameRun(r) /\ OnlyRun(r) /\ run'[r].status = "failed"
  BY DEF ClosedAt, OnlyRun
<1>2. /\ Phases' = [Phases EXCEPT ![r] = "failed"]
      /\ TaskOf' = TaskOf /\ PredOf' = PredOf
  BY <1>1, OnePhase DEF Phase
<1>3. Life!Fail(r)
  BY <1>2, ActiveIsOpen DEF Life!Fail
<1> QED BY <1>3 DEF LifeStep, Life!LifeNext

\* Some active runs are canceled.
LEMMA DropLife ==
  ASSUME IInv, NEW R, \A q \in RunIds \cap R : Active(q), ClosedAt(R, "canceled")
  PROVE  LifeStep
<1> DEFINE D == RunIds \cap R
<1>1. TaskOf' = TaskOf /\ PredOf' = PredOf
  BY Identities DEF ClosedAt, SameRun
<1>2. D \in SUBSET Life!Open
  BY ActiveIsOpen
<1>3. Phases' = [r \in RunIds |-> IF r \in D THEN "dropped" ELSE Phases[r]]
  BY DEF Phases, ClosedAt, Phase
<1>4. Life!Drop(D)
  BY <1>1, <1>2, <1>3 DEF Life!Drop
<1> QED BY <1>2, <1>4 DEF LifeStep, Life!LifeNext

\* The fresh run is the next identity to be given out.
LEMMA FreshIsUnborn ==
  ASSUME IInv, NEW r \in RunIds, Fresh(r)
  PROVE  Life!Unborn(r)
<1>1. \A q \in RunIds : Phases[q] = "none" <=> run[q].status = "none"
  <2> SUFFICES ASSUME NEW q \in RunIds PROVE Phase(run[q].status) = "none" <=> run[q].status = "none"
    BY DEF Phases
  <2> QED BY DEF Phase
<1> QED BY <1>1 DEF Life!Unborn, Fresh

\* A row comes into being.
LEMMA BornLife ==
  ASSUME IInv, NEW r \in RunIds, Fresh(r), NEW t, NEW g, NEW p, NEW b, InsertedAt(r, t, g, p, b)
  PROVE  Life!Born(r, t, p)
<1>1. Phases' = [Phases EXCEPT ![r] = "queued"]
  BY DEF InsertedAt, OnlyRun, Phases, Phase
<1>2. TaskOf' = [TaskOf EXCEPT ![r] = t]
  BY DEF InsertedAt, OnlyRun, TaskOf
<1>3. PredOf' = [PredOf EXCEPT ![r] = p]
  BY DEF InsertedAt, OnlyRun, PredOf
<1> QED BY <1>1, <1>2, <1>3, FreshIsUnborn DEF Life!Born

\* A task without an active run is free.
LEMMA FreeTask ==
  ASSUME IInv, NEW t, \A q \in RunsOf(t) : ~Active(q)
  PROVE  Life!Free(t)
<1> SUFFICES ASSUME NEW q \in Life!Open PROVE TaskOf[q] # t
  BY DEF Life!Free
<1>1. q \in RunIds
  BY DEF Life!Open
<1>2. Active(q)
  BY <1>1, ActiveIsOpen
<1>3. run[q].status # "none"
  BY <1>2 DEF Active, ActiveStatuses
<1> QED BY <1>1, <1>2, <1>3 DEF RunsOf, TaskOf

\* A run is asked for.
LEMMA AskLife ==
  ASSUME IInv, NEW r \in RunIds, Fresh(r), NEW t \in Tasks, NEW g, NEW b, InsertedAt(r, t, g, 0, b),
         "auto" \in Faults \/ \A q \in RunsOf(t) : ~Active(q)
  PROVE  LifeStep
<1>1. Life!Ask(r, t)
  BY BornLife, FreeTask DEF Life!Ask
<1> QED BY <1>1 DEF LifeStep, Life!LifeNext

\* A retry is delivered for the latest run of a task: the claimed effect says
\* that the run failed and that nobody has delivered it before.
LEMMA RetryLife ==
  ASSUME IInv, NEW r \in RunIds, Fresh(r), NEW p \in RunIds, effect[p].status = "running",
         IsLatest(p), \A q \in RunsOf(run[p].task) \ {p} : ~Active(q),
         NEW g, NEW b, InsertedAt(r, run[p].task, g, p, b)
  PROVE  LifeStep
<1>1. run[p].status = "failed"
  BY DEF IInv, EffectOfFailed
<1>2. Phases[p] = "failed" /\ TaskOf[p] = run[p].task
  BY <1>1 DEF Phases, Phase, TaskOf
<1>3. Life!Latest(p)
  <2> SUFFICES ASSUME NEW q \in RunIds, Phases[q] # "none", TaskOf[q] = TaskOf[p] PROVE q <= p
    BY DEF Life!Latest
  <2>1. run[q].status # "none" /\ run[q].task = run[p].task
    BY <1>2 DEF Phases, Phase, TaskOf
  <2> QED BY <2>1 DEF IsLatest, RunsOf
<1>4. \A q \in RunsOf(run[p].task) : ~Active(q)
  BY <1>1 DEF Active, ActiveStatuses
<1>5. Life!Free(TaskOf[p])
  BY <1>2, <1>4, FreeTask
<1>6. \A q \in RunIds : PredOf[q] # p
  <2> SUFFICES ASSUME NEW q \in RunIds, run[q].pred = p PROVE FALSE
    BY DEF PredOf
  <2>1. run[q].pred # 0
    BY RunIdsAreNat
  <2>2. effect[p].status = "succeeded"
    BY <2>1 DEF IInv, RetryOnce
  <2> QED BY <2>2
<1>7. Life!Born(r, TaskOf[p], p)
  BY <1>2, BornLife
<1>8. Life!Retry(r, p)
  BY <1>2, <1>3, <1>5, <1>6, <1>7 DEF Life!Retry
<1> QED BY <1>8 DEF LifeStep, Life!LifeNext

-----------------------------------------------------------------------------
(* The transactions. *)

\* Which result a run may be settled with.
Allowed(r, s) == s \in {"failed", "canceled"} \/ (run[r].status = "running" /\ s \in {"success", "warning"})

\* One active run is settled.
LEMMA CloseLife ==
  ASSUME IInv, NEW r \in RunIds, Active(r), NEW s, Allowed(r, s), ClosedAt({r}, s)
  PROVE  LifeStep
<1>1. CASE s = "failed"
  BY <1>1, FailLife
<1>2. CASE s = "canceled"
  <2>1. \A q \in RunIds \cap {r} : Active(q)
    OBVIOUS
  <2> QED BY <1>2, <2>1, DropLife
<1>3. CASE run[r].status = "running" /\ s \in {"success", "warning"}
  BY <1>3, SucceedLife
<1> QED BY <1>1, <1>2, <1>3 DEF Allowed

\* terminalizeTaskRunTx.
LEMMA TerminalizeLife ==
  ASSUME IInv, NEW r \in RunIds, NEW expected \in SUBSET ActiveStatuses, NEW owners, NEW target, NEW n,
         NEW to, TerminalOK(owners, r, expected, target), Allowed(r, to), Terminalize(r, target, n, to)
  PROVE  LifeStep
<1>1. ClosedAt({r}, to)
  BY RowFacts DEF Terminalize
<1>2. Active(r)
  BY DEF TerminalOK, Active
<1> QED BY <1>1, <1>2, CloseLife

\* failTaskRunBeforeExecutor.
LEMMA RejectLife ==
  ASSUME IInv, NEW c \in Cores, NEW r \in RunIds, CanReject(c, r), Reject(r)
  PROVE  LifeStep
<1>1. ClosedAt({r}, "failed")
  BY RowFacts DEF Reject
<1> QED BY <1>1, FailLife DEF CanReject

\* A runner settles, or leaves the row alone.
LEMMA ConcludeLife ==
  ASSUME IInv, NEW c \in Cores, NEW t \in Tasks, worker[c][t].run \in RunIds,
         NEW expected \in SUBSET ActiveStatuses, NEW owners, NEW target, NEW n, NEW to,
         \/ to \in {"failed", "canceled"}
         \/ expected = {"running"} /\ to \in {"success", "warning"},
         Conclude(c, t, owners, expected, target, n, to)
  PROVE  LifeStep
<1> DEFINE r == worker[c][t].run
<1>1. CASE TerminalOK(owners, r, expected, target) /\ Terminalize(r, target, n, to)
  <2>1. Allowed(r, to)
    BY <1>1 DEF TerminalOK, Allowed
  <2> QED BY <1>1, <2>1, TerminalizeLife
<1>2. CASE run' = run
  BY <1>2, OwnerLife
<1> QED BY <1>1, <1>2 DEF Conclude, rows

\* A runner gives its queued run up, hands it back, or leaves it alone.
LEMMA GiveUpLife ==
  ASSUME IInv, NEW c \in Cores, NEW t \in Tasks, worker[c][t].run \in RunIds, NEW onError,
         GiveUp(c, t, onError)
  PROVE  LifeStep
<1> DEFINE r == worker[c][t].run
<1>1. CASE run' = run
  BY <1>1, OwnerLife
<1>2. CASE run' = WithOwner(r, NoCore, FALSE)
  BY <1>2, RowFacts, OwnerLife
<1>3. CASE run' = Closed({r}, "canceled") /\ run[r].status = "pending"
  <2>1. ClosedAt({r}, "canceled")
    BY <1>3, RowFacts
  <2> QED BY <1>3, <2>1, CloseLife DEF Active, ActiveStatuses, Allowed
<1> QED BY <1>1, <1>2, <1>3 DEF GiveUp, GivenUp

\* Every step of a runner.
LEMMA RunnerLife ==
  ASSUME IInv, NEW c \in Cores, NEW t \in Tasks,
         RunnerStep(c, t) \/ Heartbeat(c, t) \/ DeadlinePasses(c, t)
  PROVE  LifeStep
<1> DEFINE w == worker[c][t]
<1>1. w.pc \notin {"idle", "admitted"} => w.run \in RunIds
  BY RunnerFacts
<1>2. {"pending"} \in SUBSET ActiveStatuses /\ {"running"} \in SUBSET ActiveStatuses
  BY DEF ActiveStatuses
<1>3. ASSUME Reserve(c, t) PROVE LifeStep
  <2>1. CASE run' = run
    BY <2>1, OwnerLife
  <2>2. CASE /\ \A q \in RunsOf(t) : ~Active(q)
             /\ \E r \in RunIds : Fresh(r) /\ run' = Insert(r, t, "manual", 0, TRUE)
    <3>1. PICK r \in RunIds : Fresh(r) /\ run' = Insert(r, t, "manual", 0, TRUE)
      BY <2>2
    <3>2. InsertedAt(r, t, "manual", 0, TRUE)
      BY <3>1, RowFacts
    <3> QED BY <2>2, <3>1, <3>2, AskLife
  <2> QED BY <1>3, <2>1, <2>2 DEF Reserve
<1>4. ASSUME Launch(c, t) PROVE LifeStep
  <2>1. w.run \in RunIds
    BY <1>1, <1>4 DEF Launch, At
  <2>2. CASE run' = run \/ run' = WithOwner(w.run, c, TRUE)
    BY <2>1, <2>2, RowFacts, OwnerLife
  <2>3. CASE GiveUp(c, t, Freed(c, t))
    BY <2>1, <2>3, GiveUpLife
  <2> QED BY <1>4, <2>2, <2>3 DEF Launch, rows
<1>5. ASSUME FailUnclaimed(c, t) \/ FailRefused(c, t) PROVE LifeStep
  <2>1. w.run \in RunIds
    BY <1>1, <1>5 DEF FailUnclaimed, FailRefused, At
  <2> QED BY <1>5, <2>1, RejectLife, OwnerLife DEF FailUnclaimed, FailRefused, rows
<1>6. ASSUME Abort(c, t) PROVE LifeStep
  BY <1>1, <1>6, GiveUpLife DEF Abort, At
<1>7. ASSUME NodeRefuses(c, t) PROVE LifeStep
  <2>1. w.run \in RunIds
    BY <1>1, <1>7 DEF NodeRefuses, MayLoad, At
  <2> QED BY <1>2, <1>7, <2>1, ConcludeLife DEF NodeRefuses
<1>8. ASSUME Load(c, t) \/ EnterRefused(c, t) \/ BeginProvider(c, t) \/ ProviderReturns(c, t)
      PROVE  LifeStep
  BY <1>8, OwnerLife DEF Load, EnterRefused, BeginProvider, ProviderReturns
<1>9. ASSUME Enter(c, t) PROVE LifeStep
  <2>1. w.run \in RunIds
    BY <1>1, <1>9 DEF Enter, EntryOpen, At
  <2>2. EnteredAt(w.run) /\ run[w.run].status = "pending"
    BY <1>9, <2>1, RowFacts DEF Enter
  <2> QED BY <2>1, <2>2, EnterLife
<1>10. ASSUME EnterPaused(c, t) \/ CancelEntered(c, t) PROVE LifeStep
  <2>1. w.run \in RunIds
    BY <1>1, <1>10 DEF EnterPaused, EntryOpen, CancelEntered, At
  <2>2. run' = run \/ (run' = Closed({w.run}, "canceled") /\ Active(w.run))
    BY <1>10 DEF EnterPaused, CancelEntered, Active, ActiveStatuses
  <2> QED BY <2>1, <2>2, RowFacts, CloseLife, OwnerLife DEF Allowed
<1>11. ASSUME PreProviderFail(c, t) PROVE LifeStep
  <2>1. w.run \in RunIds
    BY <1>1, <1>11 DEF PreProviderFail, At
  <2> QED BY <1>2, <1>11, <2>1, ConcludeLife DEF PreProviderFail
<1>12. ASSUME Settle(c, t) PROVE LifeStep
  <2> DEFINE to == IF w.outcome \in {"final", "timeout"} THEN "failed" ELSE w.outcome
  <2>1. w.run \in RunIds /\ w.outcome \in Outcomes
    BY <1>12, RunnerFacts DEF Settle, At
  <2>2. to \in {"failed", "canceled"} \/ to \in {"success", "warning"}
    BY <2>1 DEF Outcomes
  <2>3. \E target, n : Conclude(c, t, {NoCore, c}, {"running"}, target, n, to)
    BY <1>12 DEF Settle
  <2> HIDE DEF to
  <2> QED BY <1>2, <2>1, <2>2, <2>3, ConcludeLife
<1>13. ASSUME Recover(c, t) PROVE LifeStep
  <2>1. w.run \in RunIds
    BY <1>1, <1>13 DEF Recover, At
  <2>2. Allowed(w.run, "failed") /\ ActiveStatuses \in SUBSET ActiveStatuses
    BY DEF Allowed
  <2> QED BY <1>13, <2>1, <2>2, TerminalizeLife, OwnerLife DEF Recover, rows
<1>14. ASSUME Heartbeat(c, t) PROVE LifeStep
  <2>1. w.run \in RunIds
    BY <1>1, <1>14 DEF Heartbeat, Beating
  <2>2. run' = run \/ run' = WithOwner(w.run, c, TRUE)
    BY <1>14 DEF Heartbeat
  <2> QED BY <2>1, <2>2, RowFacts, OwnerLife
<1>15. ASSUME DeadlinePasses(c, t) PROVE LifeStep
  BY <1>15, OwnerLife DEF DeadlinePasses
<1> QED BY <1>3, <1>4, <1>5, <1>6, <1>7, <1>8, <1>9, <1>10, <1>11, <1>12, <1>13, <1>14, <1>15 DEF RunnerStep

\* Every step of a sweep or a courier.
LEMMA SweepLife ==
  ASSUME IInv, NEW c \in Cores, NEW r \in RunIds, SweepStep(c, r)
  PROVE  LifeStep
<1>1. ASSUME LaunchDurable(c, r) PROVE LifeStep
  <2>1. run' = run \/ (run' = Closed({r}, "canceled") /\ Active(r))
    BY <1>1 DEF LaunchDurable, Durable, Active, ActiveStatuses, rows
  <2> QED BY <2>1, RowFacts, CloseLife, OwnerLife DEF Allowed
<1>2. ASSUME ReapClaim(c, r) PROVE LifeStep
  BY <1>2, RowFacts, OwnerLife DEF ReapClaim
<1>3. ASSUME DeliverRetry(c, r) PROVE LifeStep
  <2>1. CASE run' = run
    BY <2>1, OwnerLife
  <2>2. CASE /\ ClaimHeld(c, r) /\ ~Superseded(r)
             /\ \E q \in RunIds : Fresh(q) /\ run' = Insert(q, run[r].task, "retry", r, FALSE)
    <3>1. effect[r].status = "running"
      BY <2>2 DEF ClaimHeld
    <3>2. IsLatest(r) /\ \A q \in RunsOf(run[r].task) \ {r} : ~Active(q)
      BY <2>2 DEF Superseded
    <3>3. PICK q \in RunIds : Fresh(q) /\ run' = Insert(q, run[r].task, "retry", r, FALSE)
      BY <2>2
    <3>4. InsertedAt(q, run[r].task, "retry", r, FALSE)
      BY <3>3, RowFacts
    <3> QED BY <3>1, <3>2, <3>3, <3>4, RetryLife
  <2> QED BY <1>3, <2>1, <2>2 DEF DeliverRetry, rows
<1>4. ASSUME RebuildRetryEffect(c, r) \/ ClaimEffect(c, r) \/ FailEffect(c, r) PROVE LifeStep
  BY <1>4, OwnerLife DEF RebuildRetryEffect, ClaimEffect, FailEffect
<1> QED BY <1>1, <1>2, <1>3, <1>4 DEF SweepStep

\* Every step of an operator.
LEMMA OperatorLife ==
  ASSUME IInv, NEW c \in Cores, NEW t \in Tasks, OperatorAsks(c, t) \/ OperatorStep(c, t)
  PROVE  LifeStep
<1>1. ASSUME CancelOrphans(t) PROVE LifeStep
  BY <1>1, RowFacts, DropLife DEF CancelOrphans
<1>2. ASSUME CancelDirect(c, t) \/ CancelSignal(c, t) \/ CancelOrphan(c, t) PROVE LifeStep
  BY <1>1, <1>2, OwnerLife DEF CancelDirect, CancelSignal, CancelOrphan, rows
<1>3. ASSUME CancelOwned(c, t) PROVE LifeStep
  <2> DEFINE mine == {r \in RunningRuns(t) : run[r].owner = c}
  <2>1. run' = run \/ run' = Closed(mine, "canceled")
    BY <1>3 DEF CancelOwned
  <2>2. \A q \in RunIds \cap mine : Active(q)
    BY DEF RunningRuns, Active, ActiveStatuses
  <2> HIDE DEF mine
  <2> QED BY <2>1, <2>2, RowFacts, DropLife, OwnerLife
<1>4. ASSUME CancelPending(c, t) PROVE LifeStep
  <2> DEFINE queued == {r \in RunsOf(t) : run[r].status = "pending"}
  <2>1. run' = run \/ run' = Closed(queued, "canceled")
    BY <1>4 DEF CancelPending
  <2>2. \A q \in RunIds \cap queued : Active(q)
    BY DEF Active, ActiveStatuses
  <2> HIDE DEF queued
  <2> QED BY <2>1, <2>2, RowFacts, DropLife, OwnerLife
<1>5. ASSUME \/ Trigger(c, t) \/ CancelRead(c, t) \/ PauseRead(c, t) \/ Resume(c, t)
             \/ Overwrite(c, t) \/ PauseDisable(c, t)
      PROVE  LifeStep
  BY <1>5, OwnerLife DEF Trigger, CancelRead, PauseRead, Resume, Overwrite, PauseDisable
<1> QED BY <1>2, <1>3, <1>4, <1>5 DEF OperatorAsks, OperatorStep

-----------------------------------------------------------------------------
(* The refinement. *)

\* The empty table is an initial state of RunLife.
LEMMA LifeInitOK ==
  ASSUME Init
  PROVE  Life!LifeInit
<1> DEFINE t0 == CHOOSE t \in Tasks : TRUE
<1>1. t0 \in Tasks
  BY ConstantsAssumption
<1> HIDE DEF t0
<1>2. run = [r \in RunIds |-> NoRun(t0)]
  BY DEF Init, t0
<1>3. \A r \in RunIds : run[r].status = "none" /\ run[r].task = t0 /\ run[r].pred = 0
  BY <1>2 DEF NoRun
<1>4. Phases = [r \in RunIds |-> "none"] /\ PredOf = [r \in RunIds |-> 0]
  BY <1>3 DEF Phases, Phase, PredOf
<1>5. TaskOf \in [RunIds -> Tasks]
  BY <1>1, <1>3 DEF TaskOf
<1> QED BY <1>4, <1>5 DEF Life!LifeInit

\* Every step is a step of RunLife or leaves what it sees alone.
LEMMA LifeNextOK ==
  ASSUME IInv, [Next]_vars
  PROVE  LifeStep
<1>1. CASE UNCHANGED vars
  BY <1>1, OwnerLife DEF vars
<1>2. ASSUME NEW c \in Cores, Crash(c) \/ Seal(c) \/ Shutdown(c) \/ Drained(c) PROVE LifeStep
  BY <1>2, OwnerLife DEF Crash, Seal, Shutdown, Drained
<1>3. ASSUME DisablePolicy PROVE LifeStep
  <2>1. \A q \in RunIds \cap PolicyRuns({"pending"}) : Active(q)
    BY DEF PolicyRuns, Active, ActiveStatuses
  <2> QED BY <1>3, <2>1, RowFacts, DropLife DEF DisablePolicy
<1>4. ASSUME UpdatePolicy PROVE LifeStep
  BY <1>4, OwnerLife DEF UpdatePolicy
<1>5. ASSUME NEW t \in Tasks, ReserveAuto(t) PROVE LifeStep
  <2>1. PICK r \in RunIds : Fresh(r) /\ run' = Insert(r, t, "auto", 0, FALSE)
    BY <1>5 DEF ReserveAuto
  <2>2. InsertedAt(r, t, "auto", 0, FALSE)
    BY <2>1, RowFacts
  <2>3. "auto" \in Faults
    BY <1>5 DEF ReserveAuto
  <2> QED BY <2>1, <2>2, <2>3, AskLife
<1>6. ASSUME NEW r \in RunIds, RunLeaseExpires(r) \/ EffectLeaseExpires(r) PROVE LifeStep
  BY <1>6, RowFacts, OwnerLife DEF RunLeaseExpires, EffectLeaseExpires
<1>7. ASSUME NEW c \in Cores, ReapSettle(c) PROVE LifeStep
  <2>1. sweep[c].run \in RunIds /\ {sweep[c].seen} \in SUBSET ActiveStatuses
    BY <1>7 DEF ReapSettle, IInv, LocalOK, GoodClaim
  <2>2. Allowed(sweep[c].run, "failed")
    BY DEF Allowed
  <2> QED BY <1>7, <2>1, <2>2, TerminalizeLife, OwnerLife DEF ReapSettle, rows
<1> QED BY <1>1, <1>2, <1>3, <1>4, <1>5, <1>6, <1>7, RunnerLife, SweepLife, OperatorLife DEF Next

\* Whatever cores crash, stall or race, and whatever operators ask for, the table
\* of runs changes only as RunLife allows: a run ends once, succeeds only from
\* execution, and is retried at most once, as the latest of a task without an
\* open run.
THEOREM RunsRefineLife == Spec => RefinesLife
<1>1. Init => Life!LifeInit
  BY LifeInitOK
<1>2. IInv /\ [Next]_vars => [Life!LifeNext]_(Life!lifeVars)
  BY LifeNextOK DEF LifeStep
<1> QED BY <1>1, <1>2, Inductive, PTL DEF Spec, RefinesLife, Life!LifeSpec
=============================================================================
