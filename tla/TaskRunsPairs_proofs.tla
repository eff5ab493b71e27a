------------------------ MODULE TaskRunsPairs_proofs ------------------------
(***************************************************************************)
(* A Task and its running run move together, and one core at most is in    *)
(* the provider for it.  Both need the lease to fence, which a process     *)
(* that is paused past its lease (the "skew" fault) breaks, and neither    *)
(* survives the unconditional writes of Cancel and Pause: the theorems say *)
(* which faults they leave out, and hold under every other one.            *)
(***************************************************************************)
EXTENDS TaskRunsFences_proofs

\* Requests under way are of the kinds the instance allows.
ApiCalm ==
    \A c \in Cores, t \in Tasks :
       /\ "cancel" \notin Faults => api[c][t].pc \notin CancelPcs
       /\ "pause" \notin Faults => api[c][t].pc \notin PausePcs

\* A core that nobody may stop is up or has died.
CoreCalm == "shutdown" \notin Faults => \A c \in Cores : core[c] \in {"up", "down"}

\* A runner that nobody told to stop holds the lease of its active run.
FencedAt(c, t) ==
    LET w == worker[c][t] IN
    w.pc \in HeldPcs /\ ~w.canceled /\ Active(w.run) => run[w.run].owner = c /\ run[w.run].lease
Fenced == \A c \in Cores, t \in Tasks : FencedAt(c, t)

\* The run a sweep has claimed is in no runner's hands on its core, and no launch
\* can put it there.
SweepApart ==
    \A c \in Cores :
       LET r == sweep[c].run IN
       r \in RunIds => ~Durable(r) /\ run[r].status # "none" /\ worker[c][run[r].task].run # r

\* A run is never "retrying": the status is the Task's alone.
NoRetryingRun == \A r \in RunIds : run[r].status # "retrying"

CalmInv == ApiCalm /\ CoreCalm /\ SweepApart /\ NoRetryingRun

\* No step starts a request the instance excludes.
LEMMA ApiCalmKept ==
  ASSUME IInv, ApiCalm, Next
  PROVE  ApiCalm'
<1>0. api \in [Cores -> [Tasks -> Request]]
  BY Tables
<1> USE DEF ApiCalm, CancelPcs, PausePcs
<1>1. ASSUME UNCHANGED api PROVE ApiCalm'
  BY <1>1
<1>2. ASSUME NEW c \in Cores, NEW t \in Tasks, NEW q,
             api' = [api EXCEPT ![c][t] = q],
             "cancel" \notin Faults => q.pc \notin CancelPcs,
             "pause" \notin Faults => q.pc \notin PausePcs
      PROVE  ApiCalm'
  BY <1>0, <1>2
<1>3. ASSUME NEW c \in Cores, NEW t \in Tasks, OperatorAsks(c, t) \/ OperatorStep(c, t) PROVE ApiCalm'
  <2>0. Quiet.pc = "idle" /\ api[c][t] \in Request
    BY <1>0 DEF Quiet
  <2>1. CASE api' = Answered(c, t)
    BY <1>2, <2>0, <2>1 DEF Answered
  <2>2. ASSUME NEW pc, api' = Asked(c, t, pc), "cancel" \notin Faults => pc \notin CancelPcs,
               "pause" \notin Faults => pc \notin PausePcs
        PROVE  ApiCalm'
    <3> DEFINE q == [api[c][t] EXCEPT !.pc = pc]
    <3>1. api' = [api EXCEPT ![c][t] = q]
      BY <1>0, <2>2 DEF Asked
    <3>2. q.pc = pc
      BY <2>0 DEF Request
    <3> HIDE DEF q
    <3> QED BY <1>2, <2>2, <3>1, <3>2
  <2>3. CASE CancelRead(c, t)
    BY <1>2, <2>3 DEF CancelRead
  <2>4. CASE PauseRead(c, t)
    BY <1>2, <2>4 DEF PauseRead
  <2>5. CASE CancelSignal(c, t) \/ CancelOwned(c, t) \/ CancelOrphan(c, t) \/ CancelPending(c, t)
    <3>1. "cancel" \in Faults
      BY <2>5 DEF CancelSignal, CancelOwned, CancelOrphan, CancelPending, ApiAt
    <3>2. \/ api' = Answered(c, t) \/ UNCHANGED api
          \/ \E pc \in CancelPcs : api' = Asked(c, t, pc)
      BY <2>5 DEF CancelSignal, CancelOwned, CancelOrphan, CancelPending
    <3> QED BY <1>1, <2>1, <2>2, <3>1, <3>2
  <2>6. CASE PauseDisable(c, t)
    <3>1. "pause" \in Faults
      BY <2>6 DEF PauseDisable, ApiAt
    <3> QED BY <2>1, <2>2, <2>6, <3>1 DEF PauseDisable
  <2>7. CASE Overwrite(c, t)
    BY <2>1, <2>7 DEF Overwrite
  <2>8. CASE Trigger(c, t) \/ CancelDirect(c, t) \/ Resume(c, t)
    BY <1>1, <2>8 DEF Trigger, CancelDirect, Resume
  <2> QED BY <1>3, <2>3, <2>4, <2>5, <2>6, <2>7, <2>8 DEF OperatorAsks, OperatorStep
<1>4. ASSUME NEW c \in Cores, Crash(c) \/ Drained(c) PROVE ApiCalm'
  BY <1>0, <1>4 DEF Crash, Drained, Quiet
<1>5. ASSUME NEW c \in Cores, NEW t \in Tasks,
             RunnerStep(c, t) \/ Heartbeat(c, t) \/ DeadlinePasses(c, t)
      PROVE  ApiCalm'
  BY <1>1, <1>5 DEF RunnerStep, Heartbeat, DeadlinePasses, Reserve, Launch, FailUnclaimed, Abort, NodeRefuses, Load,
       Enter, EnterPaused, EnterRefused, FailRefused, CancelEntered, PreProviderFail, BeginProvider,
       ProviderReturns, Settle, Recover
<1>6. ASSUME NEW c \in Cores, NEW r \in RunIds, SweepStep(c, r) PROVE ApiCalm'
  BY <1>1, <1>6 DEF SweepStep, LaunchDurable, ReapClaim, RebuildRetryEffect, ClaimEffect, DeliverRetry,
       FailEffect
<1>7. ASSUME \/ \E c \in Cores : ReapSettle(c) \/ Seal(c) \/ Shutdown(c)
             \/ \E t \in Tasks : ReserveAuto(t)
             \/ DisablePolicy \/ UpdatePolicy
             \/ \E r \in RunIds : RunLeaseExpires(r) \/ EffectLeaseExpires(r)
      PROVE  ApiCalm'
  BY <1>1, <1>7 DEF ReapSettle, Seal, Shutdown, ReserveAuto, DisablePolicy, UpdatePolicy,
       RunLeaseExpires, EffectLeaseExpires
<1> QED BY <1>3, <1>4, <1>5, <1>6, <1>7 DEF Next

\* No core is sealed where the instance excludes an orderly stop.
LEMMA CoreCalmKept ==
  ASSUME IInv, CoreCalm, StepSlots
  PROVE  CoreCalm'
<1>1. core \in [Cores -> {"up", "sealed", "draining", "down"}]
  BY Tables
<1> QED BY <1>1 DEF CoreCalm, StepSlots, OneSlot, NoSlot, Stops, Dies, OthersKept

\* No step writes "retrying" into a run.
LEMMA NoRetryingRunKept ==
  ASSUME NoRetryingRun, StepRows
  PROVE  NoRetryingRun'
  BY DEF NoRetryingRun, StepRows, RowMove, Settled, TerminalStatuses

\* Sweeps change only by their own steps.
LEMMA SweepMoves ==
  ASSUME IInv, Next, NEW c \in Cores
  PROVE  sweep'[c] = sweep[c] \/ sweep'[c] = NoClaim \/ \E r \in RunIds : ReapClaim(c, r)
<1>0. sweep \in [Cores -> Claim]
  BY Tables
<1>1. ASSUME NEW d \in Cores, NEW t \in Tasks,
             \/ RunnerStep(d, t) \/ Heartbeat(d, t) \/ DeadlinePasses(d, t)
             \/ OperatorAsks(d, t) \/ OperatorStep(d, t)
      PROVE  sweep' = sweep
  BY <1>1 DEF RunnerStep, Heartbeat, DeadlinePasses, Reserve, Launch, FailUnclaimed, Abort, NodeRefuses, Load,
       Enter, EnterPaused, EnterRefused, FailRefused, CancelEntered, PreProviderFail, BeginProvider,
       ProviderReturns, Settle, Recover, OperatorAsks, OperatorStep, Trigger, CancelDirect, CancelRead,
       CancelSignal, CancelOwned, CancelOrphan, CancelPending, PauseRead, PauseDisable, Resume, Overwrite
<1>2. ASSUME NEW d \in Cores, NEW r \in RunIds, SweepStep(d, r), ~ReapClaim(d, r) PROVE sweep' = sweep
  BY <1>2 DEF SweepStep, LaunchDurable, RebuildRetryEffect, ClaimEffect, DeliverRetry, FailEffect
<1>3. ASSUME NEW d \in Cores, NEW r \in RunIds, ReapClaim(d, r)
      PROVE  sweep'[c] = sweep[c] \/ ReapClaim(c, r)
  BY <1>0, <1>3 DEF ReapClaim
<1>4. ASSUME NEW d \in Cores, ReapSettle(d) \/ Crash(d) PROVE sweep'[c] = sweep[c] \/ sweep'[c] = NoClaim
  BY <1>0, <1>4 DEF ReapSettle, Crash
<1>5. ASSUME \/ \E d \in Cores : Seal(d) \/ Shutdown(d) \/ Drained(d)
             \/ \E t \in Tasks : ReserveAuto(t)
             \/ DisablePolicy \/ UpdatePolicy
             \/ \E r \in RunIds : RunLeaseExpires(r) \/ EffectLeaseExpires(r)
      PROVE  sweep' = sweep
  BY <1>5 DEF Seal, Shutdown, Drained, ReserveAuto, DisablePolicy, UpdatePolicy,
       RunLeaseExpires, EffectLeaseExpires
<1> QED BY <1>1, <1>2, <1>3, <1>4, <1>5 DEF Next

\* A run that a sweep has claimed never comes into a runner's hands on its core.
LEMMA SweepApartKept ==
  ASSUME IInv, SlotInv, SweepApart, Next
  PROVE  SweepApart'
<1> SUFFICES ASSUME NEW c \in Cores, sweep'[c].run \in RunIds
             PROVE  LET r == sweep'[c].run IN
                    /\ ~(run'[r].status = "pending" /\ run'[r].trigger \in {"auto", "retry"})
                    /\ run'[r].status # "none" /\ worker'[c][run'[r].task].run # r
  BY DEF SweepApart, Durable
<1> DEFINE r == sweep'[c].run
           t == run[r].task
<1>0. StepRows /\ StepSlots /\ t \in Tasks
  BY NextRows, NextSlots, Tables DEF RunRow
<1>1. ~Durable(r) /\ run[r].status # "none" /\ worker[c][t].run # r
  <2>1. CASE sweep'[c] = sweep[c]
    BY <2>1 DEF SweepApart
  <2>2. CASE sweep'[c] = NoClaim
    BY <2>2, RunIdsAreNat DEF NoClaim
  <2>3. ASSUME NEW q \in RunIds, ReapClaim(c, q)
        PROVE  ~Durable(r) /\ run[r].status # "none" /\ worker[c][t].run # r
    <3>1. r = q /\ Reapable(c, q)
      BY <2>3, Tables DEF ReapClaim
    <3> QED BY <1>0, <3>1, RunIdsAreNat
            DEF Reapable, Active, ActiveStatuses, SlotInv, RunnerInv, RunnerAt
  <2> QED BY <2>1, <2>2, <2>3, SweepMoves
<1>2. run'[r].status # "none" /\ run'[r].task = t
  BY <1>0, <1>1, RowsKept
<1>3. ~(run'[r].status = "pending" /\ run'[r].trigger \in {"auto", "retry"})
  <2>1. RowMove(r)
    BY <1>0 DEF StepRows
  <2> QED BY <1>1, <2>1 DEF RowMove, SameRun, Settled, TerminalStatuses, Durable
<1>4. worker'[c][t].run # r
  <2>1. SlotMove(c, t)
    BY <1>0, SlotMoves
  <2>2. Idle.run # r
    BY RunIdsAreNat DEF Idle
  <2>3. Admits(c, t) => worker'[c][t].run # r
    BY RunIdsAreNat DEF Admits
  <2>4. \A q \in RunIds : Takes(c, t, q) => worker'[c][t].run # r
    BY <1>1 DEF Takes
  <2>5. Advances(c, t) \/ Signals(c, t) => worker'[c][t].run # r
    BY <1>1 DEF Advances, Signals, Carries
  <2> QED BY <1>1, <2>1, <2>2, <2>3, <2>4, <2>5 DEF SlotMove, Leaves, FreedAt
<1> QED BY <1>2, <1>3, <1>4

\* These hold in every reachable state, under every fault.
LEMMA CalmInductive == Spec => []CalmInv
<1>1. Init => CalmInv
  <2>1. Init => ApiCalm
    BY DEF Init, ApiCalm, Quiet, CancelPcs, PausePcs
  <2>2. Init => CoreCalm
    BY DEF Init, CoreCalm
  <2>3. Init => SweepApart
    BY RunIdsAreNat DEF Init, SweepApart, NoClaim
  <2>4. Init => NoRetryingRun
    BY DEF Init, NoRetryingRun, NoRun
  <2> QED BY <2>1, <2>2, <2>3, <2>4 DEF CalmInv
<1>2. IInv /\ SlotInv /\ CalmInv /\ [Next]_vars => CalmInv'
  <2>1. ASSUME IInv, SlotInv, CalmInv, Next PROVE CalmInv'
    BY <2>1, NextRows, NextSlots, ApiCalmKept, CoreCalmKept, SweepApartKept, NoRetryingRunKept DEF CalmInv
  <2>2. ASSUME CalmInv, UNCHANGED vars PROVE CalmInv'
    BY <2>2 DEF CalmInv, ApiCalm, CoreCalm, SweepApart, NoRetryingRun, Durable, vars
  <2> QED BY <2>1, <2>2
<1> QED BY <1>1, <1>2, Inductive, SlotsInductive, PTL DEF Spec

-----------------------------------------------------------------------------
(* The lease fences, where no process outlives its lease. *)

\* What a live lease allows: a change of owner, or a return to the queue, only by
\* its holder.
LEMMA FencedKept ==
  ASSUME "skew" \notin Faults, IInv, SlotInv, Fenced, StepRows, StepSlots
  PROVE  Fenced'
<1> SUFFICES ASSUME NEW c \in Cores, NEW t \in Tasks,
                    worker'[c][t].pc \in HeldPcs, ~worker'[c][t].canceled,
                    run'[worker'[c][t].run].status \in ActiveStatuses
             PROVE  run'[worker'[c][t].run].owner = c /\ run'[worker'[c][t].run].lease
  BY DEF Fenced, FencedAt, Active
<1> DEFINE w == worker[c][t]
           n == worker'[c][t]
           r == worker[c][t].run
<1>1. SlotMove(c, t)
  BY SlotMoves
<1>2. CASE n.pc = w.pc /\ n.run = w.run /\ (w.canceled => n.canceled)
  <2>1. r \in RunIds /\ run[r].status # "none" /\ run[r].task = t
    BY <1>2, RunnerFacts DEF HeldPcs, SlotInv, RunnerInv, RunnerAt
  <2>2. RowMove(r)
    BY <2>1 DEF StepRows
  <2>3. Active(r)
    BY <1>2, <2>1, <2>2 DEF RowMove, Active
  <2>4. run[r].owner = c /\ run[r].lease
    BY <1>2, <2>3 DEF Fenced, FencedAt
  <2>5. LeaseKept(r)
    BY <1>2, <2>1 DEF LeaseKept, HeldPcs
  <2>6. ASSUME NEW d \in Cores, Claimable(d, r) PROVE d = c
    BY <2>4, <2>6, ConstantsAssumption DEF Claimable, Owned
  <2>7. ~Returned(r)
    <3> SUFFICES ASSUME NEW u \in Tasks, worker[c][u].run = r, worker'[c][u] = Idle PROVE FALSE
      BY <2>6 DEF Returned
    <3>1. u = t
      BY <2>1 DEF SlotInv, RunnerInv, RunnerAt
    <3> QED BY <3>1 DEF Idle, HeldPcs
  <2>8. ~Settled(r)
    BY <1>2 DEF Settled, Active, ActiveStatuses, TerminalStatuses
  <2>9. (\E d \in Cores : Claimed(d, r)) => run'[r].owner = c /\ run'[r].lease
    BY <2>6 DEF Claimed
  <2> QED BY <1>2, <2>1, <2>2, <2>4, <2>5, <2>7, <2>8, <2>9 DEF RowMove
<1>3. CASE Advances(c, t)
  <2>1. r \in RunIds /\ n.run = r /\ Unsignaled(c, t)
    BY <1>3 DEF Advances
  <2>2. CASE OwnedAt(r, c, TRUE)
    BY <2>1, <2>2 DEF OwnedAt
  <2>3. CASE ~OwnedAt(r, c, TRUE)
    <3>1. w.pc \in HeldPcs /\ ~w.canceled
      BY <1>3, <2>1, <2>3 DEF Advances, Unsignaled, HeldPcs
    <3>2. UNCHANGED rows \/ (run[r].status = "pending" /\ EnteredAt(r))
      BY <1>3, <2>3 DEF Advances
    <3>3. Active(r) /\ run'[r].owner = run[r].owner /\ run'[r].lease = run[r].lease
      BY <2>1, <3>2 DEF Active, ActiveStatuses, EnteredAt, rows
    <3> QED BY <2>1, <3>1, <3>3 DEF Fenced, FencedAt
  <2> QED BY <2>2, <2>3
<1>4. ~(n = Idle) /\ ~Admits(c, t) /\ \A q \in RunIds : ~Takes(c, t, q)
  <2>1. n.pc \notin {"idle", "admitted", "reserved"}
    BY DEF HeldPcs
  <2>2. Idle.pc = "idle"
    BY DEF Idle
  <2> QED BY <2>1, <2>2 DEF Admits, Takes
<1> QED BY <1>1, <1>2, <1>3, <1>4 DEF SlotMove, Leaves, FreedAt, Signals, Carries

\* Without a process that outlives its lease, a runner nobody stopped has it.
LEMMA FenceInductive == "skew" \notin Faults => (Spec => []Fenced)
<1> SUFFICES ASSUME "skew" \notin Faults PROVE Spec => []Fenced
  OBVIOUS
<1>1. Init => Fenced
  BY DEF Init, Fenced, FencedAt, Idle, HeldPcs
<1>2. IInv /\ SlotInv /\ Fenced /\ [Next]_vars => Fenced'
  <2>1. ASSUME IInv, SlotInv, Fenced, Next PROVE Fenced'
    BY <2>1, NextRows, NextSlots, FencedKept
  <2>2. ASSUME Fenced, UNCHANGED vars PROVE Fenced'
    BY <2>2 DEF Fenced, FencedAt, Active, vars
  <2> QED BY <2>1, <2>2
<1> QED BY <1>1, <1>2, Inductive, SlotsInductive, PTL DEF Spec

-----------------------------------------------------------------------------
(* A Task and its running run. *)

\* The pair: a Task is running exactly when one of its runs is.
Together ==
    /\ \A r \in RunIds : run[r].status = "running" => task[run[r].task].status = "running"
    /\ \A t \in Tasks : task[t].status = "running" =>
          \E r \in RunIds : run[r].task = t /\ run[r].status = "running"
    /\ \A r, q \in RunIds :
          run[r].status = "running" /\ run[q].status = "running" /\ run[r].task = run[q].task => r = q
RunningOwned == \A r \in RunIds : run[r].status = "running" => run[r].owner # NoCore

\* A runner that was refused, or may still be, finds a running run only in
\* another core's hands: its rejection cannot close it behind the Task's back.
RefusalPcs == {"rejected", "loaded", "limited", "refused"}
NotMine ==
    \A c \in Cores, t \in Tasks :
       worker[c][t].pc \in RefusalPcs /\ run[worker[c][t].run].status = "running" =>
          run[worker[c][t].run].owner # c
PairInv == Together /\ RunningOwned /\ NotMine

\* The ways a step moves the pair: not at all, into the execution, out of it.
RunsStill ==
    \A q \in RunIds :
       /\ run'[q].status = "running" <=> run[q].status = "running"
       /\ run[q].status = "running" => run'[q].task = run[q].task
TasksStill == \A t \in Tasks : task'[t].status = "running" <=> task[t].status = "running"
PairEnters(r) ==
    /\ run[r].status = "pending" /\ EnteredAt(r)
    /\ task[run[r].task].status # "running" /\ task'[run[r].task].status = "running"
    /\ OnlyTask(run[r].task)
PairLeaves(r) ==
    /\ run[r].status = "running" /\ run'[r].status # "running" /\ OnlyRun(r)
    /\ task'[run[r].task].status # "running" /\ OnlyTask(run[r].task)
PairStep ==
    (RunsStill /\ TasksStill) \/ \E r \in RunIds : PairEnters(r) \/ PairLeaves(r)

\* The updates that leave the running runs and the running Tasks alone.
LEMMA StillFacts ==
  ASSUME IInv
  PROVE  /\ run' = run => RunsStill
         /\ task' = task => TasksStill
         /\ \A R, s : /\ ClosedAt(R, s) /\ s \in TerminalStatuses
                      /\ \A q \in RunIds \cap R : run[q].status = "pending"
                      => RunsStill
         /\ \A r \in RunIds : \A o, b : OwnedAt(r, o, b) => RunsStill
         /\ \A r \in RunIds : \A t, g, p, b : Fresh(r) /\ InsertedAt(r, t, g, p, b) => RunsStill
         /\ \A t \in Tasks : \A s, n :
               TaskAt(t, s, n) /\ (s = "running" <=> task[t].status = "running") => TasksStill
<1>1. \A R, s : /\ ClosedAt(R, s) /\ s \in TerminalStatuses
                /\ \A q \in RunIds \cap R : run[q].status = "pending"
                => RunsStill
  BY DEF RunsStill, ClosedAt, TerminalStatuses
<1>2. \A r \in RunIds : \A o, b : OwnedAt(r, o, b) => RunsStill
  BY DEF RunsStill, OwnedAt, SameRun, OnlyRun
<1>3. \A r \in RunIds : \A t, g, p, b : Fresh(r) /\ InsertedAt(r, t, g, p, b) => RunsStill
  BY DEF RunsStill, InsertedAt, OnlyRun, Fresh
<1>4. \A t \in Tasks : \A s, n :
         TaskAt(t, s, n) /\ (s = "running" <=> task[t].status = "running") => TasksStill
  BY DEF TasksStill, TaskAt, OnlyTask
<1>5. (run' = run => RunsStill) /\ (task' = task => TasksStill)
  BY DEF RunsStill, TasksStill
<1> QED BY <1>1, <1>2, <1>3, <1>4, <1>5

\* The terminal transaction moves the pair as one.
LEMMA TerminalizePair ==
  ASSUME IInv, NoRetryingRun, NEW r \in RunIds, Active(r), NEW target, NEW n,
         NEW to \in TerminalStatuses, Terminalize(r, target, n, to),
         run[r].status = "running" => target # "running",
         run[r].status = "pending" /\ ~Duplicate(r) =>
            (target = "running" <=> task[run[r].task].status = "running")
  PROVE  PairStep
<1> DEFINE t == run[r].task
<1>1. ClosedAt({r}, to) /\ t \in Tasks
  BY RowFacts, Tables DEF Terminalize, RunRow
<1>2. run[r].status \in {"pending", "running"}
  BY DEF NoRetryingRun, Active, ActiveStatuses
<1>3. CASE run[r].status = "running"
  <2>1. TaskAt(t, target, n)
    BY <1>1, <1>3, TaskFacts DEF Terminalize, Duplicate
  <2>2. run'[r].status # "running" /\ OnlyRun(r)
    BY <1>1 DEF ClosedAt, OnlyRun, TerminalStatuses
  <2>3. PairLeaves(r)
    BY <1>3, <2>1, <2>2 DEF PairLeaves, TaskAt
  <2> QED BY <2>3 DEF PairStep
<1>4. CASE run[r].status = "pending"
  <2>1. RunsStill
    BY <1>1, <1>4, StillFacts
  <2>2. CASE Duplicate(r)
    BY <2>1, <2>2, StillFacts DEF PairStep, Terminalize
  <2>3. CASE ~Duplicate(r)
    <3>1. TaskAt(t, target, n)
      BY <1>1, <2>3, TaskFacts DEF Terminalize
    <3>2. TasksStill
      BY <1>1, <1>4, <2>3, <3>1, StillFacts
    <3> QED BY <2>1, <3>2 DEF PairStep
  <2> QED BY <2>2, <2>3
<1> QED BY <1>2, <1>3, <1>4

\* A recovery leaves the Task of a running sibling alone: the run it closes is
\* then a duplicate.
LEMMA RecoveryPair ==
  ASSUME IInv, NoRetryingRun, PairInv, NEW r \in RunIds, Active(r), NEW n,
         Terminalize(r, RecoveryTarget(run[r].task), n, "failed")
  PROVE  PairStep
<1> DEFINE t == run[r].task
<1>1. RecoveryTarget(t) # "running" /\ "failed" \in TerminalStatuses
  BY DEF RecoveryTarget, TerminalStatuses
<1>2. ASSUME run[r].status = "pending", ~Duplicate(r) PROVE task[t].status # "running"
  <2> SUFFICES ASSUME task[t].status = "running" PROVE FALSE
    OBVIOUS
  <2>1. PICK q \in RunIds : run[q].task = t /\ run[q].status = "running"
    BY Tables DEF PairInv, Together, RunRow
  <2>2. q # r /\ Active(q) /\ run[q].owner # NoCore
    BY <1>2, <2>1 DEF Active, ActiveStatuses, PairInv, RunningOwned
  <2> QED BY <1>2, <2>1, <2>2 DEF Duplicate
<1> QED BY <1>1, <1>2, TerminalizePair

\* A rejected run was not running, and its Task at most retrying.
LEMMA RejectPair ==
  ASSUME IInv, NoRetryingRun, NEW r \in RunIds, Active(r), run[r].status # "running", Reject(r)
  PROVE  PairStep
<1> DEFINE t == run[r].task
           next == NextAfterFailure("retrying", task[t].retries, MaxRetries)
<1>1. ClosedAt({r}, "failed") /\ t \in Tasks /\ run[r].status = "pending" /\ "failed" \in TerminalStatuses
  BY RowFacts, Tables DEF Reject, RunRow, NoRetryingRun, Active, ActiveStatuses, TerminalStatuses
<1>2. RunsStill
  BY <1>1, StillFacts
<1>3. next.status # "running"
  BY DEF NextAfterFailure
<1>4. \/ task' = task
      \/ /\ task' = [task EXCEPT ![t].status = next.status, ![t].retries = next.count]
         /\ task[t].status = "retrying"
  BY DEF Reject
<1> HIDE DEF next
<1>5. TasksStill
  <2>1. CASE task' = task
    BY <2>1, StillFacts
  <2>2. CASE /\ task' = [task EXCEPT ![t].status = next.status, ![t].retries = next.count]
             /\ task[t].status = "retrying"
    <3>1. TaskAt(t, next.status, next.count)
      BY <1>1, <2>2, TaskFacts
    <3>2. next.status = "running" <=> task[t].status = "running"
      BY <1>3, <2>2
    <3> QED BY <1>1, <3>1, <3>2, StillFacts
  <2> QED BY <1>4, <2>1, <2>2
<1> QED BY <1>2, <1>5 DEF PairStep

\* A runner that gives up leaves the pair alone.
LEMMA GiveUpPair ==
  ASSUME IInv, NEW c \in Cores, NEW t \in Tasks, worker[c][t].run \in RunIds, NEW onError,
         GiveUp(c, t, onError)
  PROVE  PairStep
<1> DEFINE r == worker[c][t].run
<1>1. CASE run' = run
  BY <1>1, StillFacts DEF PairStep, GiveUp
<1>2. CASE run' = WithOwner(r, NoCore, FALSE)
  BY <1>2, RowFacts, StillFacts DEF PairStep, GiveUp
<1>3. CASE run' = Closed({r}, "canceled") /\ run[r].status = "pending"
  <2>1. RunsStill
    BY <1>3, RowFacts, StillFacts DEF TerminalStatuses
  <2> QED BY <2>1, StillFacts DEF PairStep, GiveUp
<1> QED BY <1>1, <1>2, <1>3 DEF GiveUp, GivenUp
\* Every step of a runner.
LEMMA RunnerPair ==
  ASSUME IInv, SlotInv, NoRetryingRun, PairInv, NEW c \in Cores, NEW t \in Tasks,
         RunnerStep(c, t) \/ Heartbeat(c, t) \/ DeadlinePasses(c, t)
  PROVE  PairStep
<1> DEFINE w == worker[c][t]
           r == worker[c][t].run
<1>0. /\ w.pc \notin {"idle", "admitted"} => r \in RunIds
      /\ r \in RunIds => run[r].task = t
      /\ w.seen # "running"
  BY RunnerFacts DEF SlotInv, RunnerInv, RunnerAt
<1>1. ASSUME run' = run, task' = task PROVE PairStep
  BY <1>1, StillFacts DEF PairStep
<1>2. ASSUME RunsStill, task' = task PROVE PairStep
  BY <1>2, StillFacts DEF PairStep
<1>3. ASSUME Reserve(c, t) PROVE PairStep
  <2>1. RunsStill
    BY <1>3, RowFacts, StillFacts DEF Reserve
  <2> QED BY <1>2, <1>3, <2>1 DEF Reserve
<1>4. ASSUME Launch(c, t) PROVE PairStep
  <2>1. r \in RunIds
    BY <1>0, <1>4 DEF Launch, At
  <2>2. CASE run' = WithOwner(r, c, TRUE) /\ task' = task
    BY <1>2, <2>1, <2>2, RowFacts, StillFacts
  <2>3. CASE GiveUp(c, t, Freed(c, t))
    BY <2>1, <2>3, GiveUpPair
  <2> QED BY <1>1, <1>4, <2>2, <2>3 DEF Launch, rows
<1>5. ASSUME FailUnclaimed(c, t) \/ FailRefused(c, t) PROVE PairStep
  <2>1. r \in RunIds /\ w.pc \in {"rejected", "refused"}
    BY <1>0, <1>5 DEF FailUnclaimed, FailRefused, At
  <2>2. CASE CanReject(c, r) /\ Reject(r)
    <3>1. run[r].status # "running"
      BY <2>1, <2>2 DEF CanReject, Owned, PairInv, RunningOwned, NotMine, RefusalPcs
    <3> QED BY <2>1, <2>2, <3>1, RejectPair DEF CanReject
  <2> QED BY <1>1, <1>5, <2>2 DEF FailUnclaimed, FailRefused, rows
<1>6. ASSUME Abort(c, t) PROVE PairStep
  BY <1>0, <1>6, GiveUpPair DEF Abort, At
<1>7. ASSUME NodeRefuses(c, t) PROVE PairStep
  <2>1. r \in RunIds /\ run[r].task = t
    BY <1>0, <1>7 DEF NodeRefuses, MayLoad, At
  <2>2. CASE Terminalize(r, task[t].status, task[t].retries, "canceled") /\ run[r].status = "pending"
    BY <2>1, <2>2, TerminalizePair DEF Active, ActiveStatuses, TerminalStatuses
  <2> QED BY <1>1, <1>7, <2>2 DEF NodeRefuses, Conclude, TerminalOK, rows
<1>8. ASSUME Load(c, t) \/ EnterRefused(c, t) \/ BeginProvider(c, t) \/ ProviderReturns(c, t)
      PROVE  PairStep
  BY <1>1, <1>8 DEF Load, EnterRefused, BeginProvider, ProviderReturns
<1>9. ASSUME Enter(c, t) PROVE PairStep
  <2>1. r \in RunIds /\ run[r].task = t /\ run[r].status = "pending" /\ task[t].status = w.seen
    BY <1>0, <1>9 DEF Enter, EntryOpen, At
  <2>2. EnteredAt(r) /\ TaskAt(t, "running", task[t].retries)
    BY <1>9, <2>1, RowFacts, TaskFacts DEF Enter
  <2>3. PairEnters(r)
    BY <1>0, <2>1, <2>2 DEF PairEnters, TaskAt
  <2> QED BY <2>1, <2>3 DEF PairStep
<1>10. ASSUME EnterPaused(c, t) PROVE PairStep
  <2>1. r \in RunIds
    BY <1>0, <1>10 DEF EnterPaused, EntryOpen, At
  <2>2. RunsStill
    BY <1>10, <2>1, RowFacts, StillFacts DEF EnterPaused, TerminalStatuses
  <2> QED BY <1>2, <1>10, <2>2 DEF EnterPaused
<1>11. ASSUME CancelEntered(c, t) PROVE PairStep
  <2>1. r \in RunIds /\ run[r].task = t
    BY <1>0, <1>11 DEF CancelEntered, At
  <2>2. CASE run' = Closed({r}, "canceled") /\ task' = WithStatus(t, w.seen) /\ run[r].status = "running"
    <3>1. ClosedAt({r}, "canceled") /\ TaskAt(t, w.seen, task[t].retries)
      BY <2>2, RowFacts, TaskFacts
    <3>2. PairLeaves(r)
      BY <1>0, <2>1, <2>2, <3>1 DEF PairLeaves, ClosedAt, TaskAt, OnlyRun
    <3> QED BY <2>1, <3>2 DEF PairStep
  <2> QED BY <1>1, <1>11, <2>2 DEF CancelEntered
<1>12. ASSUME PreProviderFail(c, t) PROVE PairStep
  <2>1. r \in RunIds
    BY <1>0, <1>12 DEF PreProviderFail, At
  <2>2. CASE Terminalize(r, "failed", task[t].retries, "failed") /\ run[r].status = "running"
    BY <2>1, <2>2, TerminalizePair DEF Active, ActiveStatuses, TerminalStatuses
  <2> QED BY <1>1, <1>12, <2>2 DEF PreProviderFail, Conclude, TerminalOK, rows
<1>13. ASSUME Settle(c, t) PROVE PairStep
  <2> DEFINE o == w.outcome
             next == NextAfterFailure("running", w.tries, MaxRetries)
             target == CASE o = "failed" -> next.status
                         [] o \in {"final", "timeout"} -> "failed"
                         [] OTHER -> o
             to == IF o \in {"final", "timeout"} THEN "failed" ELSE o
  <2>1. r \in RunIds /\ o \in Outcomes
    BY <1>13, RunnerFacts DEF Settle, At
  <2>2. target # "running" /\ to \in TerminalStatuses
    BY <2>1 DEF Outcomes, NextAfterFailure, TerminalStatuses
  <2>3. \/ run' = run /\ task' = task
        \/ /\ run[r].status = "running"
           /\ \E n : Terminalize(r, target, n, to)
    BY <1>13 DEF Settle, Conclude, TerminalOK, rows
  <2> HIDE DEF target, to
  <2> QED BY <1>1, <2>1, <2>2, <2>3, TerminalizePair DEF Active, ActiveStatuses
<1>14. ASSUME Recover(c, t) PROVE PairStep
  <2>1. r \in RunIds /\ run[r].task = t
    BY <1>0, <1>14 DEF Recover, At
  <2>2. CASE Active(r) /\ Terminalize(r, RecoveryTarget(t), task[t].retries, "failed")
    BY <2>1, <2>2, RecoveryPair
  <2> QED BY <1>1, <1>14, <2>2 DEF Recover, TerminalOK, Active, rows
<1>15. ASSUME Heartbeat(c, t) PROVE PairStep
  <2>1. r \in RunIds
    BY <1>0, <1>15 DEF Heartbeat, Beating
  <2>2. RunsStill
    BY <1>15, <2>1, RowFacts, StillFacts DEF Heartbeat
  <2> QED BY <1>2, <1>15, <2>2 DEF Heartbeat
<1>16. ASSUME DeadlinePasses(c, t) PROVE PairStep
  BY <1>1, <1>16 DEF DeadlinePasses
<1> QED BY <1>3, <1>4, <1>5, <1>6, <1>7, <1>8, <1>9, <1>10, <1>11, <1>12, <1>13, <1>14, <1>15, <1>16
        DEF RunnerStep

\* Every step, where nobody cancels and nobody pauses.
LEMMA NextPair ==
  ASSUME "cancel" \notin Faults, "pause" \notin Faults, IInv, SlotInv, CalmInv, PairInv, Next
  PROVE  PairStep
<1>1. ASSUME run' = run, task' = task PROVE PairStep
  BY <1>1, StillFacts DEF PairStep
<1>2. ASSUME RunsStill, task' = task PROVE PairStep
  BY <1>2, StillFacts DEF PairStep
<1>3. ASSUME NEW c \in Cores, NEW t \in Tasks, OperatorAsks(c, t) \/ OperatorStep(c, t) PROVE PairStep
  <2>1. api[c][t].pc \notin CancelPcs \cup PausePcs
    BY DEF CalmInv, ApiCalm
  <2>2. ~OperatorStep(c, t)
    BY <2>1 DEF OperatorStep, CancelSignal, CancelOwned, CancelOrphan, CancelPending, Overwrite,
                PauseDisable, ApiAt, CancelPcs, PausePcs
  <2>3. Trigger(c, t)
    BY <1>3, <2>2 DEF OperatorAsks, CancelDirect, CancelRead, PauseRead, Resume
  <2> QED BY <1>1, <2>3 DEF Trigger
<1>4. ASSUME NEW c \in Cores, NEW r \in RunIds, SweepStep(c, r) PROVE PairStep
  <2> DEFINE t == run[r].task
  <2>0. t \in Tasks
    BY Tables DEF RunRow
  <2>1. CASE LaunchDurable(c, r)
    <3>1. CASE run' = Closed({r}, "canceled") /\ Durable(r)
      <4>1. RunsStill
        BY <3>1, RowFacts, StillFacts DEF Durable, TerminalStatuses
      <4>2. task' = task \/ (task' = WithStatus(t, "canceled") /\ task[t].status = "retrying")
        BY <2>1, <3>1 DEF LaunchDurable, rows
      <4>3. TasksStill
        BY <2>0, <4>2, TaskFacts, StillFacts
      <4> QED BY <4>1, <4>3 DEF PairStep
    <3> QED BY <1>1, <2>1, <3>1 DEF LaunchDurable, rows
  <2>2. CASE ReapClaim(c, r)
    <3>1. RunsStill
      BY <2>2, RowFacts, StillFacts DEF ReapClaim
    <3> QED BY <1>2, <2>2, <3>1 DEF ReapClaim
  <2>3. CASE DeliverRetry(c, r)
    <3>1. run' = run \/ \E q \in RunIds : Fresh(q) /\ run' = Insert(q, t, "retry", r, FALSE)
      BY <2>3 DEF DeliverRetry, rows
    <3>2. RunsStill
      BY <3>1, RowFacts, StillFacts
    <3>3. task' = task \/ (task' = WithStatus(t, "canceled") /\ task[t].status = "retrying")
      BY <2>3 DEF DeliverRetry, rows
    <3>4. TasksStill
      BY <2>0, <3>3, TaskFacts, StillFacts
    <3> QED BY <3>2, <3>4 DEF PairStep
  <2>4. CASE FailEffect(c, r)
    <3>1. task' = task \/ (task' = WithStatus(t, "failed") /\ task[t].status = "retrying")
      BY <2>4 DEF FailEffect
    <3>2. TasksStill /\ RunsStill
      BY <2>0, <2>4, <3>1, TaskFacts, StillFacts DEF FailEffect
    <3> QED BY <3>2 DEF PairStep
  <2>5. CASE RebuildRetryEffect(c, r) \/ ClaimEffect(c, r)
    BY <1>1, <2>5 DEF RebuildRetryEffect, ClaimEffect
  <2> QED BY <1>4, <2>1, <2>2, <2>3, <2>4, <2>5 DEF SweepStep
<1>5. ASSUME NEW c \in Cores, ReapSettle(c) PROVE PairStep
  <2> DEFINE r == sweep[c].run
  <2>1. r \in RunIds /\ sweep[c].seen \in ActiveStatuses
    BY <1>5 DEF ReapSettle, IInv, LocalOK, GoodClaim
  <2>2. CASE Active(r) /\ Terminalize(r, RecoveryTarget(run[r].task), task[run[r].task].retries, "failed")
    BY <2>1, <2>2, RecoveryPair DEF CalmInv
  <2> QED BY <1>1, <1>5, <2>1, <2>2 DEF ReapSettle, TerminalOK, Active, rows
<1>6. ASSUME NEW c \in Cores, Crash(c) \/ Seal(c) \/ Shutdown(c) \/ Drained(c) PROVE PairStep
  BY <1>1, <1>6 DEF Crash, Seal, Shutdown, Drained
<1>7. ASSUME NEW t \in Tasks, ReserveAuto(t) PROVE PairStep
  <2>1. RunsStill
    BY <1>7, RowFacts, StillFacts DEF ReserveAuto
  <2> QED BY <1>2, <1>7, <2>1 DEF ReserveAuto
<1>8. ASSUME DisablePolicy PROVE PairStep
  <2>1. RunsStill
    BY <1>8, RowFacts, StillFacts DEF DisablePolicy, PolicyRuns, TerminalStatuses
  <2> QED BY <1>2, <1>8, <2>1 DEF DisablePolicy
<1>9. ASSUME NEW r \in RunIds, RunLeaseExpires(r) PROVE PairStep
  <2>1. RunsStill
    BY <1>9, RowFacts, StillFacts DEF RunLeaseExpires
  <2> QED BY <1>2, <1>9, <2>1 DEF RunLeaseExpires
<1>10. ASSUME UpdatePolicy \/ \E r \in RunIds : EffectLeaseExpires(r) PROVE PairStep
  BY <1>1, <1>10 DEF UpdatePolicy, EffectLeaseExpires
<1> QED BY <1>3, <1>4, <1>5, <1>6, <1>7, <1>8, <1>9, <1>10, RunnerPair DEF Next, CalmInv

\* A step of the pair keeps it together.
LEMMA TogetherKept ==
  ASSUME IInv, IInv', Together, PairStep
  PROVE  Together'
<1>0. \A q \in RunIds : run[q].task \in Tasks
  BY Tables DEF RunRow
<1>1. CASE RunsStill /\ TasksStill
  BY <1>0, <1>1 DEF Together, RunsStill, TasksStill
<1>2. ASSUME NEW r \in RunIds, PairEnters(r) PROVE Together'
  <2>1. \A q \in RunIds \ {r} : run'[q] = run[q]
    BY <1>2 DEF PairEnters, EnteredAt, OnlyRun
  <2>2. run'[r].status = "running" /\ run'[r].task = run[r].task
    BY <1>2 DEF PairEnters, EnteredAt, SameRun
  <2>3. \A q \in RunIds \ {r} : run[q].status = "running" => run[q].task # run[r].task
    BY <1>2 DEF PairEnters, Together
  <2>4. \A u \in Tasks \ {run[r].task} : task'[u] = task[u]
    BY <1>2 DEF PairEnters, OnlyTask
  <2>5. task'[run[r].task].status = "running"
    BY <1>2 DEF PairEnters
  <2>6. \A q \in RunIds : run'[q].status = "running" => task'[run'[q].task].status = "running"
    BY <1>0, <2>1, <2>2, <2>3, <2>4, <2>5 DEF Together
  <2>7. \A u \in Tasks : task'[u].status = "running" =>
           \E q \in RunIds : run'[q].task = u /\ run'[q].status = "running"
    BY <1>2, <2>1, <2>2, <2>4 DEF Together, PairEnters
  <2>8. \A q, x \in RunIds :
           run'[q].status = "running" /\ run'[x].status = "running" /\ run'[q].task = run'[x].task => q = x
    BY <2>1, <2>2, <2>3 DEF Together
  <2> QED BY <2>6, <2>7, <2>8 DEF Together
<1>3. ASSUME NEW r \in RunIds, PairLeaves(r) PROVE Together'
  <2>1. \A q \in RunIds \ {r} : run'[q] = run[q]
    BY <1>3 DEF PairLeaves, OnlyRun
  <2>2. run'[r].status # "running" /\ run[r].status = "running"
    BY <1>3 DEF PairLeaves
  <2>3. \A q \in RunIds \ {r} : run[q].status = "running" => run[q].task # run[r].task
    BY <2>2 DEF Together
  <2>4. \A u \in Tasks \ {run[r].task} : task'[u] = task[u]
    BY <1>3 DEF PairLeaves, OnlyTask
  <2>5. task'[run[r].task].status # "running"
    BY <1>3 DEF PairLeaves
  <2>6. \A q \in RunIds : run'[q].status = "running" => task'[run'[q].task].status = "running"
    BY <1>0, <2>1, <2>2, <2>3, <2>4 DEF Together
  <2>7. \A u \in Tasks : task'[u].status = "running" =>
           \E q \in RunIds : run'[q].task = u /\ run'[q].status = "running"
    BY <2>1, <2>4, <2>5 DEF Together
  <2>8. \A q, x \in RunIds :
           run'[q].status = "running" /\ run'[x].status = "running" /\ run'[q].task = run'[x].task => q = x
    BY <2>1, <2>2 DEF Together
  <2> QED BY <2>6, <2>7, <2>8 DEF Together
<1> QED BY <1>1, <1>2, <1>3 DEF PairStep

\* Only a runner that holds the lease takes its run into the execution.
LEMMA EnteredByOwner ==
  ASSUME Fenced, NEW q \in RunIds, run[q].status = "pending", Entered(q)
  PROVE  \E d \in Cores, t \in Tasks : /\ run[q].owner = d /\ worker[d][t].run = q
                                       /\ worker'[d][t].pc = "entered"
<1>1. PICK d \in Cores, t \in Tasks : EntryOpen(d, t) /\ worker[d][t].run = q /\ worker'[d][t].pc = "entered"
  BY DEF Entered
<1>2. run[q].owner = d
  BY <1>1 DEF Fenced, FencedAt, EntryOpen, At, HeldPcs, Active, ActiveStatuses
<1> QED BY <1>1, <1>2

\* A running run keeps having an owner.
LEMMA RunningOwnedKept ==
  ASSUME IInv, Fenced, RunningOwned, StepRows
  PROVE  RunningOwned'
<1> SUFFICES ASSUME NEW q \in RunIds, run'[q].status = "running" PROVE run'[q].owner # NoCore
  BY DEF RunningOwned
<1>1. RowMove(q)
  BY DEF StepRows
<1>2. CASE run[q].status = "pending" /\ Entered(q) /\ run'[q].owner = run[q].owner
  BY <1>2, EnteredByOwner, ConstantsAssumption
<1>3. CASE run[q].status = "running" /\ run'[q].owner = run[q].owner
  BY <1>3 DEF RunningOwned
<1>4. (\E d \in Cores : Claimed(d, q)) => run'[q].owner # NoCore
  BY ConstantsAssumption DEF Claimed
<1> QED BY <1>1, <1>2, <1>3, <1>4 DEF RowMove, Settled, TerminalStatuses

\* A runner that was refused or lost its claim never owns the run if it runs.
LEMMA NotMineKept ==
  ASSUME IInv, SlotInv, SlotInv', Fenced, PairInv, StepRows, StepSlots
  PROVE  NotMine'
<1> SUFFICES ASSUME NEW c \in Cores, NEW t \in Tasks, worker'[c][t].pc \in RefusalPcs,
                    run'[worker'[c][t].run].status = "running"
             PROVE  run'[worker'[c][t].run].owner # c
  BY DEF NotMine
<1> DEFINE w == worker[c][t]
           n == worker'[c][t]
           r == worker[c][t].run
<1>1. SlotMove(c, t)
  BY SlotMoves
<1>2. CASE n.pc = w.pc /\ n.run = w.run
  <2>1. r \in RunIds /\ run[r].task = t
    BY <1>2, RunnerFacts DEF RefusalPcs, SlotInv, RunnerInv, RunnerAt
  <2>2. RowMove(r)
    BY <2>1 DEF StepRows
  <2>3. run[r].status = "running" => run[r].owner # c
    BY <1>2 DEF PairInv, NotMine
  <2>4. ~Claimed(c, r)
    <3> SUFFICES ASSUME Claimed(c, r) PROVE FALSE
      OBVIOUS
    <3>1. CASE w.pc = "idle"
      BY <1>2, <3>1 DEF RefusalPcs
    <3>2. ASSUME NEW u \in Tasks, worker[c][u].run = r, worker[c][u].pc = "reserved" PROVE FALSE
      <4>1. u = t
        BY <2>1, <3>2 DEF SlotInv, RunnerInv, RunnerAt
      <4> QED BY <1>2, <3>2, <4>1 DEF RefusalPcs
    <3> QED BY <2>1, <3>1, <3>2 DEF Claimed
  <2>5. ASSUME run[r].status = "pending", Entered(r), run'[r].owner = run[r].owner
        PROVE  run'[r].owner # c
    <3>1. PICK d \in Cores, u \in Tasks : /\ run[r].owner = d /\ worker[d][u].run = r
                                          /\ worker'[d][u].pc = "entered"
      BY <2>1, <2>5, EnteredByOwner
    <3>2. u = t
      BY <2>1, <3>1 DEF SlotInv, RunnerInv, RunnerAt
    <3> QED BY <2>5, <3>1, <3>2 DEF RefusalPcs
  <2>6. ASSUME NEW d \in Cores, Claimed(d, r) PROVE run'[r].owner # c
    BY <2>4, <2>6 DEF Claimed
  <2> QED BY <1>2, <2>2, <2>3, <2>5, <2>6 DEF RowMove, Settled, TerminalStatuses
<1>3. CASE Advances(c, t)
  <2>1. r \in RunIds /\ n.run = r /\ run[r].task = t
    BY <1>3 DEF Advances, SlotInv, RunnerInv, RunnerAt
  <2>2. CASE n.pc = "rejected"
    BY <1>3, <2>1, <2>2 DEF Advances, Claimable, Owned, rows
  <2>3. CASE n.pc = "loaded"
    BY <1>3, <2>1, <2>3 DEF Advances, rows, PairInv, Together
  <2>4. CASE n.pc \in {"limited", "refused"}
    <3>1. w.pc = "loaded" /\ run' = run
      BY <1>3, <2>4 DEF Advances, rows
    <3> QED BY <2>1, <3>1 DEF PairInv, NotMine, RefusalPcs
  <2> QED BY <2>2, <2>3, <2>4 DEF RefusalPcs
<1>4. ~(n = Idle) /\ ~Admits(c, t) /\ \A q \in RunIds : ~Takes(c, t, q)
  <2>1. n.pc \notin {"idle", "admitted", "reserved"}
    BY DEF RefusalPcs
  <2>2. Idle.pc = "idle"
    BY DEF Idle
  <2> QED BY <2>1, <2>2 DEF Admits, Takes
<1> QED BY <1>1, <1>2, <1>3, <1>4 DEF SlotMove, Leaves, FreedAt, Signals, Carries

\* The pair's invariant holds where leases fence and nobody cancels or pauses.
LEMMA PairInductive ==
  "skew" \notin Faults /\ "cancel" \notin Faults /\ "pause" \notin Faults => (Spec => []PairInv)
<1> SUFFICES ASSUME "skew" \notin Faults, "cancel" \notin Faults, "pause" \notin Faults
             PROVE  Spec => []PairInv
  OBVIOUS
<1>1. Init => PairInv
  <2>1. ASSUME Init, NEW r \in RunIds PROVE run[r].status = "none"
    BY <2>1 DEF Init, NoRun
  <2>2. ASSUME Init, NEW t \in Tasks PROVE task[t].status = "pending"
    BY <2>2 DEF Init
  <2>3. ASSUME Init, NEW c \in Cores, NEW t \in Tasks PROVE worker[c][t].pc = "idle"
    BY <2>3 DEF Init, Idle
  <2> QED BY <2>1, <2>2, <2>3 DEF PairInv, Together, RunningOwned, NotMine, RefusalPcs
<1>2. IInv /\ IInv' /\ SlotInv /\ SlotInv' /\ CalmInv /\ Fenced /\ PairInv /\ [Next]_vars => PairInv'
  <2>1. ASSUME IInv, IInv', SlotInv, SlotInv', CalmInv, Fenced, PairInv, Next PROVE PairInv'
    <3>1. StepRows /\ StepSlots /\ PairStep
      BY <2>1, NextRows, NextSlots, NextPair
    <3> QED BY <2>1, <3>1, TogetherKept, RunningOwnedKept, NotMineKept DEF PairInv
  <2>2. ASSUME PairInv, UNCHANGED vars PROVE PairInv'
    BY <2>2 DEF PairInv, Together, RunningOwned, NotMine, vars
  <2> QED BY <2>1, <2>2
<1>3. Spec => []Fenced
  BY FenceInductive
<1> QED BY <1>1, <1>2, <1>3, Inductive, SlotsInductive, CalmInductive, PTL DEF Spec

\* A Task says "running" exactly when one of its runs is, whatever crashes, stops,
\* lost renewals, deadlines, refusals, takeovers and automation runs come between:
\* every transaction moves the pair as one, and no late runner closes a run behind its
\* Task.  It needs a lease that fences; Cancel and Pause write the Task alone.
THEOREM TaskAndRunAgree ==
  "skew" \notin Faults /\ "cancel" \notin Faults /\ "pause" \notin Faults => (Spec => []RunningAgrees)
<1> SUFFICES ASSUME "skew" \notin Faults, "cancel" \notin Faults, "pause" \notin Faults
             PROVE  Spec => []RunningAgrees
  OBVIOUS
<1>1. PairInv => RunningAgrees
  <2> SUFFICES ASSUME PairInv, NEW t \in Tasks
               PROVE  Cardinality(RunningRuns(t)) = IF task[t].status = "running" THEN 1 ELSE 0
    BY DEF RunningAgrees
  <2>1. CASE task[t].status = "running"
    <3>1. PICK r \in RunIds : run[r].task = t /\ run[r].status = "running"
      BY <2>1 DEF PairInv, Together
    <3>2. RunningRuns(t) = {r}
      BY <3>1 DEF RunningRuns, RunsOf, PairInv, Together
    <3> QED BY <2>1, <3>2, FS_Singleton
  <2>2. CASE task[t].status # "running"
    <3>1. RunningRuns(t) = {}
      BY <2>2 DEF RunningRuns, RunsOf, PairInv, Together
    <3> QED BY <2>2, <3>1, FS_EmptySet
  <2> QED BY <2>1, <2>2
<1>2. Spec => []PairInv
  BY PairInductive
<1> QED BY <1>1, <1>2, PTL

-----------------------------------------------------------------------------
(* One core in the provider. *)

\* A runner past its entry has its run running, in its own name, until somebody
\* tells it to stop, which takes one of these faults, or a Cancel.
Undisturbed == "renewError" \notin Faults /\ "shutdown" \notin Faults /\ "deadline" \notin Faults
InsidePcs == {"entered", "provider", "settle"}
Inside ==
    \A c \in Cores, t \in Tasks :
       worker[c][t].pc \in InsidePcs =>
          /\ ~worker[c][t].canceled => /\ run[worker[c][t].run].status = "running"
                                       /\ run[worker[c][t].run].owner = c
          /\ Undisturbed => ~worker[c][t].canceled

\* A runner past its entry keeps the running run it entered, in its own name.
LEMMA InsideKept ==
  ASSUME "cancel" \notin Faults, IInv, SlotInv, CalmInv, Fenced, Inside, StepRows, StepSlots
  PROVE  Inside'
<1> SUFFICES ASSUME NEW c \in Cores, NEW t \in Tasks, worker'[c][t].pc \in InsidePcs
             PROVE  /\ ~worker'[c][t].canceled => /\ run'[worker'[c][t].run].status = "running"
                                                  /\ run'[worker'[c][t].run].owner = c
                    /\ Undisturbed => ~worker'[c][t].canceled
  BY DEF Inside
<1> DEFINE w == worker[c][t]
           n == worker'[c][t]
           r == worker[c][t].run
<1>1. SlotMove(c, t)
  BY SlotMoves
<1>2. ~Canceling /\ (Undisturbed => core[c] # "sealed")
  BY DEF Canceling, CalmInv, ApiCalm, CoreCalm, Undisturbed
<1>0. ASSUME n.pc = w.pc, n.run = w.run, n = w \/ Signals(c, t), Undisturbed PROVE ~n.canceled
  <2>1. ~w.canceled /\ w.pc \in InsidePcs /\ run[r].status = "running" /\ run[r].owner = c
    BY <1>0 DEF Inside
  <2> QED BY <1>0, <1>2, <2>1 DEF Signals, Undisturbed, Active, ActiveStatuses
<1>3. CASE n.pc = w.pc /\ n.run = w.run /\ (n = w \/ Signals(c, t)) /\ ~n.canceled
  <2>1. r \in RunIds /\ run[r].task = t
    BY <1>3, RunnerFacts DEF InsidePcs, SlotInv, RunnerInv, RunnerAt
  <2>2. run[r].status = "running" /\ run[r].owner = c /\ ~w.canceled /\ Active(r)
    BY <1>3 DEF Inside, Active, ActiveStatuses, Signals
  <2>3. run[r].lease
    BY <1>3, <2>2 DEF Fenced, FencedAt, HeldPcs, InsidePcs
  <2>5. ASSUME NEW d \in Cores, Claimable(d, r) PROVE d = c
    BY <2>2, <2>3, <2>5, ConstantsAssumption DEF Claimable, Owned
  <2>6. ~Settled(r)
    <3> SUFFICES ASSUME Settled(r) PROVE FALSE
      OBVIOUS
    <3>1. LetsGo(c, r)
      BY <2>2, <2>5 DEF Settled
    <3>2. CASE sweep[c].run = r
      BY <2>1, <3>2 DEF CalmInv, SweepApart
    <3>3. ASSUME NEW u \in Tasks, worker[c][u].run = r, worker'[c][u] = Idle PROVE FALSE
      <4>1. u = t
        BY <2>1, <3>3 DEF SlotInv, RunnerInv, RunnerAt
      <4> QED BY <3>3, <4>1 DEF Idle, InsidePcs
    <3> QED BY <1>2, <3>1, <3>2, <3>3 DEF LetsGo
  <2>7. RowMove(r)
    BY <2>1 DEF StepRows
  <2>8. (\E d \in Cores : Claimed(d, r)) => run'[r].owner = c
    BY <2>5 DEF Claimed
  <2> QED BY <1>3, <2>2, <2>6, <2>7, <2>8 DEF RowMove
<1>4. CASE Advances(c, t)
  <2>1. r \in RunIds /\ n.run = r /\ n.canceled = w.canceled
    BY <1>4 DEF Advances, Unsignaled
  <2>2. CASE n.pc = "entered"
    <3>1. w.pc = "loaded" /\ ~w.canceled /\ run[r].status = "pending" /\ EnteredAt(r)
      BY <1>4, <2>2 DEF Advances
    <3>2. run[r].owner = c
      BY <3>1 DEF Fenced, FencedAt, HeldPcs, Active, ActiveStatuses
    <3> QED BY <2>1, <3>1, <3>2 DEF EnteredAt
  <2>3. CASE n.pc \in {"provider", "settle"}
    <3>1. w.pc \in {"entered", "provider"} /\ run' = run
      BY <1>4, <2>3 DEF Advances, rows
    <3> QED BY <2>1, <3>1 DEF Inside, InsidePcs
  <2> QED BY <2>2, <2>3 DEF InsidePcs
<1>5. ~(n = Idle) /\ ~Admits(c, t) /\ \A q \in RunIds : ~Takes(c, t, q)
  <2>1. n.pc \notin {"idle", "admitted", "reserved"}
    BY DEF InsidePcs
  <2>2. Idle.pc = "idle"
    BY DEF Idle
  <2> QED BY <2>1, <2>2 DEF Admits, Takes
<1> QED BY <1>0, <1>1, <1>3, <1>4, <1>5 DEF SlotMove, Leaves, FreedAt, Signals, Carries

\* A runner that was not told to stop is the one its Task's running run belongs to.
LEMMA InsideInductive ==
  "skew" \notin Faults /\ "cancel" \notin Faults => (Spec => []Inside)
<1> SUFFICES ASSUME "skew" \notin Faults, "cancel" \notin Faults PROVE Spec => []Inside
  OBVIOUS
<1>1. Init => Inside
  BY DEF Init, Inside, InsidePcs, Idle
<1>2. IInv /\ SlotInv /\ CalmInv /\ Fenced /\ Inside /\ [Next]_vars => Inside'
  <2>1. ASSUME IInv, SlotInv, CalmInv, Fenced, Inside, Next PROVE Inside'
    BY <2>1, NextRows, NextSlots, InsideKept
  <2>2. ASSUME Inside, UNCHANGED vars PROVE Inside'
    BY <2>2 DEF Inside, vars
  <2> QED BY <2>1, <2>2
<1>3. Spec => []Fenced
  BY FenceInductive
<1> QED BY <1>1, <1>2, <1>3, Inductive, SlotsInductive, CalmInductive, PTL DEF Spec

\* A Task has one running run: without automation by OneActive, without Pause by
\* RunningAgrees.
OneRunning ==
    \A r, q \in RunIds :
       run[r].status = "running" /\ run[q].status = "running" /\ run[r].task = run[q].task => r = q
LEMMA OneRunningInductive ==
  "skew" \notin Faults /\ "cancel" \notin Faults /\ ("auto" \notin Faults \/ "pause" \notin Faults)
  => (Spec => []OneRunning)
<1> SUFFICES ASSUME "skew" \notin Faults, "cancel" \notin Faults, "auto" \notin Faults \/ "pause" \notin Faults
             PROVE  Spec => []OneRunning
  OBVIOUS
<1>1. CASE "auto" \notin Faults
  <2>1. IInv => OneRunning
    BY <1>1 DEF IInv, OneActive, Active, ActiveStatuses, OneRunning
  <2> QED BY <2>1, Inductive, PTL
<1>2. CASE "pause" \notin Faults
  <2>1. PairInv => OneRunning
    BY DEF PairInv, Together, OneRunning
  <2>2. Spec => []PairInv
    BY <1>2, PairInductive
  <2> QED BY <2>1, <2>2, PTL
<1> QED BY <1>1, <1>2

\* Two cores are inside the provider for a Task only while one of them winds down
\* after it was told to stop: by its deadline, by an orderly stop, by a renewal that
\* failed.  Cancel is left out, which settles the run before its provider returns,
\* and a clock that breaks the lease.
THEOREM LiveProviderIsOne ==
  "skew" \notin Faults /\ "cancel" \notin Faults /\ ("auto" \notin Faults \/ "pause" \notin Faults)
  => (Spec => []OneLiveProvider)
<1> SUFFICES ASSUME "skew" \notin Faults, "cancel" \notin Faults, "auto" \notin Faults \/ "pause" \notin Faults
             PROVE  Spec => []OneLiveProvider
  OBVIOUS
<1>1. ASSUME IInv, SlotInv, Inside, OneRunning PROVE OneLiveProvider
  <2> SUFFICES ASSUME NEW c \in Cores, NEW d \in Cores, NEW t \in Tasks,
                      worker[c][t].pc = "provider", worker[d][t].pc = "provider",
                      ~worker[c][t].canceled, ~worker[d][t].canceled
               PROVE  c = d
    BY DEF OneLiveProvider
  <2>1. \A e \in {c, d} : /\ worker[e][t].run \in RunIds /\ run[worker[e][t].run].task = t
                          /\ run[worker[e][t].run].status = "running"
                          /\ run[worker[e][t].run].owner = e
    BY <1>1, RunnerFacts DEF Inside, InsidePcs, SlotInv, RunnerInv, RunnerAt
  <2>2. worker[c][t].run = worker[d][t].run
    BY <1>1, <2>1 DEF OneRunning
  <2> QED BY <2>1, <2>2
<1>2. (Spec => []Inside) /\ (Spec => []OneRunning)
  BY InsideInductive, OneRunningInductive
<1> QED BY <1>1, <1>2, Inductive, SlotsInductive, PTL

\* At most one core executes a Task, through crashes, takeovers, refusals and
\* retries, as long as nothing makes a core let go of its lease while its
\* provider still runs: a slow process, an orderly stop, a failed renewal, a
\* Cancel, or an execution that runs into its deadline.
THEOREM ProviderIsExclusive ==
  /\ "skew" \notin Faults /\ "shutdown" \notin Faults /\ "renewError" \notin Faults
  /\ "cancel" \notin Faults /\ "deadline" \notin Faults
  /\ ("auto" \notin Faults \/ "pause" \notin Faults)
  => (Spec => []ProviderExclusive)
<1> SUFFICES ASSUME "skew" \notin Faults, "shutdown" \notin Faults, "renewError" \notin Faults,
                    "cancel" \notin Faults, "deadline" \notin Faults,
                    "auto" \notin Faults \/ "pause" \notin Faults
             PROVE  Spec => []ProviderExclusive
  OBVIOUS
<1>1. Inside /\ OneLiveProvider => ProviderExclusive
  BY DEF Inside, InsidePcs, Undisturbed, OneLiveProvider, ProviderExclusive
<1>2. (Spec => []Inside) /\ (Spec => []OneLiveProvider)
  BY InsideInductive, LiveProviderIsOne
<1> QED BY <1>1, <1>2, PTL
=============================================================================
