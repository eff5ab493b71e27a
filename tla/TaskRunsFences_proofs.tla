------------------------ MODULE TaskRunsFences_proofs ------------------------
(***************************************************************************)
(* What one step does, field by field, and what follows for the leases,    *)
(* the quota, the strategy lock and the orderly stop.  Everything here     *)
(* holds for any cores, tasks, bounds and faults.                          *)
(*                                                                         *)
(* The first half turns every action into facts about single rows and      *)
(* slots (RowMove, Only, FreedAt, MovedAt, ...); the second half reasons   *)
(* from those facts alone.                                                 *)
(***************************************************************************)
EXTENDS TaskRuns_proofs, FiniteSetTheorems

-----------------------------------------------------------------------------
(* The vocabulary: how a slot, a run and a Task may change. *)

Only(c, t) ==
    /\ \A d \in Cores \ {c} : worker'[d] = worker[d]
    /\ \A u \in Tasks \ {t} : worker'[c][u] = worker[c][u]
FreedAt(c, t) == worker'[c][t] = Idle /\ Only(c, t)

\* The slot keeps its run and what it read; pc and the flags are stated apart.
Carries(c, t) ==
    /\ worker'[c][t].run = worker[c][t].run
    /\ worker'[c][t].seen = worker[c][t].seen
    /\ worker'[c][t].tries = worker[c][t].tries
    /\ worker'[c][t].outcome = worker[c][t].outcome
Unsignaled(c, t) ==
    /\ worker'[c][t].canceled = worker[c][t].canceled
    /\ worker'[c][t].kind = worker[c][t].kind
    /\ worker'[c][t].barred = worker[c][t].barred
MovedAt(c, t, pc) ==
    worker'[c][t].pc = pc /\ Carries(c, t) /\ Unsignaled(c, t) /\ Only(c, t)

\* A run keeps its identity.
SameRun(q) ==
    /\ run'[q].task = run[q].task
    /\ run'[q].trigger = run[q].trigger
    /\ run'[q].pred = run[q].pred
OnlyRun(r) == \A q \in RunIds \ {r} : run'[q] = run[q]

ClosedAt(R, s) ==
    \A q \in RunIds :
       /\ q \in R => SameRun(q) /\ run'[q].status = s /\ run'[q].owner = NoCore /\ ~run'[q].lease
       /\ q \notin R => run'[q] = run[q]
OwnedAt(r, o, b) ==
    /\ SameRun(r) /\ run'[r].status = run[r].status
    /\ run'[r].owner = o /\ run'[r].lease = b
    /\ OnlyRun(r)
InsertedAt(r, t, trigger, pred, b) ==
    /\ run'[r].status = "pending" /\ run'[r].task = t /\ run'[r].trigger = trigger
    /\ run'[r].pred = pred /\ run'[r].owner = NoCore /\ run'[r].lease = b
    /\ OnlyRun(r)
EnteredAt(r) ==
    /\ SameRun(r) /\ run'[r].status = "running"
    /\ run'[r].owner = run[r].owner /\ run'[r].lease = run[r].lease
    /\ OnlyRun(r)

OnlyTask(t) == \A u \in Tasks \ {t} : task'[u] = task[u]
TaskAt(t, s, n) == task'[t].status = s /\ task'[t].retries = n /\ OnlyTask(t)

\* The tables and the slots are functions.
LEMMA Tables ==
  ASSUME IInv
  PROVE  /\ task \in [Tasks -> TaskRow] /\ run \in [RunIds -> RunRow]
         /\ worker \in [Cores -> [Tasks -> Runner]]
         /\ sweep \in [Cores -> Claim] /\ core \in [Cores -> {"up", "sealed", "draining", "down"}]
         /\ api \in [Cores -> [Tasks -> Request]]
  BY DEF IInv, TypeOK

\* What the shared updates of a slot do.
LEMMA SlotFacts ==
  ASSUME IInv, NEW c \in Cores, NEW t \in Tasks
  PROVE  /\ worker' = Freed(c, t) => FreedAt(c, t)
         /\ \A pc : worker' = Moved(c, t, pc) => MovedAt(c, t, pc)
         /\ \A w : worker' = [worker EXCEPT ![c][t] = w] => worker'[c][t] = w /\ Only(c, t)
         /\ worker' = worker => Only(c, t) /\ worker'[c][t] = worker[c][t]
<1>1. worker \in [Cores -> [Tasks -> Runner]]
  BY Tables
<1>2. ASSUME NEW w, worker' = [worker EXCEPT ![c][t] = w]
      PROVE  worker'[c][t] = w /\ Only(c, t)
  BY <1>1, <1>2 DEF Only
<1>3. worker' = Freed(c, t) => FreedAt(c, t)
  BY <1>2 DEF Freed, FreedAt
<1>4. ASSUME NEW pc, worker' = Moved(c, t, pc) PROVE MovedAt(c, t, pc)
  <2> DEFINE w == [worker[c][t] EXCEPT !.pc = pc]
  <2>1. worker' = [worker EXCEPT ![c][t] = w]
    BY <1>1, <1>4 DEF Moved
  <2>2. worker[c][t] \in Runner
    BY <1>1
  <2>3. /\ w.pc = pc /\ w.run = worker[c][t].run /\ w.seen = worker[c][t].seen
        /\ w.tries = worker[c][t].tries /\ w.outcome = worker[c][t].outcome
        /\ w.canceled = worker[c][t].canceled /\ w.kind = worker[c][t].kind
        /\ w.barred = worker[c][t].barred
    BY <2>2 DEF Runner
  <2> HIDE DEF w
  <2>4. worker'[c][t] = w /\ Only(c, t)
    BY <1>2, <2>1
  <2> QED BY <2>3, <2>4 DEF MovedAt, Carries, Unsignaled
<1> QED BY <1>2, <1>3, <1>4 DEF Only

\* What the shared updates of task_runs do.
LEMMA RowFacts ==
  ASSUME IInv
  PROVE  /\ \A R, s : run' = Closed(R, s) => ClosedAt(R, s)
         /\ \A r \in RunIds : \A o, b : run' = WithOwner(r, o, b) => OwnedAt(r, o, b)
         /\ \A r \in RunIds : \A t, g, p, b : run' = Insert(r, t, g, p, b) => InsertedAt(r, t, g, p, b)
         /\ \A r \in RunIds : run' = [run EXCEPT ![r].status = "running"] => EnteredAt(r)
         /\ \A r \in RunIds : run' = [run EXCEPT ![r].lease = FALSE] => OwnedAt(r, run[r].owner, FALSE)
<1>1. run \in [RunIds -> RunRow]
  BY Tables
<1>2. ASSUME NEW R, NEW s, run' = Closed(R, s) PROVE ClosedAt(R, s)
  BY <1>1, <1>2 DEF Closed, ClosedAt, SameRun, RunRow
<1>3. ASSUME NEW r \in RunIds, NEW o, NEW b, run' = WithOwner(r, o, b) PROVE OwnedAt(r, o, b)
  BY <1>1, <1>3 DEF WithOwner, OwnedAt, SameRun, OnlyRun, RunRow
<1>4. ASSUME NEW r \in RunIds, NEW t, NEW g, NEW p, NEW b, run' = Insert(r, t, g, p, b)
      PROVE  InsertedAt(r, t, g, p, b)
  BY <1>1, <1>4 DEF Insert, InsertedAt, OnlyRun
<1>5. ASSUME NEW r \in RunIds, run' = [run EXCEPT ![r].status = "running"] PROVE EnteredAt(r)
  BY <1>1, <1>5 DEF EnteredAt, SameRun, OnlyRun, RunRow
<1>6. ASSUME NEW r \in RunIds, run' = [run EXCEPT ![r].lease = FALSE]
      PROVE  OwnedAt(r, run[r].owner, FALSE)
  BY <1>1, <1>6 DEF OwnedAt, SameRun, OnlyRun, RunRow
<1> QED BY <1>2, <1>3, <1>4, <1>5, <1>6

\* What the shared updates of tasks do.
LEMMA TaskFacts ==
  ASSUME IInv, NEW t \in Tasks
  PROVE  /\ \A s : task' = WithStatus(t, s) => TaskAt(t, s, task[t].retries)
         /\ \A s, n : task' = [task EXCEPT ![t].status = s, ![t].retries = n] => TaskAt(t, s, n)
         /\ task' = task => TaskAt(t, task[t].status, task[t].retries)
<1>1. task \in [Tasks -> TaskRow]
  BY Tables
<1>2. ASSUME NEW s, task' = WithStatus(t, s) PROVE TaskAt(t, s, task[t].retries)
  BY <1>1, <1>2 DEF WithStatus, TaskAt, OnlyTask, TaskRow
<1>3. ASSUME NEW s, NEW n, task' = [task EXCEPT ![t].status = s, ![t].retries = n]
      PROVE  TaskAt(t, s, n)
  BY <1>1, <1>3 DEF TaskAt, OnlyTask, TaskRow
<1> QED BY <1>2, <1>3 DEF TaskAt, OnlyTask

-----------------------------------------------------------------------------
(* What a step may do to a run. *)

\* A cancellation is under way, or may begin.
Canceling == "cancel" \in Faults \/ \E d \in Cores, t \in Tasks : api[d][t].pc \in CancelPcs

\* Core d lets go of the run: its runner leaves, its sweep has it, a Cancel takes it.
LetsGo(d, q) ==
    \/ \E t \in Tasks : worker[d][t].run = q /\ worker'[d][t] = Idle
    \/ sweep[d].run = q
    \/ Canceling

Settled(q) ==
    /\ run'[q].status \in TerminalStatuses
    /\ run'[q].owner = NoCore
    /\ run[q].status = "running" => \E d \in Cores : Claimable(d, q) /\ LetsGo(d, q)
Claimed(d, q) ==
    /\ Claimable(d, q) /\ run'[q].owner = d /\ run'[q].lease
    /\ \/ \E t \in Tasks : /\ worker[d][t].run = q /\ worker[d][t].pc = "reserved"
                           /\ worker'[d][t].run = q /\ worker'[d][t].pc = "claimed"
       \/ ~Durable(q) /\ worker[d][run[q].task].pc = "idle" /\ worker' = worker
Returned(q) ==
    \E d \in Cores, t \in Tasks :
       /\ Claimable(d, q) /\ worker[d][t].run = q /\ worker[d][t].kind = "shutdown"
       /\ worker'[d][t] = Idle
Entered(q) ==
    \E d \in Cores, t \in Tasks : EntryOpen(d, t) /\ worker[d][t].run = q /\ worker'[d][t].pc = "entered"
RowMove(q) ==
    \/ run'[q] = run[q]
    \/ run[q].status = "none" /\ run'[q].status = "pending" /\ run'[q].owner = NoCore
    \/ /\ SameRun(q) /\ Active(q)
       /\ \/ /\ run'[q].status = run[q].status /\ run'[q].owner = run[q].owner
             /\ run[q].lease /\ ~run'[q].lease => "skew" \in Faults \/ ~LeaseKept(q)
          \/ run'[q].status = run[q].status /\ \E d \in Cores : Claimed(d, q)
          \/ /\ run[q].status = "pending" /\ run'[q].status = "pending"
             /\ run'[q].owner = NoCore /\ Returned(q)
          \/ /\ run[q].status = "pending" /\ run'[q].status = "running" /\ Entered(q)
             /\ run'[q].owner = run[q].owner /\ run'[q].lease = run[q].lease
             /\ AdmitSlot(q) /\ OnlyRun(q) /\ policy' = policy
          \/ Settled(q)
StepRows == \A q \in RunIds : RowMove(q)

\* The running runs that a step of core d settles are d's to claim.
FencedBy(d) ==
    \A q \in RunIds : run[q].status = "running" /\ run'[q].status # "running" => Claimable(d, q)
RowsBy(d) == StepRows /\ FencedBy(d)

\* The updates that move rows in this way.
LEMMA RowsUnmoved ==
  ASSUME NEW c, run' = run
  PROVE  RowsBy(c)
  BY DEF RowsBy, StepRows, RowMove, FencedBy

\* Queued runs may be closed by anybody.
LEMMA PendingClosed ==
  ASSUME NEW c, NEW R, \A q \in RunIds \cap R : run[q].status = "pending", NEW s \in TerminalStatuses,
         ClosedAt(R, s)
  PROVE  RowsBy(c)
  BY DEF ClosedAt, RowsBy, StepRows, RowMove, FencedBy, Settled, Active, ActiveStatuses

\* A core closes active runs that it may claim and lets go of.
LEMMA OwnClosed ==
  ASSUME NEW R, NEW c \in Cores,
         \A q \in RunIds \cap R : Active(q) /\ Claimable(c, q) /\ LetsGo(c, q),
         NEW s \in TerminalStatuses, ClosedAt(R, s)
  PROVE  RowsBy(c)
  BY DEF ClosedAt, RowsBy, StepRows, RowMove, FencedBy, Settled

\* A row comes into being, in nobody's name.
LEMMA Inserted ==
  ASSUME NEW c, NEW r \in RunIds, Fresh(r), NEW t, NEW g, NEW p, NEW b, InsertedAt(r, t, g, p, b)
  PROVE  RowsBy(c)
  BY DEF InsertedAt, OnlyRun, RowsBy, StepRows, RowMove, FencedBy, Fresh

\* The lease of an active run is renewed, lapses, is claimed or is handed back.
LEMMA Reowned ==
  ASSUME NEW c, NEW r \in RunIds, Active(r), NEW o, NEW b, OwnedAt(r, o, b),
         \/ o = run[r].owner /\ (b \/ "skew" \in Faults \/ ~LeaseKept(r))
         \/ o \in Cores /\ Claimed(o, r)
         \/ o = NoCore /\ run[r].status = "pending" /\ Returned(r)
  PROVE  RowsBy(c)
  BY DEF OwnedAt, OnlyRun, RowsBy, StepRows, RowMove, FencedBy

\* The transactions that move rows in this way.
LEMMA TerminalizeRows ==
  ASSUME IInv, NEW c \in Cores, NEW r \in RunIds, LetsGo(c, r), NEW expected \in SUBSET ActiveStatuses,
         NEW owners \in SUBSET {NoCore, c}, NEW target, NEW n, NEW to \in TerminalStatuses,
         TerminalOK(owners, r, expected, target), Terminalize(r, target, n, to)
  PROVE  RowsBy(c)
<1>1. ClosedAt({r}, to)
  BY RowFacts DEF Terminalize
<1>2. Active(r) /\ Claimable(c, r)
  BY DEF TerminalOK, Active, Claimable, Owned
<1> QED BY <1>1, <1>2, OwnClosed

\* Reject, by a core that may reject the run.
LEMMA RejectRows ==
  ASSUME IInv, NEW c \in Cores, NEW r \in RunIds, LetsGo(c, r), CanReject(c, r),
         Reject(r)
  PROVE  RowsBy(c)
<1>1. ClosedAt({r}, "failed")
  BY RowFacts DEF Reject
<1> QED BY <1>1, OwnClosed DEF CanReject, Claimable, TerminalStatuses

\* Conclude: the runner settles its run, or leaves the row alone.
LEMMA ConcludeRows ==
  ASSUME IInv, NEW c \in Cores, NEW t \in Tasks, worker[c][t].run \in RunIds,
         NEW expected \in SUBSET ActiveStatuses,
         NEW owners \in SUBSET {NoCore, c}, NEW target, NEW n, NEW to \in TerminalStatuses,
         Conclude(c, t, owners, expected, target, n, to)
  PROVE  RowsBy(c)
<1>1. worker' = Freed(c, t) => LetsGo(c, worker[c][t].run)
  BY SlotFacts DEF FreedAt, LetsGo
<1> QED BY <1>1, TerminalizeRows, RowsUnmoved DEF Conclude, rows

\* GiveUp: the runner closes its queued run, hands it back, or leaves it alone.
LEMMA GiveUpRows ==
  ASSUME IInv, NEW c \in Cores, NEW t \in Tasks, worker[c][t].run \in RunIds, NEW onError,
         GiveUp(c, t, onError)
  PROVE  RowsBy(c)
<1> DEFINE r == worker[c][t].run
<1>1. CASE run' = run
  BY <1>1, RowsUnmoved
<1>2. CASE /\ run' = WithOwner(r, NoCore, FALSE) /\ run[r].status = "pending"
           /\ Claimable(c, r) /\ worker' = Freed(c, t) /\ worker[c][t].kind = "shutdown"
  <2>1. OwnedAt(r, NoCore, FALSE) /\ Active(r) /\ Returned(r)
    BY <1>2, RowFacts, SlotFacts DEF Active, ActiveStatuses, Returned, FreedAt
  <2> QED BY <1>2, <2>1, Reowned
<1>3. CASE run' = Closed({r}, "canceled") /\ run[r].status = "pending"
  <2>1. ClosedAt({r}, "canceled")
    BY <1>3, RowFacts
  <2> QED BY <1>3, <2>1, PendingClosed DEF TerminalStatuses
<1> QED BY <1>1, <1>2, <1>3 DEF GiveUp, GivenUp

\* CancelOrphans, once no live lease of another core is in the way.
LEMMA CancelOrphansRows ==
  ASSUME IInv, NEW c \in Cores, NEW t \in Tasks, Canceling, OrphanOK(c, t),
         CancelOrphans(t)
  PROVE  RowsBy(c)
<1> DEFINE R == {r \in RunsOf(t) : Active(r)}
<1>1. ClosedAt(R, "canceled")
  BY RowFacts DEF CancelOrphans
<1>2. \A q \in RunIds \cap R : Active(q) /\ Claimable(c, q) /\ LetsGo(c, q)
  BY DEF OrphanOK, OrphanFenced, LetsGo
<1> QED BY <1>1, <1>2, OwnClosed DEF TerminalStatuses

\* Every step of a runner.
LEMMA RunnerRows ==
  ASSUME IInv, NEW c \in Cores, NEW t \in Tasks,
         RunnerStep(c, t) \/ Heartbeat(c, t) \/ DeadlinePasses(c, t)
  PROVE  RowsBy(c)
<1> DEFINE w == worker[c][t]
<1>1. w.pc \notin {"idle", "admitted"} => w.run \in RunIds
  BY RunnerFacts
<1>2. ASSUME DeadlinePasses(c, t) PROVE RowsBy(c)
  BY <1>2, RowsUnmoved DEF DeadlinePasses
<1>3. ASSUME Reserve(c, t) PROVE RowsBy(c)
  <2>1. CASE run' = run
    BY <2>1, RowsUnmoved
  <2>2. CASE run' # run
    <3>1. PICK q \in RunIds : Fresh(q) /\ run' = Insert(q, t, "manual", 0, TRUE)
      BY <1>3, <2>2 DEF Reserve
    <3>2. InsertedAt(q, t, "manual", 0, TRUE)
      BY <3>1, RowFacts
    <3> QED BY <3>1, <3>2, Inserted
  <2> QED BY <2>1, <2>2
<1>4. ASSUME Launch(c, t) PROVE RowsBy(c)
  <2>1. w.run \in RunIds
    BY <1>1, <1>4 DEF Launch, At
  <2>2. CASE /\ run[w.run].status \in {"pending", "running"} /\ Claimable(c, w.run)
             /\ run' = WithOwner(w.run, c, TRUE) /\ worker' = Moved(c, t, "claimed")
    <3>1. OwnedAt(w.run, c, TRUE) /\ Active(w.run)
      BY <2>1, <2>2, RowFacts DEF Active, ActiveStatuses
    <3>2. MovedAt(c, t, "claimed")
      BY <2>2, SlotFacts
    <3>3. Claimed(c, w.run)
      BY <1>4, <2>2, <3>1, <3>2 DEF Launch, At, Claimed, OwnedAt, MovedAt, Carries
    <3> QED BY <2>1, <3>1, <3>3, Reowned
  <2>3. CASE run' = run
    BY <2>3, RowsUnmoved
  <2>4. CASE GiveUp(c, t, Freed(c, t))
    BY <2>1, <2>4, GiveUpRows
  <2> QED BY <1>4, <2>2, <2>3, <2>4 DEF Launch, rows
<1>5. ASSUME FailUnclaimed(c, t) \/ FailRefused(c, t) PROVE RowsBy(c)
  <2>1. w.run \in RunIds
    BY <1>1, <1>5 DEF FailUnclaimed, FailRefused, At
  <2>2. worker' = Freed(c, t) => LetsGo(c, w.run)
    BY SlotFacts DEF FreedAt, LetsGo
  <2> QED BY <1>5, <2>1, <2>2, RejectRows, RowsUnmoved DEF FailUnclaimed, FailRefused, rows
<1>6. ASSUME Abort(c, t) PROVE RowsBy(c)
  BY <1>1, <1>6, GiveUpRows DEF Abort, At
<1>7. ASSUME NodeRefuses(c, t) PROVE RowsBy(c)
  <2>1. w.run \in RunIds
    BY <1>1, <1>7 DEF NodeRefuses, MayLoad, At
  <2>2. {"pending"} \in SUBSET ActiveStatuses /\ "canceled" \in TerminalStatuses
    BY DEF ActiveStatuses, TerminalStatuses
  <2> QED BY <1>7, <2>1, <2>2, ConcludeRows DEF NodeRefuses
<1>8. ASSUME Load(c, t) \/ EnterRefused(c, t) \/ BeginProvider(c, t) \/ ProviderReturns(c, t)
      PROVE  RowsBy(c)
  BY <1>8, RowsUnmoved DEF Load, EnterRefused, BeginProvider, ProviderReturns
<1>9. ASSUME Enter(c, t) PROVE RowsBy(c)
  <2>1. w.run \in RunIds
    BY <1>1, <1>9 DEF Enter, EntryOpen, At
  <2>2. EnteredAt(w.run)
    BY <1>9, <2>1, RowFacts DEF Enter
  <2>3. worker'[c][t].pc = "entered"
    BY <1>9, Tables DEF Enter, Runner
  <2>4. Entered(w.run) /\ AdmitSlot(w.run) /\ policy' = policy /\ run[w.run].status = "pending"
    BY <1>9, <2>3 DEF Enter, Entered
  <2>5. RowMove(w.run)
    BY <2>2, <2>4 DEF EnteredAt, OnlyRun, RowMove, Active, ActiveStatuses
  <2> QED BY <2>2, <2>4, <2>5 DEF EnteredAt, OnlyRun, RowsBy, StepRows, RowMove, FencedBy
<1>10. ASSUME EnterPaused(c, t) PROVE RowsBy(c)
  <2>1. w.run \in RunIds
    BY <1>1, <1>10 DEF EnterPaused, EntryOpen, At
  <2> QED BY <1>10, <2>1, RowFacts, PendingClosed, RowsUnmoved DEF EnterPaused, TerminalStatuses
<1>11. ASSUME CancelEntered(c, t) PROVE RowsBy(c)
  <2>1. w.run \in RunIds
    BY <1>1, <1>11 DEF CancelEntered, At
  <2>2. CASE run' = run
    BY <2>2, RowsUnmoved
  <2>3. CASE /\ run' = Closed({w.run}, "canceled") /\ run[w.run].status = "running" /\ Owned(c, w.run)
             /\ worker' = Freed(c, t)
    <3>1. ClosedAt({w.run}, "canceled") /\ Active(w.run) /\ Claimable(c, w.run) /\ LetsGo(c, w.run)
      BY <2>1, <2>3, RowFacts, SlotFacts DEF Active, ActiveStatuses, Claimable, FreedAt, LetsGo
    <3> QED BY <3>1, OwnClosed DEF TerminalStatuses
  <2> QED BY <1>11, <2>2, <2>3 DEF CancelEntered
<1>12. ASSUME PreProviderFail(c, t) PROVE RowsBy(c)
  <2>1. w.run \in RunIds
    BY <1>1, <1>12 DEF PreProviderFail, At
  <2>2. /\ {"running"} \in SUBSET ActiveStatuses /\ "failed" \in TerminalStatuses
        /\ {c} \in SUBSET {NoCore, c}
    BY DEF ActiveStatuses, TerminalStatuses
  <2> QED BY <1>12, <2>1, <2>2, ConcludeRows DEF PreProviderFail
<1>13. ASSUME Settle(c, t) PROVE RowsBy(c)
  <2> DEFINE to == IF w.outcome \in {"final", "timeout"} THEN "failed" ELSE w.outcome
  <2>1. w.run \in RunIds /\ w.outcome \in Outcomes
    BY <1>13, RunnerFacts DEF Settle, At
  <2>2. {"running"} \in SUBSET ActiveStatuses /\ to \in TerminalStatuses
    BY <2>1 DEF ActiveStatuses, TerminalStatuses, Outcomes
  <2>3. \E target, n : Conclude(c, t, {NoCore, c}, {"running"}, target, n, to)
    BY <1>13 DEF Settle
  <2> HIDE DEF to
  <2> QED BY <2>1, <2>2, <2>3, ConcludeRows
<1>14. ASSUME Recover(c, t) PROVE RowsBy(c)
  <2>1. w.run \in RunIds
    BY <1>1, <1>14 DEF Recover, At
  <2>2. "failed" \in TerminalStatuses /\ ActiveStatuses \in SUBSET ActiveStatuses
    BY DEF TerminalStatuses
  <2>3. LetsGo(c, w.run)
    BY <1>14, SlotFacts DEF Recover, FreedAt, LetsGo
  <2> QED BY <1>14, <2>1, <2>2, <2>3, TerminalizeRows, RowsUnmoved DEF Recover, rows
<1>15. ASSUME Heartbeat(c, t) PROVE RowsBy(c)
  <2>1. w.run \in RunIds
    BY <1>1, <1>15 DEF Heartbeat, Beating
  <2>2. CASE Active(w.run) /\ run[w.run].owner = c /\ run' = WithOwner(w.run, c, TRUE)
    <3>1. OwnedAt(w.run, c, TRUE)
      BY <2>1, <2>2, RowFacts
    <3> QED BY <2>1, <2>2, <3>1, Reowned
  <2> QED BY <1>15, <2>2, RowsUnmoved DEF Heartbeat
<1> QED BY <1>2, <1>3, <1>4, <1>5, <1>6, <1>7, <1>8, <1>9, <1>10, <1>11, <1>12, <1>13, <1>14, <1>15
        DEF RunnerStep

\* Every step of a sweep or a courier.
LEMMA SweepRows ==
  ASSUME IInv, NEW c \in Cores, NEW r \in RunIds, SweepStep(c, r)
  PROVE  RowsBy(c)
<1>1. ASSUME LaunchDurable(c, r) PROVE RowsBy(c)
  BY <1>1, RowFacts, PendingClosed, RowsUnmoved DEF LaunchDurable, Durable, TerminalStatuses, rows
<1>2. ASSUME ReapClaim(c, r) PROVE RowsBy(c)
  <2>1. OwnedAt(r, c, TRUE) /\ Active(r) /\ Claimable(c, r) /\ ~Durable(r)
    BY <1>2, RowFacts DEF ReapClaim, Reapable, Claimable
  <2>2. Claimed(c, r)
    BY <1>2, <2>1 DEF Claimed, OwnedAt, ReapClaim, Reapable
  <2> QED BY <2>1, <2>2, Reowned
<1>3. ASSUME DeliverRetry(c, r) PROVE RowsBy(c)
  <2>1. run' = run \/ \E q \in RunIds : Fresh(q) /\ run' = Insert(q, run[r].task, "retry", r, FALSE)
    BY <1>3 DEF DeliverRetry, rows
  <2>2. ASSUME NEW q \in RunIds, Fresh(q), run' = Insert(q, run[r].task, "retry", r, FALSE)
        PROVE  RowsBy(c)
    <3>1. InsertedAt(q, run[r].task, "retry", r, FALSE)
      BY <2>2, RowFacts
    <3> QED BY <2>2, <3>1, Inserted
  <2> QED BY <2>1, <2>2, RowsUnmoved
<1>4. ASSUME RebuildRetryEffect(c, r) \/ ClaimEffect(c, r) \/ FailEffect(c, r) PROVE RowsBy(c)
  BY <1>4, RowsUnmoved DEF RebuildRetryEffect, ClaimEffect, FailEffect
<1> QED BY <1>1, <1>2, <1>3, <1>4 DEF SweepStep

\* Every step of an operator.
LEMMA OperatorRows ==
  ASSUME IInv, NEW c \in Cores, NEW t \in Tasks, OperatorAsks(c, t) \/ OperatorStep(c, t)
  PROVE  RowsBy(c)
<1>1. ASSUME CancelDirect(c, t) PROVE RowsBy(c)
  <2>1. Canceling
    BY <1>1 DEF CancelDirect, Canceling
  <2> QED BY <1>1, <2>1, CancelOrphansRows DEF CancelDirect
<1>2. ASSUME CancelSignal(c, t) \/ CancelOrphan(c, t) PROVE RowsBy(c)
  <2>1. ASSUME run' # run PROVE OrphanOK(c, t) /\ CancelOrphans(t)
    BY <1>2, <2>1 DEF CancelSignal, CancelOrphan, rows
  <2>2. Canceling
    BY <1>2 DEF CancelSignal, CancelOrphan, ApiAt, Canceling, CancelPcs
  <2> QED BY <2>1, <2>2, CancelOrphansRows, RowsUnmoved
<1>3. ASSUME CancelOwned(c, t) PROVE RowsBy(c)
  <2> DEFINE mine == {r \in RunningRuns(t) : run[r].owner = c}
  <2>1. CASE run' = run
    BY <2>1, RowsUnmoved
  <2>2. CASE run' = Closed(mine, "canceled")
    <3>1. ClosedAt(mine, "canceled")
      BY <2>2, RowFacts
    <3>2. \A q \in RunIds \cap mine : Active(q) /\ Claimable(c, q) /\ LetsGo(c, q)
      <4>1. Canceling
        BY <1>3 DEF CancelOwned, ApiAt, Canceling, CancelPcs
      <4> QED BY <4>1 DEF RunningRuns, Active, ActiveStatuses, Claimable, Owned, LetsGo
    <3> QED BY <3>1, <3>2, OwnClosed DEF TerminalStatuses
  <2> QED BY <1>3, <2>1, <2>2 DEF CancelOwned
<1>4. ASSUME CancelPending(c, t) PROVE RowsBy(c)
  BY <1>4, RowFacts, PendingClosed, RowsUnmoved DEF CancelPending, TerminalStatuses
<1>5. ASSUME \/ Trigger(c, t) \/ CancelRead(c, t) \/ PauseRead(c, t) \/ Resume(c, t)
             \/ Overwrite(c, t) \/ PauseDisable(c, t)
      PROVE  RowsBy(c)
  BY <1>5, RowsUnmoved DEF Trigger, CancelRead, PauseRead, Resume, Overwrite, PauseDisable
<1> QED BY <1>1, <1>2, <1>3, <1>4, <1>5 DEF OperatorAsks, OperatorStep

\* A sweep settles the run it has claimed.
LEMMA ReapRows ==
  ASSUME IInv, NEW c \in Cores, ReapSettle(c)
  PROVE  RowsBy(c)
<1>1. sweep[c].run \in RunIds /\ sweep[c].seen \in ActiveStatuses
  BY DEF ReapSettle, IInv, LocalOK, GoodClaim
<1>2. {sweep[c].seen} \in SUBSET ActiveStatuses /\ "failed" \in TerminalStatuses
  BY <1>1 DEF TerminalStatuses
<1>3. LetsGo(c, sweep[c].run)
  BY DEF LetsGo
<1> QED BY <1>1, <1>2, <1>3, TerminalizeRows, RowsUnmoved DEF ReapSettle, rows

\* Every step a core takes.
LEMMA CoreRows ==
  ASSUME IInv, NEW c \in Cores, CoreStep(c)
  PROVE  RowsBy(c)
<1>1. ASSUME Crash(c) \/ Seal(c) \/ Shutdown(c) \/ Drained(c) PROVE RowsBy(c)
  BY <1>1, RowsUnmoved DEF Crash, Seal, Shutdown, Drained
<1> QED BY <1>1, RunnerRows, OperatorRows, SweepRows, ReapRows DEF CoreStep

\* Every step of the specification.
LEMMA NextRows ==
  ASSUME IInv, Next
  PROVE  StepRows
<1>1. ASSUME NEW c \in Cores, CoreStep(c) PROVE StepRows
  BY <1>1, CoreRows DEF RowsBy
<1>2. ASSUME DisablePolicy PROVE StepRows
  BY <1>2, RowFacts, PendingClosed DEF DisablePolicy, PolicyRuns, TerminalStatuses, RowsBy
<1>3. ASSUME UpdatePolicy PROVE StepRows
  BY <1>3, RowsUnmoved DEF UpdatePolicy, RowsBy
<1>4. ASSUME NEW t \in Tasks, ReserveAuto(t) PROVE StepRows
  BY <1>4, RowFacts, Inserted DEF ReserveAuto, RowsBy
<1>5. ASSUME NEW r \in RunIds, RunLeaseExpires(r) \/ EffectLeaseExpires(r) PROVE StepRows
  <2>1. CASE RunLeaseExpires(r)
    BY <2>1, RowFacts, Reowned DEF RunLeaseExpires, RowsBy
  <2>2. CASE EffectLeaseExpires(r)
    BY <2>2, RowsUnmoved DEF EffectLeaseExpires, RowsBy
  <2> QED BY <1>5, <2>1, <2>2
<1> QED BY <1>1, <1>2, <1>3, <1>4, <1>5 DEF Next, CoreStep

-----------------------------------------------------------------------------
(* Leases and quota. *)

\* Nobody takes a live lease from its holder, and no step of another core settles
\* the running run it protects: not by a takeover, a sweep, a Cancel served there or
\* a late runner, under any fault.
THEOREM LeasesFence == Spec => LeaseFences
<1> DEFINE A == \A r \in RunIds : \A c \in Cores :
                   run[r].owner = c /\ run[r].lease =>
                      /\ run'[r].owner \in {c, NoCore}
                      /\ run[r].status = "running" /\ run'[r].status # "running" =>
                            \A d \in Cores \ {c} : ~CoreStep(d)
<1>1. IInv /\ [Next]_vars => [A]_vars
  <2> SUFFICES ASSUME IInv, Next, NEW r \in RunIds, NEW c \in Cores, run[r].owner = c, run[r].lease
               PROVE  /\ run'[r].owner \in {c, NoCore}
                      /\ run[r].status = "running" /\ run'[r].status # "running" =>
                            \A d \in Cores \ {c} : ~CoreStep(d)
    OBVIOUS
  <2>1. \A d \in Cores : Claimable(d, r) => d = c
    BY ConstantsAssumption DEF Claimable, Owned
  <2>2. run'[r].owner \in {c, NoCore}
    <3>1. RowMove(r)
      BY NextRows DEF StepRows
    <3> QED BY <2>1, <3>1 DEF RowMove, Settled, Claimed
  <2>3. ASSUME NEW d \in Cores, CoreStep(d), run[r].status = "running", run'[r].status # "running"
        PROVE  d = c
    BY <2>1, <2>3, CoreRows DEF RowsBy, FencedBy
  <2> QED BY <2>2, <2>3
<1> QED BY <1>1, Inductive, PTL DEF Spec, LeaseFences

\* However the quota is edited while entries are under way, no step takes the
\* number of running runs above it.
THEOREM QuotaHolds == Spec => QuotaNotExceeded
<1> DEFINE now == PolicyRuns({"running"})
           next == {r \in RunIds : run'[r].status = "running"}
<1>1. ASSUME IInv, Next PROVE Cardinality(next) > Cardinality(now) => Cardinality(next) <= policy'.quota
  <2>1. IsFiniteSet(RunIds)
    BY FS_Interval, ConstantsAssumption DEF RunIds
  <2>2. IsFiniteSet(now) /\ Cardinality(now) \in Nat
    BY <2>1, FS_Subset, FS_CardinalityType DEF PolicyRuns
  <2>3. CASE next \subseteq now
    <3>1. Cardinality(next) <= Cardinality(now) /\ Cardinality(next) \in Nat
      BY <2>2, <2>3, FS_Subset, FS_CardinalityType
    <3> QED BY <2>2, <3>1
  <2>4. ASSUME NEW q \in RunIds, q \in next, q \notin now
        PROVE  Cardinality(next) <= policy'.quota
    <3>1. RowMove(q) /\ run'[q].status = "running" /\ run[q].status # "running"
      BY <1>1, <2>4, NextRows DEF StepRows, PolicyRuns
    <3>2. AdmitSlot(q) /\ OnlyRun(q) /\ policy' = policy
      BY <3>1 DEF RowMove, Settled, Claimed, TerminalStatuses
    <3>3. next = now \cup {q}
      BY <2>4, <3>2 DEF OnlyRun, PolicyRuns
    <3>4. Cardinality(next) = Cardinality(now) + 1
      BY <2>2, <2>4, <3>3, FS_AddElement
    <3>5. now \ {q} = now
      BY <2>4
    <3>6. Cardinality(now) < policy.quota
      BY <3>2, <3>5 DEF AdmitSlot
    <3>7. policy.quota \in Nat
      BY <1>1, ConstantsAssumption DEF IInv, TypeOK
    <3> QED BY <2>2, <3>2, <3>4, <3>6, <3>7
  <2> QED BY <2>3, <2>4
<1>2. IInv /\ [Next]_vars => [Cardinality(next) > Cardinality(now) => Cardinality(next) <= policy'.quota]_vars
  BY <1>1
<1> QED BY <1>2, Inductive, PTL DEF Spec, QuotaNotExceeded

-----------------------------------------------------------------------------
(* What a step may do to a slot. *)

\* What a runner's record says about its run, beyond LocalOK.
RunnerAt(c, t) ==
    LET w == worker[c][t] IN
    /\ w.pc \in {"idle", "admitted"} => w.run = 0 /\ w.seen = "none"
    /\ w.run \in RunIds => run[w.run].status # "none" /\ run[w.run].task = t
    /\ w.seen # "running"
    /\ w.pc \in {"entered", "provider", "settle"} => run[w.run].status # "pending"
    /\ w.kind = "shutdown" => w.canceled /\ core[c] = "draining"
RunnerInv == \A c \in Cores, t \in Tasks : RunnerAt(c, t)

\* A durable run in the queue that carries a live core's name is in that core's
\* hands: its runner has claimed it.
QueueInv ==
    \A r \in RunIds, c \in Cores :
       Durable(r) /\ run[r].owner = c /\ core[c] # "down" =>
          worker[c][run[r].task].run = r /\ worker[c][run[r].task].pc \notin {"reserved", "rejected"}

\* Two tasks of one node never hold a core's strategy lock at once.
LockInv ==
    \A c \in Cores, t, u \in Tasks :
       <<t, u>> \in Rivals /\ HoldsStrategyLock(c, t) => ~HoldsStrategyLock(c, u)

SlotInv == RunnerInv /\ QueueInv /\ LockInv

\* The slots whose runner holds a lease and renews it.
HeldPcs == {"claimed", "loaded", "limited", "refused", "entered", "provider", "settle"}

\* The ways a slot changes: a runner leaves it, a request or a sweep takes it, the
\* runner goes one step further, or somebody signals it.
Abandoned(c, r) ==
    run'[r].status = "pending" /\ run'[r].trigger \in {"auto", "retry"} /\ run'[r].owner = c
Leaves(c, t) ==
    /\ RunnerStep(c, t) \/ Heartbeat(c, t) \/ DeadlinePasses(c, t)
    /\ FreedAt(c, t)
    /\ worker[c][t].run \in RunIds => ~Abandoned(c, worker[c][t].run)
Admits(c, t) ==
    /\ Only(c, t) /\ UNCHANGED rows
    /\ worker[c][t].pc = "idle" /\ worker'[c][t].pc = "admitted"
    /\ worker'[c][t].run = 0 /\ worker'[c][t].seen = "none" /\ worker'[c][t].kind = "none"
    /\ ~worker'[c][t].canceled /\ ~worker'[c][t].barred
Takes(c, t, r) ==
    /\ Only(c, t) /\ task' = task
    /\ worker[c][t].pc \in {"idle", "admitted"} /\ worker'[c][t].pc = "reserved"
    /\ worker'[c][t].run = r /\ worker'[c][t].seen \in {worker[c][t].seen, "none"}
    /\ \/ worker'[c][t].kind = worker[c][t].kind /\ worker'[c][t].canceled = worker[c][t].canceled
       \/ worker'[c][t].kind = "none" /\ ~worker'[c][t].canceled
    /\ worker'[c][t].barred => worker[c][t].barred
    /\ \/ run[r].status = "none" /\ InsertedAt(r, t, "manual", 0, TRUE)
       \/ worker[c][t].pc = "idle" /\ run' = run /\ run[r].task = t /\ Durable(r)
Advances(c, t) ==
    LET w == worker[c][t]
        next == worker'[c][t]
        r == worker[c][t].run
    IN
    /\ r \in RunIds
    /\ Only(c, t) /\ Unsignaled(c, t) /\ next.run = w.run
    /\ \/ /\ w.pc = "reserved" /\ next.pc = "claimed" /\ Carries(c, t)
          /\ run[r].status \in {"pending", "running"} /\ Claimable(c, r)
          /\ OwnedAt(r, c, TRUE) /\ task' = task
       \/ /\ w.pc = "reserved" /\ next.pc = "rejected" /\ Carries(c, t) /\ UNCHANGED rows
          /\ ~(run[r].status \in {"pending", "running"} /\ Claimable(c, r))
       \/ /\ w.pc \in {"claimed", "loaded", "limited", "refused", "entered", "settle"}
          /\ next.pc = "recover" /\ Carries(c, t) /\ UNCHANGED rows
       \/ /\ w.pc = "claimed" /\ next.pc = "loaded" /\ ~w.canceled /\ UNCHANGED rows
          /\ task[t].status # "running" /\ next.seen = task[t].status
          /\ \A u \in Tasks : <<t, u>> \in Rivals => ~HoldsStrategyLock(c, u)
       \/ /\ w.pc = "loaded" /\ ~w.canceled /\ next.pc \in {"limited", "refused"}
          /\ Carries(c, t) /\ UNCHANGED rows
          /\ next.pc = "limited" => run[r].status = "pending" /\ ~AdmitSlot(r)
       \/ /\ w.pc = "loaded" /\ ~w.canceled /\ next.pc = "entered" /\ next.seen = w.seen
          /\ next.tries = task[t].retries /\ task[t].status = w.seen
          /\ run[r].status = "pending" /\ EnteredAt(r) /\ TaskAt(t, "running", task[t].retries)
       \/ /\ w.pc = "entered" /\ next.pc = "provider" /\ Carries(c, t) /\ UNCHANGED rows
       \/ /\ w.pc = "provider" /\ next.pc = "settle" /\ UNCHANGED rows
          /\ next.seen = w.seen /\ next.tries = w.tries
Signals(c, t) ==
    /\ worker[c][t].pc # "idle" /\ worker'[c][t].pc = worker[c][t].pc
    /\ Carries(c, t)
    /\ worker[c][t].canceled => worker'[c][t].canceled
    /\ worker'[c][t].canceled /\ ~worker[c][t].canceled =>
          \/ Canceling \/ "renewError" \in Faults \/ "deadline" \in Faults \/ core[c] = "sealed"
          \/ /\ worker[c][t].pc \in HeldPcs
             /\ ~(Active(worker[c][t].run) /\ run[worker[c][t].run].owner = c)
    /\ worker'[c][t].barred /\ ~worker[c][t].barred => Canceling
    /\ worker'[c][t].kind \notin {worker[c][t].kind, "shutdown"} => Canceling
    /\ worker'[c][t].kind = "shutdown" /\ worker[c][t].kind # "shutdown" =>
          worker'[c][t].canceled /\ core'[c] = "draining"

\* A step moves no slot, or one, or those of a core that stops or dies.
OneSlot(c, t) ==
    /\ core' = core
    /\ \/ Leaves(c, t) \/ Admits(c, t) \/ Advances(c, t)
       \/ \E r \in RunIds : Takes(c, t, r)
       \/ Only(c, t) /\ Signals(c, t)
NoSlot ==
    /\ worker' = worker
    /\ \A c \in Cores :
          \/ core'[c] = core[c]
          \/ "shutdown" \in Faults /\ core[c] = "up" /\ core'[c] = "sealed"
          \/ core'[c] = "down" /\ \A t \in Tasks : worker[c][t] = Idle
OthersKept(c) == \A d \in Cores \ {c} : core'[d] = core[d] /\ worker'[d] = worker[d]
Stops(c) ==
    /\ UNCHANGED rows /\ OthersKept(c)
    /\ core[c] = "sealed" /\ core'[c] = "draining"
    /\ \A t \in Tasks : worker'[c][t] = worker[c][t] \/ Signals(c, t)
Dies(c) ==
    /\ UNCHANGED rows /\ OthersKept(c)
    /\ core'[c] = "down"
    /\ \A t \in Tasks : worker'[c][t] = Idle
StepSlots ==
    \/ \E c \in Cores, t \in Tasks : OneSlot(c, t)
    \/ NoSlot
    \/ \E c \in Cores : Stops(c) \/ Dies(c)

\* The shared transactions of a runner, seen from its slot.
LEMMA ConcludeSlot ==
  ASSUME IInv, NEW c \in Cores, NEW t \in Tasks,
         RunnerStep(c, t) \/ Heartbeat(c, t) \/ DeadlinePasses(c, t),
         worker[c][t].run \in RunIds, worker[c][t].pc \in {"claimed", "entered", "settle"}, core' = core,
         NEW owners, NEW expected, NEW target, NEW n, NEW to \in TerminalStatuses,
         Conclude(c, t, owners, expected, target, n, to)
  PROVE  OneSlot(c, t)
<1> DEFINE r == worker[c][t].run
<1>1. CASE worker' = Freed(c, t) /\ run' = Closed({r}, to)
  <2>1. FreedAt(c, t) /\ ClosedAt({r}, to)
    BY <1>1, SlotFacts, RowFacts
  <2>2. run'[r].status # "pending"
    BY <2>1 DEF ClosedAt, TerminalStatuses
  <2> QED BY <2>1, <2>2 DEF OneSlot, Leaves, Abandoned
<1>2. CASE worker' = Freed(c, t) /\ run' = run /\ run[r].status = to
  <2>1. FreedAt(c, t)
    BY <1>2, SlotFacts
  <2>2. run'[r].status # "pending"
    BY <1>2 DEF TerminalStatuses
  <2> QED BY <2>1, <2>2 DEF OneSlot, Leaves, Abandoned
<1>3. CASE worker' = Moved(c, t, "recover") /\ UNCHANGED rows
  <2>1. MovedAt(c, t, "recover")
    BY <1>3, SlotFacts
  <2>2. Advances(c, t)
    BY <1>3, <2>1 DEF Advances, MovedAt, Carries
  <2> QED BY <2>2 DEF OneSlot
<1> QED BY <1>1, <1>2, <1>3 DEF Conclude, Terminalize, rows

\* A runner that gives up leaves nothing in its name, or reports an error.
LEMMA GiveUpSlot ==
  ASSUME IInv, NEW c \in Cores, NEW t \in Tasks, worker[c][t].run \in RunIds, NEW onError,
         GiveUp(c, t, onError)
  PROVE  \/ FreedAt(c, t) /\ ~Abandoned(c, worker[c][t].run)
         \/ worker' = onError /\ UNCHANGED rows
<1> DEFINE r == worker[c][t].run
<1>1. CASE worker' = Freed(c, t) /\ run' = run /\ run[r].status \in TerminalStatuses
  BY <1>1, SlotFacts DEF Abandoned, TerminalStatuses
<1>2. CASE worker' = Freed(c, t) /\ run' = WithOwner(r, NoCore, FALSE)
  <2>1. OwnedAt(r, NoCore, FALSE) /\ FreedAt(c, t)
    BY <1>2, SlotFacts, RowFacts
  <2> QED BY <2>1, ConstantsAssumption DEF Abandoned, OwnedAt
<1>3. CASE worker' = Freed(c, t) /\ run' = Closed({r}, "canceled")
  <2>1. ClosedAt({r}, "canceled") /\ FreedAt(c, t)
    BY <1>3, SlotFacts, RowFacts
  <2> QED BY <2>1 DEF Abandoned, ClosedAt
<1>4. CASE worker' = onError /\ UNCHANGED rows
  BY <1>4
<1> QED BY <1>1, <1>2, <1>3, <1>4 DEF GiveUp, GivenUp, TerminalStatuses, Claimable, rows

\* Every step of a runner.
LEMMA RunnerSlots ==
  ASSUME IInv, SlotInv, NEW c \in Cores, NEW t \in Tasks,
         RunnerStep(c, t) \/ Heartbeat(c, t) \/ DeadlinePasses(c, t)
  PROVE  OneSlot(c, t)
<1> DEFINE w == worker[c][t]
           r == worker[c][t].run
<1>0. /\ w.pc \notin {"idle", "admitted"} => r \in RunIds
      /\ w.pc \in {"idle", "admitted"} => r = 0
      /\ r \in RunIds => run[r].task = t /\ run[r].status # "none"
      /\ worker \in [Cores -> [Tasks -> Runner]] /\ w \in Runner
  BY RunnerFacts, Tables DEF SlotInv, RunnerInv, RunnerAt
<1>1. ASSUME FreedAt(c, t), r \in RunIds => ~Abandoned(c, r), core' = core PROVE OneSlot(c, t)
  BY <1>1 DEF OneSlot, Leaves
<1>2. ASSUME NEW pc \in {"recover", "limited", "refused", "provider", "rejected"},
             MovedAt(c, t, pc), core' = core, UNCHANGED rows,
             \/ pc = "recover" /\ w.pc \in {"claimed", "loaded", "limited", "refused", "entered", "settle"}
             \/ /\ pc \in {"limited", "refused"} /\ w.pc = "loaded" /\ ~w.canceled
                /\ pc = "limited" => run[r].status = "pending" /\ ~AdmitSlot(r)
             \/ pc = "provider" /\ w.pc = "entered"
             \/ /\ pc = "rejected" /\ w.pc = "reserved"
                /\ ~(run[r].status \in {"pending", "running"} /\ Claimable(c, r))
      PROVE  OneSlot(c, t)
  <2>1. r \in RunIds /\ Only(c, t) /\ Unsignaled(c, t) /\ Carries(c, t) /\ worker'[c][t].pc = pc
    BY <1>0, <1>2 DEF MovedAt
  <2>2. worker'[c][t].run = r
    BY <2>1 DEF Carries
  <2>3. Advances(c, t)
    BY <1>2, <2>1, <2>2 DEF Advances
  <2> QED BY <1>2, <2>3 DEF OneSlot
<1>3. ASSUME Reserve(c, t) PROVE OneSlot(c, t)
  <2>1. CASE worker' = Freed(c, t)
    BY <1>0, <1>1, <1>3, <2>1, SlotFacts, RunIdsAreNat DEF Reserve, At
  <2>2. ASSUME NEW q \in RunIds, Fresh(q), run' = Insert(q, t, "manual", 0, TRUE),
               worker' = [worker EXCEPT ![c][t].pc = "reserved", ![c][t].run = q]
        PROVE  OneSlot(c, t)
    <3> DEFINE n == [w EXCEPT !.pc = "reserved", !.run = q]
    <3>1. worker' = [worker EXCEPT ![c][t] = n]
      BY <1>0, <2>2
    <3>2. /\ n.pc = "reserved" /\ n.run = q /\ n.seen = w.seen /\ n.kind = w.kind
          /\ n.canceled = w.canceled /\ n.barred = w.barred
      BY <1>0 DEF Runner
    <3> HIDE DEF n
    <3>3. worker'[c][t] = n /\ Only(c, t)
      BY <3>1, SlotFacts
    <3>4. InsertedAt(q, t, "manual", 0, TRUE)
      BY <2>2, RowFacts
    <3>5. task' = task /\ core' = core /\ w.pc = "admitted"
      BY <1>3 DEF Reserve, At
    <3>6. Takes(c, t, q)
      BY <2>2, <3>2, <3>3, <3>4, <3>5 DEF Takes, Fresh
    <3> QED BY <3>5, <3>6 DEF OneSlot
  <2> QED BY <1>3, <2>1, <2>2 DEF Reserve
<1>4. ASSUME Launch(c, t) PROVE OneSlot(c, t)
  <2>1. r \in RunIds /\ w.pc = "reserved" /\ core' = core /\ core[c] # "down"
    BY <1>0, <1>4 DEF Launch, At
  <2>2. CASE /\ run[r].status \in {"pending", "running"} /\ Claimable(c, r) /\ UNCHANGED <<task, effect>>
             /\ run' = WithOwner(r, c, TRUE) /\ worker' = Moved(c, t, "claimed")
    <3>1. OwnedAt(r, c, TRUE)
      BY <2>1, <2>2, RowFacts
    <3>2. MovedAt(c, t, "claimed")
      BY <2>2, SlotFacts
    <3>3. Only(c, t) /\ Unsignaled(c, t) /\ Carries(c, t) /\ worker'[c][t].pc = "claimed"
          /\ worker'[c][t].run = r
      BY <3>2 DEF MovedAt, Carries
    <3>4. Advances(c, t)
      BY <2>1, <2>2, <3>1, <3>3 DEF Advances
    <3> QED BY <2>1, <3>4 DEF OneSlot
  <2>3. CASE /\ ~(run[r].status \in {"pending", "running"} /\ Claimable(c, r))
             /\ worker' = Moved(c, t, "rejected") /\ UNCHANGED rows
    <3>1. MovedAt(c, t, "rejected")
      BY <2>3, SlotFacts
    <3> QED BY <1>2, <2>1, <2>3, <3>1
  <2>4. CASE run[r].trigger = "manual" /\ GiveUp(c, t, Freed(c, t))
    <3>1. FreedAt(c, t)
      BY <2>4, SlotFacts DEF GiveUp
    <3>2. RowMove(r)
      BY <2>1, RunnerRows DEF RowsBy, StepRows
    <3>3. run'[r].status = "pending" => run'[r].trigger = "manual"
      BY <1>0, <2>1, <2>4, <3>2 DEF RowMove, SameRun
    <3> QED BY <1>1, <2>1, <3>1, <3>3 DEF Abandoned
  <2>5. CASE worker' = Freed(c, t) /\ UNCHANGED rows
    <3>1. ~(Durable(r) /\ run[r].owner = c)
      BY <1>0, <2>1 DEF SlotInv, QueueInv
    <3>2. FreedAt(c, t) /\ ~Abandoned(c, r)
      BY <2>5, <3>1, SlotFacts DEF Abandoned, rows, Durable
    <3> QED BY <1>1, <2>1, <3>2
  <2> QED BY <1>4, <2>2, <2>3, <2>4, <2>5 DEF Launch, rows
<1>5. ASSUME FailUnclaimed(c, t) \/ FailRefused(c, t) PROVE OneSlot(c, t)
  <2>1. r \in RunIds /\ w.pc \in {"rejected", "refused"} /\ core' = core
    BY <1>0, <1>5 DEF FailUnclaimed, FailRefused, At
  <2>2. CASE Reject(r) /\ worker' = Freed(c, t)
    <3>1. ClosedAt({r}, "failed") /\ FreedAt(c, t)
      BY <2>2, RowFacts, SlotFacts DEF Reject
    <3> QED BY <1>1, <2>1, <3>1 DEF ClosedAt, Abandoned
  <2>3. CASE ~CanReject(c, r) /\ UNCHANGED rows /\ worker' = Freed(c, t)
    <3>1. FreedAt(c, t) /\ ~Abandoned(c, r)
      BY <2>3, SlotFacts DEF Abandoned, rows, CanReject, Active, ActiveStatuses, Owned
    <3> QED BY <1>1, <2>1, <3>1
  <2>4. CASE w.pc = "refused" /\ UNCHANGED rows /\ worker' = Moved(c, t, "recover")
    <3>1. MovedAt(c, t, "recover")
      BY <2>4, SlotFacts
    <3> QED BY <1>2, <2>1, <2>4, <3>1
  <2> QED BY <1>5, <2>2, <2>3, <2>4 DEF FailUnclaimed, FailRefused, At, rows
<1>6. ASSUME Abort(c, t) PROVE OneSlot(c, t)
  <2>1. r \in RunIds /\ w.pc \in {"claimed", "loaded", "limited"} /\ core' = core
    BY <1>0, <1>6 DEF Abort, At
  <2>2. \/ FreedAt(c, t) /\ ~Abandoned(c, r)
        \/ worker' = Moved(c, t, "recover") /\ UNCHANGED rows
    BY <1>6, <2>1, GiveUpSlot DEF Abort
  <2>3. worker' = Moved(c, t, "recover") => MovedAt(c, t, "recover")
    BY SlotFacts
  <2> QED BY <1>1, <1>2, <2>1, <2>2, <2>3
<1>7. ASSUME NodeRefuses(c, t) PROVE OneSlot(c, t)
  <2>1. r \in RunIds /\ w.pc = "claimed" /\ core' = core /\ "canceled" \in TerminalStatuses
    BY <1>0, <1>7 DEF NodeRefuses, MayLoad, At, TerminalStatuses
  <2> QED BY <1>7, <2>1, ConcludeSlot DEF NodeRefuses
<1>8. ASSUME Load(c, t) PROVE OneSlot(c, t)
  <2>1. r \in RunIds /\ w.pc = "claimed" /\ ~w.canceled /\ core' = core /\ UNCHANGED rows
    BY <1>0, <1>8 DEF Load, MayLoad, At, rows
  <2>2. CASE worker' = Moved(c, t, "recover")
    <3>1. MovedAt(c, t, "recover")
      BY <2>2, SlotFacts
    <3> QED BY <1>2, <2>1, <3>1
  <2>3. CASE /\ task[t].status # "running"
             /\ worker' = [worker EXCEPT ![c][t].pc = "loaded", ![c][t].seen = task[t].status]
    <3> DEFINE n == [w EXCEPT !.pc = "loaded", !.seen = task[t].status]
    <3>1. worker' = [worker EXCEPT ![c][t] = n]
      BY <1>0, <2>3
    <3>2. /\ n.pc = "loaded" /\ n.run = w.run /\ n.seen = task[t].status /\ n.kind = w.kind
          /\ n.canceled = w.canceled /\ n.barred = w.barred
      BY <1>0 DEF Runner
    <3> HIDE DEF n
    <3>3. worker'[c][t] = n /\ Only(c, t)
      BY <3>1, SlotFacts
    <3>4. \A u \in Tasks : <<t, u>> \in Rivals => ~HoldsStrategyLock(c, u)
      BY <1>8 DEF Load
    <3>5. Advances(c, t)
      BY <2>1, <2>3, <3>2, <3>3, <3>4 DEF Advances, Unsignaled
    <3> QED BY <2>1, <3>5 DEF OneSlot
  <2> QED BY <1>8, <2>2, <2>3 DEF Load
<1>9. ASSUME Enter(c, t) PROVE OneSlot(c, t)
  <2>1. /\ r \in RunIds /\ w.pc = "loaded" /\ ~w.canceled /\ core' = core
        /\ run[r].status = "pending" /\ task[t].status = w.seen
    BY <1>0, <1>9 DEF Enter, EntryOpen, At
  <2>2. EnteredAt(r) /\ TaskAt(t, "running", task[t].retries)
    BY <1>9, <2>1, RowFacts, TaskFacts DEF Enter
  <2> DEFINE n == [w EXCEPT !.pc = "entered", !.tries = task[t].retries]
  <2>3. worker' = [worker EXCEPT ![c][t] = n]
    BY <1>0, <1>9 DEF Enter
  <2>4. /\ n.pc = "entered" /\ n.run = w.run /\ n.seen = w.seen /\ n.tries = task[t].retries
        /\ n.kind = w.kind /\ n.canceled = w.canceled /\ n.barred = w.barred
    BY <1>0 DEF Runner
  <2> HIDE DEF n
  <2>5. worker'[c][t] = n /\ Only(c, t)
    BY <2>3, SlotFacts
  <2>6. Advances(c, t)
    BY <2>1, <2>2, <2>4, <2>5 DEF Advances, Unsignaled
  <2> QED BY <2>1, <2>6 DEF OneSlot
<1>10. ASSUME EnterPaused(c, t) PROVE OneSlot(c, t)
  <2>1. r \in RunIds /\ w.pc = "loaded" /\ ~w.canceled /\ core' = core
    BY <1>0, <1>10 DEF EnterPaused, EntryOpen, At
  <2>2. CASE run' = Closed({r}, "canceled") /\ worker' = Freed(c, t)
    <3>1. ClosedAt({r}, "canceled") /\ FreedAt(c, t)
      BY <2>2, RowFacts, SlotFacts
    <3> QED BY <1>1, <2>1, <3>1 DEF ClosedAt, Abandoned
  <2>3. CASE run' = run /\ worker' = Moved(c, t, "refused")
    <3>1. MovedAt(c, t, "refused") /\ UNCHANGED rows
      BY <1>10, <2>3, SlotFacts DEF EnterPaused, rows
    <3> QED BY <1>2, <2>1, <3>1
  <2> QED BY <1>10, <2>2, <2>3 DEF EnterPaused
<1>11. ASSUME EnterRefused(c, t) PROVE OneSlot(c, t)
  <2>1. r \in RunIds /\ w.pc = "loaded" /\ ~w.canceled /\ core' = core /\ UNCHANGED rows
    BY <1>0, <1>11 DEF EnterRefused, EntryOpen, At, rows
  <2>2. \/ MovedAt(c, t, "limited") /\ run[r].status = "pending" /\ ~AdmitSlot(r)
        \/ MovedAt(c, t, "refused")
    BY <1>11, SlotFacts DEF EnterRefused
  <2> QED BY <1>2, <2>1, <2>2
<1>12. ASSUME CancelEntered(c, t) PROVE OneSlot(c, t)
  <2>1. r \in RunIds /\ w.pc = "entered" /\ core' = core
    BY <1>0, <1>12 DEF CancelEntered, At
  <2>2. CASE run' = Closed({r}, "canceled") /\ worker' = Freed(c, t)
    <3>1. ClosedAt({r}, "canceled") /\ FreedAt(c, t)
      BY <2>2, RowFacts, SlotFacts
    <3> QED BY <1>1, <2>1, <3>1 DEF ClosedAt, Abandoned
  <2>3. CASE run' = run /\ run[r].status = "canceled" /\ worker' = Freed(c, t)
    <3>1. FreedAt(c, t) /\ ~Abandoned(c, r)
      BY <2>3, SlotFacts DEF Abandoned
    <3> QED BY <1>1, <2>1, <3>1
  <2>4. CASE UNCHANGED rows /\ worker' = Moved(c, t, "recover")
    <3>1. MovedAt(c, t, "recover")
      BY <2>4, SlotFacts
    <3> QED BY <1>2, <2>1, <2>4, <3>1
  <2> QED BY <1>12, <2>2, <2>3, <2>4 DEF CancelEntered, rows
<1>13. ASSUME PreProviderFail(c, t) PROVE OneSlot(c, t)
  <2>1. r \in RunIds /\ w.pc = "entered" /\ core' = core /\ "failed" \in TerminalStatuses
    BY <1>0, <1>13 DEF PreProviderFail, At, TerminalStatuses
  <2> QED BY <1>13, <2>1, ConcludeSlot DEF PreProviderFail
<1>14. ASSUME BeginProvider(c, t) PROVE OneSlot(c, t)
  <2>1. r \in RunIds /\ w.pc = "entered" /\ core' = core /\ UNCHANGED rows
    BY <1>0, <1>14 DEF BeginProvider, At, rows
  <2>2. MovedAt(c, t, "provider")
    BY <1>14, SlotFacts DEF BeginProvider
  <2> QED BY <1>2, <2>1, <2>2
<1>15. ASSUME ProviderReturns(c, t) PROVE OneSlot(c, t)
  <2>1. r \in RunIds /\ w.pc = "provider" /\ core' = core /\ UNCHANGED rows
    BY <1>0, <1>15 DEF ProviderReturns, At, rows
  <2>2. PICK o \in Outcomes : worker' = [worker EXCEPT ![c][t].pc = "settle", ![c][t].outcome = o]
    BY <1>15 DEF ProviderReturns
  <2> DEFINE n == [w EXCEPT !.pc = "settle", !.outcome = o]
  <2>3. worker' = [worker EXCEPT ![c][t] = n]
    BY <1>0, <2>2
  <2>4. /\ n.pc = "settle" /\ n.run = w.run /\ n.seen = w.seen /\ n.tries = w.tries
        /\ n.kind = w.kind /\ n.canceled = w.canceled /\ n.barred = w.barred
    BY <1>0 DEF Runner
  <2> HIDE DEF n
  <2>5. worker'[c][t] = n /\ Only(c, t)
    BY <2>3, SlotFacts
  <2>6. Advances(c, t)
    BY <2>1, <2>4, <2>5 DEF Advances, Unsignaled
  <2> QED BY <2>1, <2>6 DEF OneSlot
<1>16. ASSUME Settle(c, t) PROVE OneSlot(c, t)
  <2> DEFINE to == IF w.outcome \in {"final", "timeout"} THEN "failed" ELSE w.outcome
  <2>1. r \in RunIds /\ w.pc = "settle" /\ w.outcome \in Outcomes /\ core' = core
    BY <1>0, <1>16, RunnerFacts DEF Settle, At
  <2>2. to \in TerminalStatuses
    BY <2>1 DEF TerminalStatuses, Outcomes
  <2>3. \E target, n : Conclude(c, t, {NoCore, c}, {"running"}, target, n, to)
    BY <1>16 DEF Settle
  <2> HIDE DEF to
  <2> QED BY <2>1, <2>2, <2>3, ConcludeSlot
<1>17. ASSUME Recover(c, t) PROVE OneSlot(c, t)
  <2>1. r \in RunIds /\ core' = core /\ FreedAt(c, t)
    BY <1>0, <1>17, SlotFacts DEF Recover, At
  <2>2. CASE run' = Closed({r}, "failed")
    <3>1. ClosedAt({r}, "failed")
      BY <2>2, RowFacts
    <3> QED BY <1>1, <2>1, <3>1 DEF ClosedAt, Abandoned
  <2>3. CASE run' = run /\ ~TerminalOK({NoCore, c}, r, ActiveStatuses, RecoveryTarget(t))
    <3>1. ValidTransition(task[t].status, RecoveryTarget(t))
      BY DEF ValidTransition, RecoveryTarget, TransitionEdges
    <3>2. ~(run[r].status = "pending" /\ run[r].owner = c)
      BY <1>0, <2>1, <2>3, <3>1 DEF TerminalOK, ActiveStatuses
    <3> QED BY <1>1, <2>1, <2>3, <3>2 DEF Abandoned
  <2> QED BY <1>17, <2>2, <2>3 DEF Recover, Terminalize, rows
<1>18. ASSUME Heartbeat(c, t) \/ DeadlinePasses(c, t) PROVE OneSlot(c, t)
  <2>1. core' = core /\ w.pc # "idle" /\ ("deadline" \in Faults \/ w.pc \in HeldPcs)
    BY <1>18 DEF Heartbeat, DeadlinePasses, Beating, HeldPcs
  <2>2. CASE worker' = worker
    BY <1>0, <2>1, <2>2, SlotFacts DEF OneSlot, Signals, Carries
  <2>3. CASE /\ worker' = [worker EXCEPT ![c][t].canceled = TRUE]
             /\ ~(Active(r) /\ run[r].owner = c) \/ {"renewError", "deadline"} \cap Faults # {}
    <3> DEFINE n == [w EXCEPT !.canceled = TRUE]
    <3>1. worker' = [worker EXCEPT ![c][t] = n]
      BY <1>0, <2>3
    <3>2. /\ n.pc = w.pc /\ n.run = w.run /\ n.seen = w.seen /\ n.tries = w.tries
          /\ n.outcome = w.outcome /\ n.kind = w.kind /\ n.canceled /\ n.barred = w.barred
      BY <1>0 DEF Runner
    <3> HIDE DEF n
    <3>3. worker'[c][t] = n /\ Only(c, t)
      BY <3>1, SlotFacts
    <3>4. Signals(c, t)
      BY <2>1, <2>3, <3>2, <3>3 DEF Signals, Carries
    <3> QED BY <2>1, <3>3, <3>4 DEF OneSlot
  <2> QED BY <1>18, <2>2, <2>3 DEF Heartbeat, DeadlinePasses
<1> QED BY <1>3, <1>4, <1>5, <1>6, <1>7, <1>8, <1>9, <1>10, <1>11, <1>12, <1>13, <1>14, <1>15,
           <1>16, <1>17, <1>18 DEF RunnerStep

\* Every step of a sweep, of a courier and of an operator.
LEMMA SweepSlots ==
  ASSUME IInv, NEW c \in Cores, NEW r \in RunIds, SweepStep(c, r)
  PROVE  StepSlots
<1>1. core' = core
  BY DEF SweepStep, LaunchDurable, ReapClaim, RebuildRetryEffect, ClaimEffect, DeliverRetry, FailEffect
<1>2. CASE worker' = worker
  BY <1>1, <1>2 DEF StepSlots, NoSlot
<1>3. CASE worker' # worker
  <2> DEFINE t == run[r].task
             n == [Idle EXCEPT !.pc = "reserved", !.run = r]
  <2>1. LaunchDurable(c, r) /\ UNCHANGED rows /\ worker' = [worker EXCEPT ![c][t] = n] /\ Durable(r)
    BY <1>3 DEF SweepStep, LaunchDurable, ReapClaim, RebuildRetryEffect, ClaimEffect, DeliverRetry,
                FailEffect
  <2>2. t \in Tasks /\ worker[c][t].pc = "idle"
    BY <2>1, Tables DEF LaunchDurable, RunRow
  <2>3. n.pc = "reserved" /\ n.run = r /\ n.seen = "none" /\ n.kind = "none" /\ ~n.canceled /\ ~n.barred
    BY DEF Idle
  <2> HIDE DEF n
  <2>4. worker'[c][t] = n /\ Only(c, t)
    BY <2>1, <2>2, SlotFacts
  <2>5. Takes(c, t, r)
    BY <2>1, <2>2, <2>3, <2>4 DEF Takes, rows
  <2> QED BY <1>1, <2>2, <2>5 DEF StepSlots, OneSlot
<1> QED BY <1>2, <1>3

\* A request moves no slot but its own: it admits a runner or signals it.
LEMMA OperatorSlots ==
  ASSUME IInv, NEW c \in Cores, NEW t \in Tasks, OperatorAsks(c, t) \/ OperatorStep(c, t)
  PROVE  StepSlots
<1> DEFINE w == worker[c][t]
<1>0. worker \in [Cores -> [Tasks -> Runner]] /\ w \in Runner
  BY Tables
<1>1. core' = core
  BY DEF OperatorAsks, OperatorStep, Trigger, CancelDirect, CancelRead, CancelSignal, CancelOwned,
         CancelOrphan, CancelPending, PauseRead, PauseDisable, Resume, Overwrite
<1>2. CASE worker' = worker
  BY <1>1, <1>2 DEF StepSlots, NoSlot
<1>3. ASSUME Trigger(c, t) PROVE StepSlots
  <2> DEFINE n == [Idle EXCEPT !.pc = "admitted"]
  <2>1. worker' = [worker EXCEPT ![c][t] = n] /\ w.pc = "idle" /\ UNCHANGED rows
    BY <1>3 DEF Trigger, rows
  <2>2. n.pc = "admitted" /\ n.run = 0 /\ n.seen = "none" /\ n.kind = "none" /\ ~n.canceled /\ ~n.barred
    BY DEF Idle
  <2> HIDE DEF n
  <2>3. worker'[c][t] = n /\ Only(c, t)
    BY <2>1, SlotFacts
  <2>4. Admits(c, t)
    BY <2>1, <2>2, <2>3 DEF Admits
  <2> QED BY <1>1, <2>4 DEF StepSlots, OneSlot
<1>4. ASSUME NEW n, n.pc = w.pc, n.run = w.run, n.seen = w.seen, n.tries = w.tries,
             n.outcome = w.outcome, w.canceled => n.canceled, n.kind \in {w.kind, "user"},
             w.pc # "idle", Canceling, worker' = [worker EXCEPT ![c][t] = n]
      PROVE  StepSlots
  <2>1. worker'[c][t] = n /\ Only(c, t)
    BY <1>4, SlotFacts
  <2>2. Signals(c, t)
    BY <1>4, <2>1 DEF Signals, Carries
  <2> QED BY <1>1, <2>1, <2>2 DEF StepSlots, OneSlot
<1>5. ASSUME CancelSignal(c, t), worker' # worker PROVE StepSlots
  <2> DEFINE n == [w EXCEPT !.canceled = TRUE, !.kind = "user"]
  <2>1. /\ w.pc # "idle" /\ worker' = [worker EXCEPT ![c][t].canceled = TRUE, ![c][t].kind = "user"]
        /\ Canceling
    BY <1>5 DEF CancelSignal, ApiAt, Canceling, CancelPcs
  <2>2. worker' = [worker EXCEPT ![c][t] = n]
    BY <1>0, <2>1
  <2>3. /\ n.pc = w.pc /\ n.run = w.run /\ n.seen = w.seen /\ n.tries = w.tries
        /\ n.outcome = w.outcome /\ n.kind = "user" /\ n.canceled
    BY <1>0 DEF Runner
  <2> HIDE DEF n
  <2> QED BY <1>4, <2>1, <2>2, <2>3
<1>6. ASSUME CancelOwned(c, t), worker' # worker PROVE StepSlots
  <2> DEFINE n == [w EXCEPT !.barred = TRUE]
  <2>1. w.pc # "idle" /\ worker' = [worker EXCEPT ![c][t].barred = TRUE] /\ Canceling
    BY <1>6 DEF CancelOwned, ApiAt, Canceling, CancelPcs
  <2>2. worker' = [worker EXCEPT ![c][t] = n]
    BY <1>0, <2>1
  <2>3. /\ n.pc = w.pc /\ n.run = w.run /\ n.seen = w.seen /\ n.tries = w.tries
        /\ n.outcome = w.outcome /\ n.kind = w.kind /\ n.canceled = w.canceled
    BY <1>0 DEF Runner
  <2> HIDE DEF n
  <2> QED BY <1>4, <2>1, <2>2, <2>3
<1>7. ASSUME worker' # worker PROVE Trigger(c, t) \/ CancelSignal(c, t) \/ CancelOwned(c, t)
  BY <1>7 DEF OperatorAsks, OperatorStep, Trigger, CancelDirect, CancelRead, CancelOrphan,
              CancelPending, PauseRead, PauseDisable, Resume, Overwrite
<1> QED BY <1>2, <1>3, <1>5, <1>6, <1>7

\* Every step of the specification.
LEMMA NextSlots ==
  ASSUME IInv, SlotInv, Next
  PROVE  StepSlots
<1>0. worker \in [Cores -> [Tasks -> Runner]] /\ core \in [Cores -> {"up", "sealed", "draining", "down"}]
  BY Tables
<1>1. ASSUME NEW c \in Cores, Crash(c) PROVE StepSlots
  BY <1>0, <1>1 DEF StepSlots, Dies, OthersKept, Crash, rows
<1>2. ASSUME NEW c \in Cores, Seal(c) PROVE StepSlots
  BY <1>0, <1>2 DEF StepSlots, NoSlot, Seal
<1>3. ASSUME NEW c \in Cores, Drained(c) PROVE StepSlots
  BY <1>0, <1>3 DEF StepSlots, NoSlot, Drained
<1>4. ASSUME NEW c \in Cores, Shutdown(c) PROVE StepSlots
  <2>1. /\ core[c] = "sealed" /\ core'[c] = "draining" /\ UNCHANGED rows /\ OthersKept(c)
    BY <1>0, <1>4 DEF Shutdown, OthersKept, rows
  <2>2. ASSUME NEW t \in Tasks, worker[c][t].pc # "idle" PROVE Signals(c, t)
    <3> DEFINE n == [worker[c][t] EXCEPT !.canceled = TRUE,
                        !.kind = IF worker[c][t].kind = "none" THEN "shutdown" ELSE worker[c][t].kind]
    <3>1. worker'[c][t] = n
      BY <1>0, <1>4, <2>2 DEF Shutdown
    <3>2. /\ n.pc = worker[c][t].pc /\ n.run = worker[c][t].run /\ n.seen = worker[c][t].seen
          /\ n.tries = worker[c][t].tries /\ n.outcome = worker[c][t].outcome /\ n.canceled
          /\ n.barred = worker[c][t].barred /\ n.kind \in {worker[c][t].kind, "shutdown"}
      BY <1>0 DEF Runner
    <3> HIDE DEF n
    <3> QED BY <2>1, <2>2, <3>1, <3>2 DEF Signals, Carries
  <2>3. \A t \in Tasks : worker[c][t].pc = "idle" => worker'[c][t] = worker[c][t]
    BY <1>0, <1>4 DEF Shutdown
  <2> QED BY <2>1, <2>2, <2>3 DEF StepSlots, Stops
<1>5. ASSUME UNCHANGED <<worker, core>> PROVE StepSlots
  BY <1>5 DEF StepSlots, NoSlot
<1>6. ASSUME \/ DisablePolicy \/ UpdatePolicy
             \/ \E t \in Tasks : ReserveAuto(t)
             \/ \E r \in RunIds : RunLeaseExpires(r) \/ EffectLeaseExpires(r)
             \/ \E c \in Cores : ReapSettle(c)
      PROVE  StepSlots
  BY <1>5, <1>6 DEF DisablePolicy, UpdatePolicy, ReserveAuto, RunLeaseExpires, EffectLeaseExpires,
                    ReapSettle
<1>7. ASSUME NEW c \in Cores, NEW t \in Tasks,
             RunnerStep(c, t) \/ Heartbeat(c, t) \/ DeadlinePasses(c, t)
      PROVE  StepSlots
  BY <1>7, RunnerSlots DEF StepSlots
<1> QED BY <1>1, <1>2, <1>3, <1>4, <1>6, <1>7, SweepSlots, OperatorSlots DEF Next

-----------------------------------------------------------------------------
(* The slots' invariant is inductive. *)

\* A row that exists stays, with its Task, and never goes back to the queue.
LEMMA RowsKept ==
  ASSUME StepRows, NEW q \in RunIds, run[q].status # "none"
  PROVE  /\ run'[q].status # "none" /\ run'[q].task = run[q].task
         /\ run[q].status # "pending" => run'[q].status # "pending"
<1>1. RowMove(q)
  BY DEF StepRows
<1> QED BY <1>1 DEF RowMove, SameRun, Settled, TerminalStatuses, Active, ActiveStatuses

\* What a slot is after a step, from what it was.
SlotMove(c, t) ==
    \/ worker'[c][t] = worker[c][t]
    \/ worker'[c][t] = Idle /\ core'[c] = "down"
    \/ Leaves(c, t) /\ core' = core
    \/ Admits(c, t) /\ core' = core
    \/ Advances(c, t) /\ core' = core
    \/ (\E r \in RunIds : Takes(c, t, r)) /\ core' = core
    \/ Signals(c, t) /\ core'[c] \in {core[c], "draining"} /\ (core[c] = "draining" => core'[c] = "draining")
CoreMove(c) ==
    /\ core[c] = "down" => core'[c] = "down"
    /\ core[c] = "draining" /\ core'[c] # "draining" =>
          core'[c] = "down" /\ \A u \in Tasks : worker'[c][u] = Idle

\* Every step moves every single slot, and every process, in one of these ways.
LEMMA SlotMoves ==
  ASSUME IInv, StepSlots, NEW c \in Cores, NEW t \in Tasks
  PROVE  SlotMove(c, t) /\ CoreMove(c)
<1>1. ASSUME NEW d \in Cores, NEW u \in Tasks, OneSlot(d, u) PROVE SlotMove(c, t) /\ CoreMove(c)
  <2>1. CASE d = c /\ u = t
    BY <1>1, <2>1 DEF OneSlot, SlotMove, CoreMove
  <2>2. CASE ~(d = c /\ u = t)
    <3>1. Only(d, u) /\ core' = core
      BY <1>1 DEF OneSlot, Leaves, FreedAt, Admits, Advances, Takes
    <3> QED BY <2>2, <3>1 DEF Only, SlotMove, CoreMove
  <2> QED BY <2>1, <2>2
<1>2. CASE NoSlot
  BY <1>2 DEF NoSlot, SlotMove, CoreMove
<1>3. ASSUME NEW d \in Cores, Stops(d) PROVE SlotMove(c, t) /\ CoreMove(c)
  BY <1>3 DEF Stops, OthersKept, SlotMove, CoreMove
<1>4. ASSUME NEW d \in Cores, Dies(d) PROVE SlotMove(c, t) /\ CoreMove(c)
  BY <1>4 DEF Dies, OthersKept, SlotMove, CoreMove
<1> QED BY <1>1, <1>2, <1>3, <1>4 DEF StepSlots

\* What a runner remembers of its run stays true.
LEMMA RunnerInvKept ==
  ASSUME IInv, SlotInv, StepRows, StepSlots
  PROVE  RunnerInv'
<1> SUFFICES ASSUME NEW c \in Cores, NEW t \in Tasks PROVE RunnerAt(c, t)'
  BY DEF RunnerInv
<1> DEFINE w == worker[c][t]
           n == worker'[c][t]
<1>0. /\ w.pc \in {"idle", "admitted"} => w.run = 0 /\ w.seen = "none"
      /\ w.run \in RunIds => run[w.run].status # "none" /\ run[w.run].task = t
      /\ w.seen # "running"
      /\ w.pc \in {"entered", "provider", "settle"} => w.run \in RunIds /\ run[w.run].status # "pending"
      /\ w.kind = "shutdown" => w.canceled /\ core[c] = "draining"
  BY RunnerFacts DEF SlotInv, RunnerInv, RunnerAt
<1>1. w.run \in RunIds =>
         /\ run'[w.run].status # "none" /\ run'[w.run].task = t
         /\ run[w.run].status # "pending" => run'[w.run].status # "pending"
  BY <1>0, RowsKept
<1>2. CoreMove(c) /\ SlotMove(c, t)
  BY SlotMoves
<1>3. CASE n = w
  <2>1. w.kind = "shutdown" => core'[c] = "draining"
    BY <1>0, <1>2, <1>3 DEF CoreMove, Idle
  <2> QED BY <1>0, <1>1, <1>3, <2>1 DEF RunnerAt
<1>4. CASE n = Idle
  BY <1>4, RunIdsAreNat DEF RunnerAt, Idle
<1>5. CASE Admits(c, t)
  BY <1>5, RunIdsAreNat DEF RunnerAt, Admits
<1>6. ASSUME NEW r \in RunIds, Takes(c, t, r), core' = core PROVE RunnerAt(c, t)'
  <2>1. run'[r].status = "pending" /\ run'[r].task = t
    BY <1>6 DEF Takes, InsertedAt, Durable
  <2>2. n.pc = "reserved" /\ n.run = r /\ n.seen # "running"
    BY <1>0, <1>6 DEF Takes
  <2>3. n.kind = "shutdown" => n.canceled /\ core'[c] = "draining"
    BY <1>0, <1>6 DEF Takes
  <2> QED BY <2>1, <2>2, <2>3 DEF RunnerAt
<1>7. CASE Advances(c, t) /\ core' = core
  <2>1. w.run \in RunIds /\ n.run = w.run /\ Unsignaled(c, t) /\ n.pc \notin {"idle", "admitted"}
    BY <1>7 DEF Advances
  <2>2. n.seen # "running"
    BY <1>0, <1>7 DEF Advances, Carries
  <2>3. n.pc \in {"entered", "provider", "settle"} => run'[w.run].status # "pending"
    BY <1>0, <1>1, <1>7 DEF Advances, EnteredAt
  <2>4. n.kind = "shutdown" => n.canceled /\ core'[c] = "draining"
    BY <1>0, <1>7, <2>1 DEF Unsignaled
  <2> QED BY <1>1, <2>1, <2>2, <2>3, <2>4 DEF RunnerAt
<1>8. CASE Signals(c, t) /\ (core[c] = "draining" => core'[c] = "draining")
  <2>1. n.kind = "shutdown" => n.canceled /\ core'[c] = "draining"
    BY <1>0, <1>8 DEF Signals
  <2>2. n.pc = w.pc /\ n.run = w.run /\ n.seen = w.seen
    BY <1>8 DEF Signals, Carries
  <2> QED BY <1>0, <1>1, <2>1, <2>2 DEF RunnerAt
<1> QED BY <1>2, <1>3, <1>4, <1>5, <1>6, <1>7, <1>8 DEF SlotMove, Leaves, FreedAt

\* A queued durable run in the name of a living core stays in its runner's hands.
LEMMA QueueInvKept ==
  ASSUME IInv, SlotInv, StepRows, StepSlots, RunnerInv'
  PROVE  QueueInv'
<1> SUFFICES ASSUME NEW r \in RunIds, NEW c \in Cores, Durable(r)', run'[r].owner = c, core'[c] # "down"
             PROVE  /\ worker'[c][run'[r].task].run = r
                    /\ worker'[c][run'[r].task].pc \notin {"reserved", "rejected"}
  BY DEF QueueInv
<1> DEFINE t == run[r].task
<1>0. run'[r].status = "pending" /\ run'[r].trigger \in {"auto", "retry"} /\ c # NoCore
  BY ConstantsAssumption DEF Durable
<1>1. RowMove(r) /\ t \in Tasks
  BY Tables DEF StepRows, RunRow
<1>2. CASE Durable(r) /\ run'[r].task = t /\ run[r].owner = c
  <2> DEFINE w == worker[c][t]
             n == worker'[c][t]
  <2>1. SlotMove(c, t) /\ core[c] # "down"
    BY <1>1, SlotMoves DEF CoreMove
  <2>2. w.run = r /\ w.pc \notin {"reserved", "rejected"}
    BY <1>2, <2>1 DEF SlotInv, QueueInv
  <2>3. w.pc \notin {"idle", "admitted"}
    BY <1>1, <2>2, RunIdsAreNat DEF SlotInv, RunnerInv, RunnerAt
  <2>4. ~Leaves(c, t) /\ ~Admits(c, t) /\ \A q \in RunIds : ~Takes(c, t, q)
    BY <1>0, <2>2, <2>3 DEF Leaves, Abandoned, Admits, Takes
  <2>5. Advances(c, t) => n.run = r /\ n.pc \notin {"reserved", "rejected"}
    BY <2>2 DEF Advances
  <2>6. Signals(c, t) => n.run = r /\ n.pc \notin {"reserved", "rejected"}
    BY <2>2 DEF Signals, Carries
  <2> QED BY <1>2, <2>1, <2>2, <2>4, <2>5, <2>6 DEF SlotMove
<1>3. CASE SameRun(r) /\ run'[r].status = run[r].status /\ \E d \in Cores : Claimed(d, r)
  <2>1. Claimed(c, r) /\ Durable(r)
    BY <1>0, <1>3 DEF Claimed, Durable, SameRun
  <2>2. PICK u \in Tasks : worker'[c][u].run = r /\ worker'[c][u].pc = "claimed"
    BY <2>1 DEF Claimed
  <2>3. run'[r].task = u
    BY <2>2 DEF RunnerInv, RunnerAt
  <2> QED BY <2>2, <2>3
<1>4. run'[r] = run[r] => Durable(r) /\ run'[r].task = t /\ run[r].owner = c
  BY <1>0 DEF Durable
<1> QED BY <1>0, <1>1, <1>2, <1>3, <1>4 DEF RowMove, SameRun, Settled, TerminalStatuses, Durable

\* No step lets two rivals of one core hold the strategy lock together.
LEMMA LockInvKept ==
  ASSUME IInv, SlotInv, StepSlots
  PROVE  LockInv'
<1>1. ASSUME NEW c \in Cores, NEW t \in Tasks, HoldsStrategyLock(c, t)', ~HoldsStrategyLock(c, t)
      PROVE  Only(c, t) /\ \A u \in Tasks : <<t, u>> \in Rivals => ~HoldsStrategyLock(c, u)
  <2>1. SlotMove(c, t)
    BY SlotMoves
  <2>2. worker'[c][t].pc \notin {"idle", "admitted", "reserved", worker[c][t].pc}
    BY <1>1 DEF HoldsStrategyLock
  <2>3. Idle.pc = "idle"
    BY DEF Idle
  <2>4. Advances(c, t)
    BY <2>1, <2>2, <2>3 DEF SlotMove, Leaves, FreedAt, Admits, Takes, Signals
  <2> QED BY <1>1, <2>4 DEF Advances, HoldsStrategyLock
<1> SUFFICES ASSUME NEW c \in Cores, NEW t \in Tasks, NEW u \in Tasks, <<t, u>> \in Rivals,
                    HoldsStrategyLock(c, t)', HoldsStrategyLock(c, u)'
             PROVE  FALSE
  BY DEF LockInv
<1>2. t # u /\ <<u, t>> \in Rivals
  BY RivalsAssumption
<1>3. CASE HoldsStrategyLock(c, t) /\ HoldsStrategyLock(c, u)
  BY <1>3 DEF SlotInv, LockInv
<1>4. CASE ~HoldsStrategyLock(c, t)
  BY <1>1, <1>2, <1>4 DEF Only, HoldsStrategyLock
<1>5. CASE ~HoldsStrategyLock(c, u)
  BY <1>1, <1>2, <1>5 DEF Only, HoldsStrategyLock
<1> QED BY <1>3, <1>4, <1>5

\* The slots' invariant holds in every reachable state.
LEMMA SlotsInductive == Spec => []SlotInv
<1>1. Init => SlotInv
  <2>1. ASSUME Init, NEW c \in Cores, NEW t \in Tasks PROVE worker[c][t] = Idle
    BY <2>1 DEF Init
  <2>2. ASSUME Init, NEW r \in RunIds PROVE run[r].status = "none"
    BY <2>2 DEF Init, NoRun
  <2>3. Init => RunnerInv
    BY <2>1, RunIdsAreNat DEF RunnerInv, RunnerAt, Idle
  <2>4. Init => QueueInv
    BY <2>2 DEF QueueInv, Durable
  <2>5. Init => LockInv
    BY <2>1 DEF LockInv, HoldsStrategyLock, Idle
  <2> QED BY <2>3, <2>4, <2>5 DEF SlotInv
<1>2. IInv /\ SlotInv /\ [Next]_vars => SlotInv'
  <2>1. ASSUME IInv, SlotInv, Next PROVE SlotInv'
    BY <2>1, NextRows, NextSlots, RunnerInvKept, QueueInvKept, LockInvKept DEF SlotInv
  <2>2. ASSUME SlotInv, UNCHANGED vars PROVE SlotInv'
    BY <2>2 DEF SlotInv, RunnerInv, RunnerAt, QueueInv, Durable, LockInv, HoldsStrategyLock, vars
  <2> QED BY <2>1, <2>2
<1> QED BY <1>1, <1>2, Inductive, PTL DEF Spec

\* No core executes two tasks of one node at once, however loads and entries of
\* the two runners interleave with takeovers, cancellations and crashes.
THEOREM RivalsAreExclusive == Spec => []RivalsExclusive
<1>1. SlotInv => RivalsExclusive
  BY DEF SlotInv, LockInv, RivalsExclusive, HoldsStrategyLock
<1> QED BY <1>1, SlotsInductive, PTL

\* A runner that was told to stop hands the durable run it holds back to the
\* queue: an orderly stop loses no automation run and no retry, whatever the
\* other cores do to the row meanwhile.
THEOREM ShutdownHandsBack == Spec => ShutdownReleases
<1> DEFINE A(c, t) ==
             LET r == worker[c][t].run IN
             /\ worker[c][t].kind = "shutdown" /\ worker[c][t].pc \notin TurnedDown /\ r # 0 /\ Durable(r)
             /\ worker'[c][t].pc = "idle" /\ core'[c] # "down"
             => run'[r].status = "pending" /\ run'[r].owner # c
<1>1. ASSUME IInv, SlotInv, Next, NEW c \in Cores, NEW t \in Tasks PROVE A(c, t)
  <2> DEFINE w == worker[c][t]
             r == worker[c][t].run
  <2> SUFFICES ASSUME w.kind = "shutdown", w.pc \notin TurnedDown, r # 0, Durable(r),
                      worker'[c][t].pc = "idle", core'[c] # "down"
               PROVE  run'[r].status = "pending" /\ run'[r].owner # c
    OBVIOUS
  <2>1. r \in RunIds /\ w.pc \in WorkerPcs
    BY <1>1, Tables, ConstantsAssumption DEF Runner, RunIds
  <2>2. w.canceled /\ core[c] = "draining" /\ w.pc \notin {"idle", "admitted", "entered", "provider", "settle"}
    BY <1>1 DEF SlotInv, RunnerInv, RunnerAt, Durable
  <2>3. w.pc \in {"reserved", "claimed", "loaded", "limited"}
    BY <2>1, <2>2 DEF WorkerPcs, TurnedDown
  <2>4. SlotMove(c, t)
    BY <1>1, NextRows, NextSlots, SlotMoves
  <2>5. Leaves(c, t)
    BY <2>2, <2>4 DEF SlotMove, Admits, Takes, Advances, Signals
  <2>6. Launch(c, t) \/ Abort(c, t)
    <3>1. RunnerStep(c, t)
      BY <2>2, <2>5 DEF Leaves, Heartbeat, Beating, DeadlinePasses
    <3> QED BY <2>2, <2>3, <3>1
            DEF RunnerStep, Reserve, FailUnclaimed, NodeRefuses, Load, MayLoad, Enter, EnterPaused, EnterRefused,
                EntryOpen, FailRefused, CancelEntered, PreProviderFail, BeginProvider, ProviderReturns,
                Settle, Recover, At
  <2>7. run'[r].status = "pending"
    <3>1. CASE Launch(c, t)
      BY <2>2, <3>1 DEF Launch, Durable, rows
    <3>2. CASE Abort(c, t) /\ run' = WithOwner(r, NoCore, FALSE)
      <4>1. OwnedAt(r, NoCore, FALSE)
        BY <1>1, <2>1, <3>2, RowFacts
      <4> QED BY <4>1 DEF OwnedAt, Durable
    <3>3. CASE Abort(c, t) /\ run' = run
      BY <3>3 DEF Durable
    <3> QED BY <2>6, <3>1, <3>2, <3>3 DEF Abort, GiveUp, GivenUp
  <2>8. run'[r].trigger = run[r].trigger
    <3>1. RowMove(r)
      BY <1>1, <2>1, NextRows DEF StepRows
    <3> QED BY <3>1 DEF RowMove, SameRun, Durable
  <2> QED BY <2>1, <2>5, <2>7, <2>8 DEF Leaves, Abandoned, Durable
<1>2. IInv /\ SlotInv /\ [Next]_vars => [\A c \in Cores, t \in Tasks : A(c, t)]_vars
  BY <1>1
<1> QED BY <1>2, Inductive, SlotsInductive, PTL DEF Spec, ShutdownReleases
=============================================================================
