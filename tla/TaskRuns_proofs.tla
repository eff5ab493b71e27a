--------------------------- MODULE TaskRuns_proofs ---------------------------
(***************************************************************************)
(* Proofs about TaskRuns, for any number of cores, tasks, runs, retries    *)
(* and attempts and for any set of faults.                                 *)
(*                                                                         *)
(* The argument rests on what one step may do to the TaskRun table (Keeps, *)
(* or Inserts one row) and to the effect table (EffectsKeep).  Each action *)
(* is shown to be such a step; the invariants follow from the step alone.  *)
(***************************************************************************)
EXTENDS TaskRuns, TLAPS

\* What a runner's record must satisfy beyond its type for its next step to
\* keep the tables well formed.
GoodRunner ==
    {w \in Runner :
        /\ w.pc \notin {"idle", "admitted"} => w.run \in RunIds
        /\ w.pc \in {"loaded", "entered"} => w.seen \in Statuses
        /\ w.pc = "settle" => w.outcome \in Outcomes}
GoodClaim == {s \in Claim : s # NoClaim => s.run \in RunIds /\ s.seen \in ActiveStatuses}

LocalOK ==
    /\ worker \in [Cores -> [Tasks -> GoodRunner]]
    /\ sweep \in [Cores -> GoodClaim]

\* A retry effect belongs to a failed run.
EffectOfFailed == \A r \in RunIds : effect[r].status # "none" => run[r].status = "failed"

\* The inductive invariant.
IInv == TypeOK /\ LocalOK /\ EffectOfFailed /\ RetryOnce /\ OneActive

\* A step that inserts no run: identities stay, and a run that is not active is
\* not touched at all.
Keeps ==
    \A q \in RunIds :
       /\ run'[q].task = run[q].task
       /\ run'[q].pred = run[q].pred
       /\ ~Active(q) => run'[q] = run[q]

\* No effect disappears, a spent one stays spent, a new one is of a failed run.
EffectsKeep ==
    \A q \in RunIds :
       /\ effect[q].status = "succeeded" => effect'[q].status = "succeeded"
       /\ effect'[q].status # "none" /\ effect[q].status = "none" => run'[q].status = "failed"

\* A step that inserts run q: a first attempt, or the retry of a run whose
\* effect it spends.
Inserts(q) ==
    /\ run[q].status = "none"
    /\ run'[q].status = "pending"
    /\ \A x \in RunIds \ {q} : run'[x] = run[x]
    /\ "auto" \notin Faults => \A x \in RunIds : Active(x) => run[x].task # run'[q].task
    /\ \/ run'[q].pred = 0 /\ effect' = effect
       \/ /\ run'[q].pred \in RunIds
          /\ effect[run'[q].pred].status = "running"
          /\ effect'[run'[q].pred].status = "succeeded"
          /\ \A x \in RunIds \ {run'[q].pred} : effect'[x] = effect[x]
          /\ run[run'[q].pred].task = run'[q].task

GoodStep == (Keeps /\ EffectsKeep) \/ \E q \in RunIds : Inserts(q)

-----------------------------------------------------------------------------
(* The sets the tables are drawn from. *)

\* Identifiers of task_runs are positive and bounded; 0 stands for "no run".
LEMMA RunIdsAreNat == RunIds \subseteq Nat \ {0} /\ RunIds \subseteq 0..MaxRuns
  BY ConstantsAssumption DEF RunIds

\* A step of the tables' shape preserves the three invariants about them.
LEMMA GoodStepKeepsInvariants ==
  ASSUME IInv, TypeOK', GoodStep
  PROVE  EffectOfFailed' /\ RetryOnce' /\ OneActive'
<1> USE RunIdsAreNat DEF IInv
<1>1. CASE Keeps /\ EffectsKeep
  <2>1. EffectOfFailed'
    BY <1>1 DEF EffectOfFailed, Keeps, EffectsKeep, Active, ActiveStatuses
  <2>2. ASSUME NEW r \in RunIds, run[r].pred # 0
        PROVE  run[r].pred \in RunIds
    BY <2>2, ConstantsAssumption DEF TypeOK, RunRow, RunIds
  <2>3. RetryOnce'
    <3>1. \A x \in RunIds : run'[x].pred = run[x].pred /\ run'[x].task = run[x].task
      BY <1>1 DEF Keeps
    <3>2. \A x \in RunIds : run[x].status = "failed" => run'[x].status = "failed"
      BY <1>1 DEF Keeps, Active, ActiveStatuses
    <3>3. ASSUME NEW x \in RunIds, NEW y \in RunIds, run'[x].pred # 0, run'[x].pred = run'[y].pred
          PROVE  x = y
      <4>1. run[x].pred # 0 /\ run[x].pred = run[y].pred
        BY <3>1, <3>3
      <4> QED BY <4>1 DEF RetryOnce
    <3>4. ASSUME NEW x \in RunIds, run'[x].pred # 0
          PROVE  /\ effect'[run'[x].pred].status = "succeeded"
                 /\ run'[run'[x].pred].status = "failed"
                 /\ run'[run'[x].pred].task = run'[x].task
      <4>1. run[x].pred \in RunIds /\ run'[x].pred = run[x].pred
        BY <2>2, <3>1, <3>4
      <4>2. /\ effect[run[x].pred].status = "succeeded"
            /\ run[run[x].pred].status = "failed"
            /\ run[run[x].pred].task = run[x].task
        BY <3>1, <3>4 DEF RetryOnce
      <4> QED BY <1>1, <3>1, <3>2, <4>1, <4>2 DEF EffectsKeep
    <3> QED BY <3>3, <3>4 DEF RetryOnce
  <2>4. OneActive'
    BY <1>1 DEF OneActive, Keeps, Active, ActiveStatuses
  <2> QED BY <2>1, <2>3, <2>4
<1>2. ASSUME NEW q \in RunIds, Inserts(q) PROVE EffectOfFailed' /\ RetryOnce' /\ OneActive'
  <2>1. ASSUME NEW r \in RunIds, run[r].pred # 0
        PROVE  run[r].pred \in RunIds
    BY <2>1, ConstantsAssumption DEF TypeOK, RunRow, RunIds
  <2>2. effect[q].status = "none"
    BY <1>2 DEF EffectOfFailed, Inserts
  <2>3. EffectOfFailed'
    BY <1>2, <2>2 DEF EffectOfFailed, Inserts
  <2>4. RetryOnce'
    <3>1. \A x \in RunIds : effect[x].status = "succeeded" => effect'[x].status = "succeeded"
      BY <1>2 DEF Inserts
    <3>2. \A x \in RunIds \ {q} : run'[x].pred # 0 =>
             /\ run[x].pred \in RunIds /\ run[x].pred # q
             /\ effect[run[x].pred].status = "succeeded"
             /\ run[run[x].pred].status = "failed"
             /\ run[run[x].pred].task = run[x].task
      <4> SUFFICES ASSUME NEW x \in RunIds \ {q}, run'[x].pred # 0
                   PROVE  /\ run[x].pred \in RunIds /\ run[x].pred # q
                          /\ effect[run[x].pred].status = "succeeded"
                          /\ run[run[x].pred].status = "failed"
                          /\ run[run[x].pred].task = run[x].task
        OBVIOUS
      <4>1. run'[x] = run[x] /\ run[q].status = "none"
        BY <1>2 DEF Inserts
      <4>2. run[x].pred \in RunIds
        BY <2>1, <4>1
      <4>3. /\ effect[run[x].pred].status = "succeeded"
            /\ run[run[x].pred].status = "failed"
            /\ run[run[x].pred].task = run[x].task
        BY <4>1 DEF RetryOnce
      <4> QED BY <4>1, <4>2, <4>3
    <3>3. run'[q].pred # 0 =>
             /\ run'[q].pred \in RunIds /\ run'[q].pred # q
             /\ effect[run'[q].pred].status = "running"
             /\ effect'[run'[q].pred].status = "succeeded"
             /\ run[run'[q].pred].status = "failed"
             /\ run[run'[q].pred].task = run'[q].task
      BY <1>2, <2>2 DEF Inserts, EffectOfFailed
    <3>4. \A x, y \in RunIds : run'[x].pred # 0 /\ run'[x].pred = run'[y].pred => x = y
      BY <1>2, <3>2, <3>3 DEF Inserts, RetryOnce
    <3>5. ASSUME NEW x \in RunIds, run'[x].pred # 0
          PROVE  /\ effect'[run'[x].pred].status = "succeeded"
                 /\ run'[run'[x].pred].status = "failed"
                 /\ run'[run'[x].pred].task = run'[x].task
      <4>1. CASE x = q
        BY <1>2, <3>3, <3>5, <4>1 DEF Inserts
      <4>2. CASE x # q
        <5>1. /\ run'[x] = run[x] /\ run[x].pred \in RunIds \ {q}
              /\ effect[run[x].pred].status = "succeeded"
              /\ run[run[x].pred].status = "failed"
              /\ run[run[x].pred].task = run[x].task
          BY <1>2, <3>2, <3>5, <4>2 DEF Inserts
        <5>2. run'[run[x].pred] = run[run[x].pred]
          BY <1>2, <5>1 DEF Inserts
        <5> QED BY <3>1, <5>1, <5>2
      <4> QED BY <4>1, <4>2
    <3> QED BY <3>4, <3>5 DEF RetryOnce
  <2>5. OneActive'
    BY <1>2 DEF OneActive, Inserts, Active, ActiveStatuses
  <2> QED BY <2>3, <2>4, <2>5
<1> QED BY <1>1, <1>2 DEF GoodStep

-----------------------------------------------------------------------------
(* What the row updates and the runner's own updates preserve. *)

RowsOK ==
    /\ task' \in [Tasks -> TaskRow]
    /\ run' \in [RunIds -> RunRow]
    /\ effect' \in [RunIds -> EffectRow]
    /\ GoodStep
WorkersOK == worker' \in [Cores -> [Tasks -> GoodRunner]]
CouriersOK == courier' \in [Cores -> [RunIds -> {"none", "claimed", "failing"}]]
SweepsOK == sweep' \in [Cores -> GoodClaim]
RequestsOK == api' \in [Cores -> [Tasks -> Request]]
CoresOK == core' \in [Cores -> {"up", "sealed", "draining", "down"}]
PolicyOK == policy' \in [enabled : BOOLEAN, quota : 1..MaxConcurrent]
StepOK == RowsOK /\ WorkersOK /\ CouriersOK /\ SweepsOK /\ RequestsOK /\ CoresOK /\ PolicyOK

\* Tables that a step leaves alone stay as they were.
LEMMA UnchangedOK ==
  ASSUME IInv
  PROVE  /\ UNCHANGED rows => RowsOK
         /\ UNCHANGED worker => WorkersOK
         /\ UNCHANGED courier => CouriersOK
         /\ UNCHANGED sweep => SweepsOK
         /\ UNCHANGED api => RequestsOK
         /\ UNCHANGED core => CoresOK
         /\ UNCHANGED policy => PolicyOK
  BY DEF IInv, TypeOK, LocalOK, rows, RowsOK, WorkersOK, CouriersOK, SweepsOK, RequestsOK,
         CoresOK, PolicyOK, GoodStep, Keeps, EffectsKeep

\* A step of that shape preserves the invariant.
LEMMA StepOKKeepsIInv ==
  ASSUME IInv, StepOK
  PROVE  IInv'
<1>1. GoodRunner \subseteq Runner /\ GoodClaim \subseteq Claim
  BY DEF GoodRunner, GoodClaim
<1>2. TypeOK'
  BY <1>1 DEF StepOK, RowsOK, WorkersOK, CouriersOK, SweepsOK, RequestsOK, CoresOK, PolicyOK, TypeOK
<1>3. LocalOK'
  BY DEF StepOK, WorkersOK, SweepsOK, LocalOK
<1>4. GoodStep
  BY DEF StepOK, RowsOK
<1> QED BY <1>2, <1>3, <1>4, GoodStepKeepsInvariants DEF IInv

\* The records a core puts into an empty slot.
LEMMA IdleOK ==
  /\ Idle \in GoodRunner
  /\ [Idle EXCEPT !.pc = "admitted"] \in GoodRunner
  /\ \A r \in RunIds : [Idle EXCEPT !.pc = "reserved", !.run = r] \in GoodRunner
<1>1. Idle \in Runner /\ Idle.pc = "idle"
  BY ConstantsAssumption DEF Idle, Runner, WorkerPcs
<1> QED BY <1>1, RunIdsAreNat DEF GoodRunner, Runner, WorkerPcs

\* A runner's slot takes any well-formed record.
LEMMA SlotOK ==
  ASSUME IInv, NEW c \in Cores, NEW t \in Tasks
  PROVE  /\ worker[c][t] \in GoodRunner
         /\ \A w \in GoodRunner : worker' = [worker EXCEPT ![c][t] = w] => WorkersOK
         /\ worker' = Freed(c, t) => WorkersOK
         /\ \A pc \in WorkerPcs \ {"settle"} :
               /\ worker[c][t].run \in RunIds
               /\ pc \in {"loaded", "entered"} => worker[c][t].seen \in Statuses
               /\ worker' = Moved(c, t, pc)
               => WorkersOK
<1>1. worker[c][t] \in GoodRunner /\ worker \in [Cores -> [Tasks -> GoodRunner]]
  BY DEF IInv, LocalOK
<1>2. Idle \in GoodRunner
  BY IdleOK
<1>3. ASSUME NEW w \in GoodRunner, worker' = [worker EXCEPT ![c][t] = w]
      PROVE  WorkersOK
  BY <1>1, <1>3 DEF WorkersOK
<1>4. worker' = Freed(c, t) => WorkersOK
  BY <1>2, <1>3 DEF Freed
<1>5. ASSUME NEW pc \in WorkerPcs \ {"settle"}, worker[c][t].run \in RunIds,
             pc \in {"loaded", "entered"} => worker[c][t].seen \in Statuses,
             worker' = Moved(c, t, pc)
      PROVE  WorkersOK
  <2>1. [worker[c][t] EXCEPT !.pc = pc] \in GoodRunner
    BY <1>1, <1>5 DEF GoodRunner, Runner
  <2>2. worker' = [worker EXCEPT ![c][t] = [worker[c][t] EXCEPT !.pc = pc]]
    BY <1>1, <1>5 DEF Moved
  <2> QED BY <1>3, <2>1, <2>2
<1> QED BY <1>1, <1>3, <1>4, <1>5

\* The rows of closed runs, and of the others.
LEMMA ClosedRows ==
  ASSUME run \in [RunIds -> RunRow], NEW R, NEW s \in Statuses
  PROVE  /\ Closed(R, s) \in [RunIds -> RunRow]
         /\ \A q \in RunIds :
               /\ Closed(R, s)[q].task = run[q].task /\ Closed(R, s)[q].pred = run[q].pred
               /\ q \in R => Closed(R, s)[q].status = s
               /\ q \notin R => Closed(R, s)[q] = run[q]
<1> DEFINE row(q) == [run[q] EXCEPT !.status = s, !.owner = NoCore, !.lease = FALSE]
<1>1. ASSUME NEW q \in RunIds
      PROVE  /\ row(q) \in RunRow
             /\ row(q).task = run[q].task /\ row(q).pred = run[q].pred /\ row(q).status = s
  <2>1. run[q] \in RunRow
    OBVIOUS
  <2> QED BY <2>1 DEF RunRow
<1>2. Closed(R, s) = [q \in RunIds |-> IF q \in R THEN row(q) ELSE run[q]]
  BY DEF Closed
<1> HIDE DEF row
<1> QED BY <1>1, <1>2

\* Closing active runs, with or without a change of the Task.
LEMMA ClosedOK ==
  ASSUME IInv, NEW R, \A r \in RunIds \cap R : Active(r), NEW s \in Statuses,
         run' = Closed(R, s), task' \in [Tasks -> TaskRow], effect' = effect
  PROVE  RowsOK
<1>1. run \in [RunIds -> RunRow] /\ effect \in [RunIds -> EffectRow]
  BY DEF IInv, TypeOK
<1>3. run' \in [RunIds -> RunRow]
  BY <1>1, ClosedRows
<1>4. Keeps
  BY <1>1, ClosedRows DEF Keeps
<1>5. EffectsKeep
  BY DEF EffectsKeep
<1> QED BY <1>1, <1>3, <1>4, <1>5 DEF RowsOK, GoodStep

\* Changing the owner of an active run.
LEMMA WithOwnerOK ==
  ASSUME IInv, NEW r \in RunIds, Active(r), NEW c \in Cores \cup {NoCore}, NEW b \in BOOLEAN,
         run' = WithOwner(r, c, b), UNCHANGED <<task, effect>>
  PROVE  RowsOK
<1> DEFINE row == [run[r] EXCEPT !.owner = c, !.lease = b]
<1>1. run \in [RunIds -> RunRow]
  BY DEF IInv, TypeOK
<1>2. row \in RunRow /\ row.task = run[r].task /\ row.pred = run[r].pred
  BY <1>1 DEF RunRow
<1>3. run' = [run EXCEPT ![r] = row]
  BY <1>1 DEF WithOwner
<1> HIDE DEF row
<1>4. run' \in [RunIds -> RunRow]
  BY <1>1, <1>2, <1>3
<1>5. Keeps
  BY <1>1, <1>2, <1>3 DEF Keeps
<1> QED BY <1>4, <1>5 DEF RowsOK, GoodStep, EffectsKeep, IInv, TypeOK

\* Changing the status of a Task.
LEMMA WithStatusType ==
  ASSUME IInv, NEW t \in Tasks, NEW s \in Statuses
  PROVE  WithStatus(t, s) \in [Tasks -> TaskRow] /\ task \in [Tasks -> TaskRow]
  BY DEF IInv, TypeOK, WithStatus, TaskRow

\* Publishing the retry effect of a run that the step leaves failed.
LEMMA PublishedType ==
  ASSUME IInv, NEW r \in RunIds
  PROVE  /\ Published(r) \in [RunIds -> EffectRow]
         /\ \A q \in RunIds : effect[q].status = "succeeded" => Published(r)[q] = effect[q]
         /\ \A q \in RunIds \ {r} : Published(r)[q] = effect[q]
<1> DEFINE row == [effect[r] EXCEPT !.status = "pending"]
<1>1. effect \in [RunIds -> EffectRow]
  BY DEF IInv, TypeOK
<1>2. row \in EffectRow
  BY <1>1 DEF EffectRow
<1>3. Published(r) = IF effect[r].status = "none" THEN [effect EXCEPT ![r] = row] ELSE effect
  BY <1>1 DEF Published
<1> HIDE DEF row
<1> QED BY <1>1, <1>2, <1>3

\* The terminal transaction of an active run.
LEMMA TerminalizeOK ==
  ASSUME IInv, NEW r \in RunIds, Active(r), NEW target \in Statuses, NEW n \in 0..MaxRetries,
         NEW to \in Statuses, Terminalize(r, target, n, to)
  PROVE  RowsOK
<1>1. run \in [RunIds -> RunRow] /\ effect \in [RunIds -> EffectRow] /\ task \in [Tasks -> TaskRow]
  BY DEF IInv, TypeOK
<1>2. run' = Closed({r}, to)
  BY DEF Terminalize
<1>3. task' \in [Tasks -> TaskRow]
  <2>1. run[r].task \in Tasks
    BY <1>1 DEF RunRow
  <2> QED BY <1>1, <2>1 DEF Terminalize, TaskRow
<1>4. run' \in [RunIds -> RunRow]
  BY <1>1, <1>2, ClosedRows
<1>5. Keeps /\ run'[r].status = to
  BY <1>1, <1>2, ClosedRows DEF Keeps
<1>6. CASE effect' = effect
  BY <1>1, <1>3, <1>4, <1>5, <1>6 DEF RowsOK, GoodStep, EffectsKeep
<1>7. CASE effect' = Published(r) /\ to = "failed"
  BY <1>1, <1>3, <1>4, <1>5, <1>7, PublishedType DEF RowsOK, GoodStep, EffectsKeep
<1> QED BY <1>6, <1>7 DEF Terminalize

\* The rejection of an active run.
LEMMA RejectOK ==
  ASSUME IInv, NEW r \in RunIds, Active(r), Reject(r)
  PROVE  RowsOK
<1> DEFINE t == run[r].task
           next == NextAfterFailure("retrying", task[t].retries, MaxRetries)
<1>1. run \in [RunIds -> RunRow] /\ effect \in [RunIds -> EffectRow] /\ task \in [Tasks -> TaskRow]
  BY DEF IInv, TypeOK
<1>2. t \in Tasks
  BY <1>1 DEF RunRow
<1>3. next.status \in Statuses /\ next.count \in 0..MaxRetries
  BY <1>1, <1>2, ConstantsAssumption
     DEF NextAfterFailure, TaskRow, Statuses, ActiveStatuses, TerminalStatuses
<1>4. task' \in [Tasks -> TaskRow]
  <2>1. task' = task \/ task' = [task EXCEPT ![t].status = next.status, ![t].retries = next.count]
    BY DEF Reject
  <2> HIDE DEF next, t
  <2> QED BY <1>1, <1>2, <1>3, <2>1 DEF TaskRow
<1>5. run' = Closed({r}, "failed")
  BY DEF Reject
<1>6. "failed" \in Statuses
  BY DEF Statuses, TerminalStatuses
<1>7. run' \in [RunIds -> RunRow] /\ Keeps /\ run'[r].status = "failed"
  BY <1>1, <1>5, <1>6, ClosedRows DEF Keeps
<1>8. effect' = effect \/ effect' = Published(r)
  BY DEF Reject
<1> QED BY <1>1, <1>4, <1>7, <1>8, PublishedType DEF RowsOK, GoodStep, EffectsKeep

\* The insertion of a run: nothing but the new row, and the effect it spends.
LEMMA InsertOK ==
  ASSUME IInv, NEW q \in RunIds, Fresh(q), NEW t \in Tasks,
         NEW trigger \in {"manual", "auto", "retry"}, NEW b \in BOOLEAN,
         NEW p \in 0..MaxRuns, run' = Insert(q, t, trigger, p, b),
         "auto" \notin Faults => \A x \in RunsOf(t) : ~Active(x),
         task' \in [Tasks -> TaskRow],
         \/ p = 0 /\ effect' = effect
         \/ p \in RunIds /\ effect[p].status = "running" /\ effect' = Succeeded(p) /\ run[p].task = t
  PROVE  RowsOK
<1>1. run \in [RunIds -> RunRow] /\ effect \in [RunIds -> EffectRow]
  BY DEF IInv, TypeOK
<1>2. run' \in [RunIds -> RunRow]
  BY <1>1, ConstantsAssumption DEF Insert, RunRow, Statuses, ActiveStatuses
<1>3. run'[q].status = "pending" /\ run'[q].pred = p /\ run'[q].task = t
      /\ \A x \in RunIds \ {q} : run'[x] = run[x]
  BY <1>1 DEF Insert
<1>4. "auto" \notin Faults => \A x \in RunIds : Active(x) => run[x].task # run'[q].task
  BY <1>3 DEF RunsOf, Active, ActiveStatuses
<1>5. effect' \in [RunIds -> EffectRow]
  BY <1>1 DEF Succeeded, EffectRow
<1>6. run[q].status = "none"
  BY DEF Fresh
<1>7. CASE p = 0 /\ effect' = effect
  BY <1>2, <1>3, <1>4, <1>5, <1>6, <1>7 DEF Inserts, GoodStep, RowsOK
<1>8. CASE p \in RunIds /\ effect[p].status = "running" /\ effect' = Succeeded(p) /\ run[p].task = t
  <2>1. effect'[p].status = "succeeded" /\ \A x \in RunIds \ {p} : effect'[x] = effect[x]
    BY <1>1, <1>8 DEF Succeeded, EffectRow
  <2>2. Inserts(q)
    BY <1>3, <1>4, <1>6, <1>8, <2>1 DEF Inserts
  <2> QED BY <1>2, <1>5, <2>2 DEF GoodStep, RowsOK
<1> QED BY <1>7, <1>8

\* A runner's attempt to settle its run.
LEMMA ConcludeOK ==
  ASSUME IInv, NEW c \in Cores, NEW t \in Tasks, worker[c][t].run \in RunIds,
         NEW owners, NEW expected \in SUBSET ActiveStatuses, NEW target \in Statuses,
         NEW n \in 0..MaxRetries, NEW to \in Statuses,
         Conclude(c, t, owners, expected, target, n, to)
  PROVE  RowsOK /\ WorkersOK
<1>1. WorkersOK
  BY SlotOK DEF Conclude, WorkerPcs
<1>2. CASE UNCHANGED rows
  BY <1>1, <1>2, UnchangedOK
<1>3. CASE TerminalOK(owners, worker[c][t].run, expected, target)
           /\ Terminalize(worker[c][t].run, target, n, to)
  BY <1>1, <1>3, TerminalizeOK DEF TerminalOK, Active
<1> QED BY <1>1, <1>2, <1>3 DEF Conclude

\* A runner that gives its pending run up.
LEMMA GiveUpOK ==
  ASSUME IInv, NEW c \in Cores, NEW t \in Tasks, worker[c][t].run \in RunIds,
         NEW onError, worker' = onError => WorkersOK, GiveUp(c, t, onError)
  PROVE  RowsOK /\ WorkersOK
<1> DEFINE r == worker[c][t].run
<1>1. WorkersOK
  BY SlotOK DEF GiveUp
<1>2. CASE run' = run
  BY <1>1, <1>2, UnchangedOK DEF GiveUp, rows
<1>3. CASE run' = WithOwner(r, NoCore, FALSE) /\ run[r].status = "pending"
  <2>1. Active(r) /\ UNCHANGED <<task, effect>>
    BY <1>3 DEF GiveUp, Active, ActiveStatuses
  <2> QED BY <1>1, <1>3, <2>1, WithOwnerOK
<1>4. CASE run' = Closed({r}, "canceled") /\ run[r].status = "pending"
  <2>1. Active(r) /\ task' = task /\ effect' = effect
    BY <1>4 DEF GiveUp, Active, ActiveStatuses
  <2> QED BY <1>1, <1>4, <2>1, ClosedOK DEF IInv, TypeOK, Statuses, TerminalStatuses
<1> QED BY <1>1, <1>2, <1>3, <1>4 DEF GiveUp, GivenUp

-----------------------------------------------------------------------------
(* One lemma per group of actions, one step per action. *)

\* What a runner's record says about its run.
LEMMA RunnerFacts ==
  ASSUME IInv, NEW c \in Cores, NEW t \in Tasks
  PROVE  /\ worker[c][t].pc \notin {"idle", "admitted"} => worker[c][t].run \in RunIds
         /\ worker[c][t].pc \in {"loaded", "entered"} => worker[c][t].seen \in Statuses
         /\ worker[c][t].pc = "settle" => worker[c][t].outcome \in Outcomes
         /\ worker[c][t].tries \in 0..MaxRetries
         /\ task[t].status \in Statuses
         /\ task[t].retries \in 0..MaxRetries
         /\ \A r \in RunIds : run[r].task \in Tasks /\ run[r].status \in Statuses \cup {"none"}
  BY DEF IInv, LocalOK, GoodRunner, Runner, TypeOK, TaskRow, RunRow

\* The steps of a runner that only move its own record.
LEMMA RunnerMoves ==
  ASSUME IInv, NEW c \in Cores, NEW t \in Tasks,
         \/ Load(c, t) \/ EnterRefused(c, t) \/ BeginProvider(c, t) \/ ProviderReturns(c, t)
  PROVE  StepOK
<1> DEFINE w == worker[c][t]
<1>1. w \in GoodRunner /\ worker \in [Cores -> [Tasks -> GoodRunner]]
  BY DEF IInv, LocalOK
<1>2. UNCHANGED <<task, run, effect, courier, sweep, api, core, policy>>
  BY DEF Load, EnterRefused, BeginProvider, ProviderReturns
<1>3. ASSUME Load(c, t) PROVE WorkersOK
  <2>1. w.pc = "claimed" /\ w.run \in RunIds /\ task[t].status \in Statuses
    BY <1>3, RunnerFacts DEF Load, MayLoad, At
  <2>2. [w EXCEPT !.pc = "loaded", !.seen = task[t].status] \in GoodRunner
    BY <1>1, <2>1 DEF GoodRunner, Runner, WorkerPcs
  <2>3. CASE worker' = Moved(c, t, "recover")
    BY <2>1, <2>3, SlotOK DEF WorkerPcs
  <2>4. CASE worker' = [worker EXCEPT ![c][t] = [w EXCEPT !.pc = "loaded", !.seen = task[t].status]]
    BY <2>2, <2>4, SlotOK
  <2> QED BY <1>1, <1>3, <2>3, <2>4 DEF Load
<1>4. ASSUME EnterRefused(c, t) PROVE WorkersOK
  <2>1. w.run \in RunIds
    BY <1>4, RunnerFacts DEF EnterRefused, EntryOpen, At
  <2> QED BY <1>4, <2>1, SlotOK DEF EnterRefused, WorkerPcs
<1>5. ASSUME BeginProvider(c, t) PROVE WorkersOK
  <2>1. w.run \in RunIds
    BY <1>5, RunnerFacts DEF BeginProvider, At
  <2> QED BY <1>5, <2>1, SlotOK DEF BeginProvider, WorkerPcs
<1>6. ASSUME ProviderReturns(c, t) PROVE WorkersOK
  <2>1. w.run \in RunIds
    BY <1>6, RunnerFacts DEF ProviderReturns, At
  <2>2. PICK o \in Outcomes : worker' = [worker EXCEPT ![c][t].pc = "settle", ![c][t].outcome = o]
    BY <1>6 DEF ProviderReturns
  <2>3. [w EXCEPT !.pc = "settle", !.outcome = o] \in GoodRunner
    BY <1>1, <2>1 DEF GoodRunner, Runner, WorkerPcs
  <2>4. worker' = [worker EXCEPT ![c][t] = [w EXCEPT !.pc = "settle", !.outcome = o]]
    BY <1>1, <2>2
  <2> QED BY <2>3, <2>4, SlotOK
<1> QED BY <1>2, <1>3, <1>4, <1>5, <1>6, UnchangedOK DEF StepOK, rows

\* Admission and launch.
LEMMA RunnerAdmission ==
  ASSUME IInv, NEW c \in Cores, NEW t \in Tasks,
         Trigger(c, t) \/ Reserve(c, t) \/ Launch(c, t) \/ FailUnclaimed(c, t) \/ Abort(c, t)
  PROVE  StepOK
<1> DEFINE w == worker[c][t]
<1>1. w \in GoodRunner /\ worker \in [Cores -> [Tasks -> GoodRunner]]
  BY DEF IInv, LocalOK
<1>2. UNCHANGED <<courier, sweep, api, core, policy>>
  BY DEF Trigger, Reserve, Launch, FailUnclaimed, Abort
<1>3. ASSUME Trigger(c, t) PROVE RowsOK /\ WorkersOK
  BY <1>3, IdleOK, SlotOK, UnchangedOK DEF Trigger, rows
<1>4. ASSUME Reserve(c, t) PROVE RowsOK /\ WorkersOK
  <2>1. CASE run' = run /\ worker' = Freed(c, t)
    BY <1>4, <2>1, SlotOK, UnchangedOK DEF Reserve, rows
  <2>2. ASSUME NEW r \in RunIds, Fresh(r), run' = Insert(r, t, "manual", 0, TRUE),
               \A q \in RunsOf(t) : ~Active(q),
               worker' = [worker EXCEPT ![c][t].pc = "reserved", ![c][t].run = r]
        PROVE  RowsOK /\ WorkersOK
    <3>1. 0 \in 0..MaxRuns /\ task' = task /\ task \in [Tasks -> TaskRow] /\ effect' = effect
      BY <1>4, ConstantsAssumption DEF Reserve, IInv, TypeOK
    <3>2. RowsOK
      BY <2>2, <3>1, InsertOK
    <3>3. [w EXCEPT !.pc = "reserved", !.run = r] \in GoodRunner
      BY <1>1, RunIdsAreNat DEF GoodRunner, Runner, WorkerPcs
    <3>4. worker' = [worker EXCEPT ![c][t] = [w EXCEPT !.pc = "reserved", !.run = r]]
      BY <1>1, <2>2
    <3> QED BY <3>2, <3>3, <3>4, SlotOK
  <2> QED BY <1>4, <2>1, <2>2 DEF Reserve
<1>5. ASSUME Launch(c, t) PROVE RowsOK /\ WorkersOK
  <2>1. w.run \in RunIds
    BY <1>5, RunnerFacts DEF Launch, At
  <2>2. CASE /\ run[w.run].status \in {"pending", "running"}
             /\ run' = WithOwner(w.run, c, TRUE)
             /\ worker' = Moved(c, t, "claimed")
             /\ UNCHANGED <<task, effect>>
    BY <2>1, <2>2, SlotOK, WithOwnerOK DEF Active, ActiveStatuses, WorkerPcs
  <2>3. CASE run' = run /\ worker' = Moved(c, t, "rejected") /\ UNCHANGED <<task, effect>>
    BY <2>1, <2>3, SlotOK, UnchangedOK DEF rows, WorkerPcs
  <2>4. CASE GiveUp(c, t, Freed(c, t))
    BY <2>1, <2>4, SlotOK, GiveUpOK
  <2>5. CASE worker' = Freed(c, t) /\ UNCHANGED rows
    BY <2>5, SlotOK, UnchangedOK
  <2> QED BY <1>5, <2>2, <2>3, <2>4, <2>5 DEF Launch
<1>6. ASSUME FailUnclaimed(c, t) PROVE RowsOK /\ WorkersOK
  <2>1. w.run \in RunIds
    BY <1>6, RunnerFacts DEF FailUnclaimed, At
  <2> QED BY <1>6, <2>1, SlotOK, UnchangedOK, RejectOK DEF FailUnclaimed, CanReject
<1>7. ASSUME Abort(c, t) PROVE RowsOK /\ WorkersOK
  <2>1. w.run \in RunIds
    BY <1>7, RunnerFacts DEF Abort, At
  <2>2. worker' = Moved(c, t, "recover") => WorkersOK
    BY <2>1, SlotOK DEF WorkerPcs
  <2> QED BY <1>7, <2>1, <2>2, GiveUpOK DEF Abort
<1> QED BY <1>2, <1>3, <1>4, <1>5, <1>6, <1>7, UnchangedOK DEF StepOK

\* Entry into execution and the ways out before the provider.
LEMMA RunnerEntry ==
  ASSUME IInv, NEW c \in Cores, NEW t \in Tasks,
         \/ Enter(c, t) \/ EnterPaused(c, t) \/ FailRefused(c, t) \/ CancelEntered(c, t)
  PROVE  StepOK
<1> DEFINE w == worker[c][t]
<1>1. w \in GoodRunner /\ worker \in [Cores -> [Tasks -> GoodRunner]]
  BY DEF IInv, LocalOK
<1>2. UNCHANGED <<courier, sweep, api, core, policy>>
  BY DEF Enter, EnterPaused, FailRefused, CancelEntered
<1>3. ASSUME Enter(c, t) PROVE RowsOK /\ WorkersOK
  <2>1. w.pc = "loaded" /\ w.run \in RunIds /\ w.seen \in Statuses /\ task[t].retries \in 0..MaxRetries
    BY <1>3, RunnerFacts DEF Enter, EntryOpen, At
  <2>2. run \in [RunIds -> RunRow] /\ run[w.run].status = "pending"
        /\ run' = [run EXCEPT ![w.run].status = "running"] /\ effect' = effect
    BY <1>3 DEF Enter, IInv, TypeOK
  <2>3. run' \in [RunIds -> RunRow]
    BY <2>1, <2>2 DEF RunRow, Statuses, ActiveStatuses
  <2>4. Keeps
    BY <2>1, <2>2 DEF Keeps, RunRow, Active, ActiveStatuses
  <2>5. task' \in [Tasks -> TaskRow]
    BY <1>3, WithStatusType DEF Enter, Statuses, ActiveStatuses
  <2>6. RowsOK
    BY <2>2, <2>3, <2>4, <2>5 DEF RowsOK, GoodStep, EffectsKeep, IInv, TypeOK
  <2>7. [w EXCEPT !.pc = "entered", !.tries = task[t].retries] \in GoodRunner
    BY <1>1, <2>1 DEF GoodRunner, Runner, WorkerPcs
  <2>8. worker' = [worker EXCEPT ![c][t] = [w EXCEPT !.pc = "entered", !.tries = task[t].retries]]
    BY <1>1, <1>3 DEF Enter
  <2> QED BY <2>6, <2>7, <2>8, SlotOK
<1>4. ASSUME EnterPaused(c, t) PROVE RowsOK /\ WorkersOK
  <2>1. w.run \in RunIds /\ UNCHANGED <<task, effect>> /\ task \in [Tasks -> TaskRow]
    BY <1>4, RunnerFacts DEF EnterPaused, EntryOpen, At, IInv, TypeOK
  <2>2. CASE run[w.run].status = "pending" /\ run' = Closed({w.run}, "canceled") /\ worker' = Freed(c, t)
    BY <2>1, <2>2, ClosedOK, SlotOK DEF Active, ActiveStatuses, Statuses, TerminalStatuses
  <2>3. CASE run' = run /\ worker' = Moved(c, t, "refused")
    BY <2>1, <2>3, UnchangedOK, SlotOK DEF rows, WorkerPcs
  <2> QED BY <1>4, <2>2, <2>3 DEF EnterPaused
<1>5. ASSUME FailRefused(c, t) PROVE RowsOK /\ WorkersOK
  <2>1. w.run \in RunIds
    BY <1>5, RunnerFacts DEF FailRefused, At
  <2>2. WorkersOK
    BY <1>5, <2>1, SlotOK DEF FailRefused, WorkerPcs
  <2> QED BY <1>5, <2>1, <2>2, UnchangedOK, RejectOK DEF FailRefused, CanReject
<1>6. ASSUME CancelEntered(c, t) PROVE RowsOK /\ WorkersOK
  <2>1. w.run \in RunIds /\ w.seen \in Statuses
    BY <1>6, RunnerFacts DEF CancelEntered, At
  <2>2. WorkersOK
    BY <1>6, <2>1, SlotOK DEF CancelEntered, WorkerPcs
  <2>3. CASE UNCHANGED rows
    BY <2>2, <2>3, UnchangedOK
  <2>4. CASE /\ run[w.run].status = "running" /\ run' = Closed({w.run}, "canceled")
             /\ task' = WithStatus(t, w.seen) /\ effect' = effect
    BY <2>1, <2>2, <2>4, ClosedOK, WithStatusType
       DEF Active, ActiveStatuses, Statuses, TerminalStatuses
  <2> QED BY <1>6, <2>3, <2>4 DEF CancelEntered, rows
<1> QED BY <1>2, <1>3, <1>4, <1>5, <1>6, UnchangedOK DEF StepOK

\* The steps that end a run through the terminal transaction.
LEMMA RunnerSettles ==
  ASSUME IInv, NEW c \in Cores, NEW t \in Tasks,
         NodeRefuses(c, t) \/ PreProviderFail(c, t) \/ Settle(c, t) \/ Recover(c, t)
  PROVE  StepOK
<1> DEFINE w == worker[c][t]
<1>1. UNCHANGED <<courier, sweep, api, core, policy>>
  BY DEF NodeRefuses, PreProviderFail, Settle, Recover
<1>2. ASSUME NodeRefuses(c, t) PROVE RowsOK /\ WorkersOK
  <2>1. w.run \in RunIds /\ task[t].status \in Statuses /\ task[t].retries \in 0..MaxRetries
    BY <1>2, RunnerFacts DEF NodeRefuses, MayLoad, At
  <2>2. {"pending"} \in SUBSET ActiveStatuses /\ "canceled" \in Statuses
    BY DEF ActiveStatuses, Statuses, TerminalStatuses
  <2> QED BY <1>2, <2>1, <2>2, ConcludeOK DEF NodeRefuses
<1>3. ASSUME PreProviderFail(c, t) PROVE RowsOK /\ WorkersOK
  <2>1. w.run \in RunIds /\ task[t].retries \in 0..MaxRetries
    BY <1>3, RunnerFacts DEF PreProviderFail, At
  <2>2. {"running"} \in SUBSET ActiveStatuses /\ "failed" \in Statuses
    BY DEF ActiveStatuses, Statuses, TerminalStatuses
  <2> QED BY <1>3, <2>1, <2>2, ConcludeOK DEF PreProviderFail
<1>4. ASSUME Settle(c, t) PROVE RowsOK /\ WorkersOK
  <2> DEFINE o == w.outcome
             next == NextAfterFailure("running", w.tries, MaxRetries)
             target == CASE o = "failed" -> next.status
                         [] o \in {"final", "timeout"} -> "failed"
                         [] OTHER -> o
             n == CASE o \in {"failed", "final"} -> next.count
                    [] o \in {"timeout", "canceled"} -> task[t].retries
                    [] OTHER -> 0
             to == IF o \in {"final", "timeout"} THEN "failed" ELSE o
  <2>1. /\ w.run \in RunIds /\ o \in Outcomes /\ w.tries \in 0..MaxRetries
        /\ task[t].retries \in 0..MaxRetries
    BY <1>4, RunnerFacts DEF Settle, At
  <2>2. next.status \in Statuses /\ next.count \in 0..MaxRetries
    BY <2>1, ConstantsAssumption DEF NextAfterFailure, Statuses, ActiveStatuses, TerminalStatuses
  <2>3. target \in Statuses /\ n \in 0..MaxRetries /\ to \in Statuses
    <3> HIDE DEF next
    <3> QED BY <2>1, <2>2, ConstantsAssumption DEF Outcomes, Statuses, TerminalStatuses
  <2>4. {"running"} \in SUBSET ActiveStatuses
    BY DEF ActiveStatuses
  <2>5. Conclude(c, t, {NoCore, c}, {"running"}, target, n, to)
    BY <1>4 DEF Settle
  <2> HIDE DEF target, n, to
  <2> QED BY <2>1, <2>3, <2>4, <2>5, ConcludeOK
<1>5. ASSUME Recover(c, t) PROVE RowsOK /\ WorkersOK
  <2>1. w.run \in RunIds /\ task[t].retries \in 0..MaxRetries
    BY <1>5, RunnerFacts DEF Recover, At
  <2>2. RecoveryTarget(t) \in Statuses
    BY RunnerFacts DEF RecoveryTarget, Statuses, TerminalStatuses
  <2>3. WorkersOK
    BY <1>5, SlotOK DEF Recover
  <2>4. CASE UNCHANGED rows
    BY <2>3, <2>4, UnchangedOK
  <2>5. CASE /\ TerminalOK({NoCore, c}, w.run, ActiveStatuses, RecoveryTarget(t))
             /\ Terminalize(w.run, RecoveryTarget(t), task[t].retries, "failed")
    BY <2>1, <2>2, <2>3, <2>5, TerminalizeOK DEF TerminalOK, Active, Statuses, TerminalStatuses
  <2> QED BY <1>5, <2>4, <2>5 DEF Recover
<1> QED BY <1>1, <1>2, <1>3, <1>4, <1>5, UnchangedOK DEF StepOK

\* Leases, heartbeats and deadlines.
LEMMA LeaseSteps ==
  ASSUME IInv,
         \/ \E c \in Cores, t \in Tasks : Heartbeat(c, t) \/ DeadlinePasses(c, t)
         \/ \E r \in RunIds : RunLeaseExpires(r) \/ EffectLeaseExpires(r)
  PROVE  StepOK
<1>1. ASSUME NEW c \in Cores, NEW t \in Tasks, Heartbeat(c, t) \/ DeadlinePasses(c, t)
      PROVE  StepOK
  <2> DEFINE w == worker[c][t]
  <2>1. w \in GoodRunner /\ worker \in [Cores -> [Tasks -> GoodRunner]]
    BY DEF IInv, LocalOK
  <2>2. Heartbeat(c, t) => w.run \in RunIds
    BY RunnerFacts DEF Heartbeat, Beating
  <2>3. UNCHANGED <<task, effect, courier, sweep, api, core, policy>>
    BY <1>1 DEF Heartbeat, DeadlinePasses
  <2>4. CASE Heartbeat(c, t) /\ Active(w.run) /\ run' = WithOwner(w.run, c, TRUE) /\ worker' = worker
    BY <2>2, <2>3, <2>4, WithOwnerOK, UnchangedOK DEF StepOK
  <2>5. CASE run' = run /\ worker' = [worker EXCEPT ![c][t].canceled = TRUE]
    <3>1. [w EXCEPT !.canceled = TRUE] \in GoodRunner
      BY <2>1 DEF GoodRunner, Runner
    <3>2. worker' = [worker EXCEPT ![c][t] = [w EXCEPT !.canceled = TRUE]]
      BY <2>1, <2>5
    <3>3. WorkersOK
      BY <3>1, <3>2, SlotOK
    <3> QED BY <2>3, <2>5, <3>3, UnchangedOK DEF StepOK, rows
  <2> QED BY <1>1, <2>4, <2>5 DEF Heartbeat, DeadlinePasses
<1>2. ASSUME NEW r \in RunIds, RunLeaseExpires(r) PROVE StepOK
  <2>1. run \in [RunIds -> RunRow] /\ run' = [run EXCEPT ![r].lease = FALSE] /\ Active(r)
    BY <1>2 DEF RunLeaseExpires, IInv, TypeOK
  <2>2. run' \in [RunIds -> RunRow] /\ Keeps
    BY <2>1 DEF RunRow, Keeps
  <2>3. RowsOK
    BY <1>2, <2>2 DEF RunLeaseExpires, RowsOK, GoodStep, EffectsKeep, IInv, TypeOK
  <2> QED BY <1>2, <2>3, UnchangedOK DEF RunLeaseExpires, StepOK
<1>3. ASSUME NEW r \in RunIds, EffectLeaseExpires(r) PROVE StepOK
  <2>1. effect \in [RunIds -> EffectRow] /\ effect' = [effect EXCEPT ![r].lease = FALSE]
        /\ UNCHANGED <<task, run>>
    BY <1>3 DEF EffectLeaseExpires, IInv, TypeOK
  <2>2. effect' \in [RunIds -> EffectRow] /\ \A q \in RunIds : effect'[q].status = effect[q].status
    BY <2>1 DEF EffectRow
  <2>3. RowsOK
    BY <2>1, <2>2 DEF RowsOK, GoodStep, Keeps, EffectsKeep, IInv, TypeOK
  <2> QED BY <1>3, <2>3, UnchangedOK DEF EffectLeaseExpires, StepOK
<1> QED BY <1>1, <1>2, <1>3

\* The recovery sweeps.
LEMMA SweepSteps ==
  ASSUME IInv, NEW c \in Cores,
         \/ ReapSettle(c)
         \/ \E r \in RunIds : LaunchDurable(c, r) \/ ReapClaim(c, r) \/ RebuildRetryEffect(c, r)
  PROVE  StepOK
<1>0. /\ sweep \in [Cores -> GoodClaim] /\ run \in [RunIds -> RunRow] /\ task \in [Tasks -> TaskRow]
      /\ worker \in [Cores -> [Tasks -> GoodRunner]]
  BY DEF IInv, LocalOK, TypeOK
<1>1. ASSUME ReapSettle(c) PROVE StepOK
  <2> DEFINE r == sweep[c].run
             t == run[r].task
  <2>1. r \in RunIds /\ sweep[c].seen \in ActiveStatuses
    BY <1>0, <1>1 DEF ReapSettle, GoodClaim
  <2>2. t \in Tasks
    BY <1>0, <2>1 DEF RunRow
  <2>3. RecoveryTarget(t) \in Statuses /\ task[t].retries \in 0..MaxRetries
    BY <1>0, <2>2 DEF RecoveryTarget, TaskRow, Statuses, TerminalStatuses
  <2>4. SweepsOK
    BY <1>0, <1>1, ConstantsAssumption DEF ReapSettle, SweepsOK, GoodClaim, Claim, NoClaim
  <2>5. CASE UNCHANGED rows
    BY <1>1, <2>4, <2>5, UnchangedOK DEF ReapSettle, StepOK
  <2>6. CASE /\ TerminalOK({NoCore, c}, r, {sweep[c].seen}, RecoveryTarget(t))
             /\ Terminalize(r, RecoveryTarget(t), task[t].retries, "failed")
    <3>1. RowsOK
      BY <2>1, <2>3, <2>6, TerminalizeOK DEF TerminalOK, Active, Statuses, TerminalStatuses
    <3> QED BY <1>1, <2>4, <3>1, UnchangedOK DEF ReapSettle, StepOK
  <2> QED BY <1>1, <2>5, <2>6 DEF ReapSettle
<1>2. ASSUME NEW r \in RunIds, LaunchDurable(c, r) PROVE StepOK
  <2>1. run[r].task \in Tasks /\ Active(r)
    BY <1>0, <1>2 DEF LaunchDurable, Durable, Active, ActiveStatuses, RunRow
  <2>2. CASE /\ worker' = [worker EXCEPT ![c][run[r].task] = [Idle EXCEPT !.pc = "reserved", !.run = r]]
             /\ UNCHANGED rows
    BY <1>2, <2>1, <2>2, IdleOK, SlotOK, UnchangedOK DEF LaunchDurable, StepOK
  <2>3. CASE run' = Closed({r}, "canceled") /\ UNCHANGED <<effect, worker>>
    <3>1. task' \in [Tasks -> TaskRow]
      BY <1>0, <1>2, <2>1, <2>3, WithStatusType
         DEF LaunchDurable, Statuses, TerminalStatuses, rows
    <3>2. RowsOK
      BY <2>1, <2>3, <3>1, ClosedOK DEF Statuses, TerminalStatuses
    <3> QED BY <1>2, <2>3, <3>2, UnchangedOK DEF LaunchDurable, StepOK
  <2> QED BY <1>2, <2>2, <2>3 DEF LaunchDurable
<1>3. ASSUME NEW r \in RunIds, ReapClaim(c, r) PROVE StepOK
  <2>1. Active(r) /\ run[r].status \in ActiveStatuses
    BY <1>3 DEF ReapClaim, Reapable, Active
  <2>2. RowsOK
    BY <1>3, <2>1, WithOwnerOK DEF ReapClaim
  <2>3. SweepsOK
    BY <1>0, <1>3, <2>1, RunIdsAreNat DEF ReapClaim, SweepsOK, GoodClaim, Claim, Statuses
  <2> QED BY <1>3, <2>2, <2>3, UnchangedOK DEF ReapClaim, StepOK
<1>4. ASSUME NEW r \in RunIds, RebuildRetryEffect(c, r) PROVE StepOK
  <2>1. run[r].status = "failed" /\ effect' = Published(r) /\ UNCHANGED <<task, run>>
    BY <1>4 DEF RebuildRetryEffect
  <2>2. RowsOK
    BY <1>0, <2>1, PublishedType DEF RowsOK, GoodStep, Keeps, EffectsKeep
  <2> QED BY <1>4, <2>2, UnchangedOK DEF RebuildRetryEffect, StepOK
<1> QED BY <1>1, <1>2, <1>3, <1>4

\* Delivery of retry effects.
LEMMA EffectSteps ==
  ASSUME IInv, NEW c \in Cores, NEW r \in RunIds,
         ClaimEffect(c, r) \/ DeliverRetry(c, r) \/ FailEffect(c, r)
  PROVE  StepOK
<1> DEFINE t == run[r].task
<1>0. /\ effect \in [RunIds -> EffectRow] /\ run \in [RunIds -> RunRow] /\ task \in [Tasks -> TaskRow]
      /\ courier \in [Cores -> [RunIds -> {"none", "claimed", "failing"}]]
      /\ t \in Tasks
  BY DEF IInv, TypeOK, RunRow
<1>1. CouriersOK
  <2>1. \E s \in {"none", "claimed", "failing"} : courier' = [courier EXCEPT ![c][r] = s]
    <3>1. ClaimEffect(c, r) => courier' = [courier EXCEPT ![c][r] = "claimed"]
      BY DEF ClaimEffect
    <3>2. DeliverRetry(c, r) => \/ courier' = [courier EXCEPT ![c][r] = "none"]
                                \/ courier' = [courier EXCEPT ![c][r] = "failing"]
      BY DEF DeliverRetry
    <3>3. FailEffect(c, r) => courier' = [courier EXCEPT ![c][r] = "none"]
      BY DEF FailEffect
    <3> QED BY <3>1, <3>2, <3>3
  <2> QED BY <1>0, <2>1 DEF CouriersOK
<1>2. UNCHANGED <<worker, sweep, api, core, policy>>
  BY DEF ClaimEffect, DeliverRetry, FailEffect
<1>3. ASSUME effect' \in [RunIds -> EffectRow], task' \in [Tasks -> TaskRow], run' = run,
             \A q \in RunIds \ {r} : effect'[q] = effect[q],
             effect[r].status \notin {"none", "succeeded"}
      PROVE  RowsOK
  BY <1>0, <1>3 DEF RowsOK, GoodStep, Keeps, EffectsKeep
<1>4. ASSUME ClaimEffect(c, r) PROVE RowsOK
  <2>1. effect[r].attempts + 1 \in 0..MaxAttempts /\ effect[r].status \notin {"none", "succeeded"}
    BY <1>0, <1>4, ConstantsAssumption DEF ClaimEffect, EffectReady, EffectRow
  <2>2. effect' \in [RunIds -> EffectRow]
    BY <1>0, <1>4, <2>1 DEF ClaimEffect, EffectRow
  <2> QED BY <1>0, <1>3, <1>4, <2>1, <2>2 DEF ClaimEffect
<1>5. ASSUME DeliverRetry(c, r) PROVE RowsOK
  <2>1. Succeeded(r) \in [RunIds -> EffectRow] /\ \A q \in RunIds \ {r} : Succeeded(r)[q] = effect[q]
    <3> DEFINE row == [effect[r] EXCEPT !.status = "succeeded", !.owner = NoCore, !.lease = FALSE]
    <3>1. row \in EffectRow
      BY <1>0 DEF EffectRow
    <3>2. Succeeded(r) = [effect EXCEPT ![r] = row]
      BY <1>0 DEF Succeeded
    <3> HIDE DEF row
    <3> QED BY <1>0, <3>1, <3>2
  <2>2. CASE ClaimHeld(c, r) /\ run' = run /\ effect' = Succeeded(r) /\ task' \in [Tasks -> TaskRow]
    BY <1>3, <2>1, <2>2 DEF ClaimHeld
  <2>3. ASSUME NEW q \in RunIds, Fresh(q), run' = Insert(q, t, "retry", r, FALSE), task' = task,
               ClaimHeld(c, r), ~Superseded(r), effect' = Succeeded(r)
        PROVE  RowsOK
    <3>1. run[r].status = "failed" /\ r \in 0..MaxRuns /\ effect[r].status = "running"
      BY <2>3, RunIdsAreNat DEF IInv, EffectOfFailed, ClaimHeld
    <3>2. \A x \in RunsOf(t) : ~Active(x)
      BY <2>3, <3>1 DEF Superseded, Active, ActiveStatuses
    <3> QED BY <1>0, <2>3, <3>1, <3>2, InsertOK
  <2>4. CASE UNCHANGED rows
    BY <2>4, UnchangedOK
  <2>5. ~MayRun(t) /\ task[t].status = "retrying" => WithStatus(t, "canceled") \in [Tasks -> TaskRow]
    BY <1>0, WithStatusType DEF Statuses, TerminalStatuses
  <2> QED BY <1>0, <1>5, <2>2, <2>3, <2>4, <2>5 DEF DeliverRetry
<1>6. ASSUME FailEffect(c, r) PROVE RowsOK
  <2>1. CASE UNCHANGED <<task, effect>>
    BY <1>6, <2>1, UnchangedOK DEF FailEffect, rows
  <2>2. CASE /\ ClaimHeld(c, r)
             /\ effect' = [effect EXCEPT ![r].status = "failed", ![r].owner = NoCore, ![r].lease = FALSE]
    <3>1. effect' \in [RunIds -> EffectRow] /\ \A q \in RunIds \ {r} : effect'[q] = effect[q]
      <4> DEFINE row == [effect[r] EXCEPT !.status = "failed", !.owner = NoCore, !.lease = FALSE]
      <4>1. row \in EffectRow
        BY <1>0 DEF EffectRow
      <4>2. effect' = [effect EXCEPT ![r] = row]
        BY <1>0, <2>2
      <4> HIDE DEF row
      <4> QED BY <1>0, <4>1, <4>2
    <3>2. task' = task \/ task' = WithStatus(t, "failed")
      BY <1>6, <2>2 DEF FailEffect
    <3>3. task' \in [Tasks -> TaskRow]
      BY <1>0, <3>2, WithStatusType DEF Statuses, TerminalStatuses
    <3> QED BY <1>3, <1>6, <2>2, <3>1, <3>3 DEF FailEffect, ClaimHeld
  <2> QED BY <1>6, <2>1, <2>2 DEF FailEffect
<1> QED BY <1>1, <1>2, <1>4, <1>5, <1>6, UnchangedOK DEF StepOK

\* Processes that die, seal and drain.
LEMMA CoreSteps ==
  ASSUME IInv, NEW c \in Cores, Crash(c) \/ Seal(c) \/ Shutdown(c) \/ Drained(c)
  PROVE  StepOK
<1>0. /\ worker \in [Cores -> [Tasks -> GoodRunner]] /\ sweep \in [Cores -> GoodClaim]
      /\ courier \in [Cores -> [RunIds -> {"none", "claimed", "failing"}]]
      /\ api \in [Cores -> [Tasks -> Request]]
      /\ core \in [Cores -> {"up", "sealed", "draining", "down"}]
  BY DEF IInv, LocalOK, TypeOK
<1>1. UNCHANGED <<task, run, effect, policy>>
  BY DEF Crash, Seal, Shutdown, Drained
<1>2. CoresOK
  BY <1>0 DEF Crash, Seal, Shutdown, Drained, CoresOK
<1>3. RequestsOK
  <2>1. [t \in Tasks |-> Quiet] \in [Tasks -> Request]
    BY DEF Quiet, Request
  <2> QED BY <1>0, <2>1 DEF Crash, Seal, Shutdown, Drained, RequestsOK
<1>4. CouriersOK
  <2>1. courier' = courier \/ courier' = [courier EXCEPT ![c] = [r \in RunIds |-> "none"]]
    BY DEF Crash, Seal, Shutdown, Drained
  <2>2. [r \in RunIds |-> "none"] \in [RunIds -> {"none", "claimed", "failing"}]
    OBVIOUS
  <2> QED BY <1>0, <2>1, <2>2 DEF CouriersOK
<1>5. SweepsOK
  <2>1. NoClaim \in GoodClaim
    BY ConstantsAssumption DEF NoClaim, GoodClaim, Claim
  <2> QED BY <1>0, <2>1 DEF Crash, Seal, Shutdown, Drained, SweepsOK
<1>6. WorkersOK
  <2>1. CASE Crash(c)
    BY <1>0, <2>1, IdleOK DEF Crash, WorkersOK
  <2>2. CASE Seal(c) \/ Drained(c)
    BY <1>0, <2>2 DEF Seal, Drained, WorkersOK
  <2>3. CASE Shutdown(c)
    <3> DEFINE told(t) == IF worker[c][t].pc = "idle" THEN worker[c][t]
                          ELSE [worker[c][t] EXCEPT !.canceled = TRUE,
                                   !.kind = IF worker[c][t].kind = "none"
                                            THEN "shutdown" ELSE worker[c][t].kind]
    <3>1. ASSUME NEW t \in Tasks PROVE told(t) \in GoodRunner
      <4>1. worker[c][t] \in GoodRunner
        BY <1>0
      <4>2. ASSUME NEW k \in {"none", "user", "shutdown"}
            PROVE  [worker[c][t] EXCEPT !.canceled = TRUE, !.kind = k] \in GoodRunner
        BY <4>1 DEF GoodRunner, Runner
      <4>3. worker[c][t].kind \in {"none", "user", "shutdown"}
        BY <4>1 DEF GoodRunner, Runner
      <4> QED BY <4>1, <4>2, <4>3
    <3>2. worker' = [worker EXCEPT ![c] = [t \in Tasks |-> told(t)]]
      BY <2>3 DEF Shutdown
    <3> HIDE DEF told
    <3> QED BY <1>0, <3>1, <3>2 DEF WorkersOK
  <2> QED BY <2>1, <2>2, <2>3
<1> QED BY <1>1, <1>2, <1>3, <1>4, <1>5, <1>6, UnchangedOK DEF StepOK, rows

\* The transaction that cancels every active run of a Task.
LEMMA CancelOrphansOK ==
  ASSUME IInv, NEW t \in Tasks, CancelOrphans(t), effect' = effect
  PROVE  RowsOK
<1>1. task' \in [Tasks -> TaskRow]
  BY WithStatusType DEF CancelOrphans, Statuses, TerminalStatuses
<1>2. \A r \in RunIds \cap {r \in RunsOf(t) : Active(r)} : Active(r)
  OBVIOUS
<1> QED BY <1>1, <1>2, ClosedOK DEF CancelOrphans, Statuses, TerminalStatuses

\* What an operator asks for.
LEMMA OperatorSteps ==
  ASSUME IInv, NEW c \in Cores, NEW t \in Tasks,
         \/ CancelDirect(c, t) \/ CancelRead(c, t) \/ PauseRead(c, t) \/ Resume(c, t)
         \/ CancelSignal(c, t) \/ CancelOwned(c, t) \/ CancelOrphan(c, t) \/ CancelPending(c, t)
         \/ Overwrite(c, t) \/ PauseDisable(c, t)
  PROVE  StepOK
<1> DEFINE w == worker[c][t]
<1>0. /\ w \in GoodRunner /\ worker \in [Cores -> [Tasks -> GoodRunner]]
      /\ api \in [Cores -> [Tasks -> Request]] /\ api[c][t] \in Request
      /\ task \in [Tasks -> TaskRow] /\ task[t] \in TaskRow
  BY DEF IInv, LocalOK, TypeOK
<1>1. UNCHANGED <<courier, sweep, core, policy>>
  BY DEF CancelDirect, CancelRead, PauseRead, Resume, CancelSignal, CancelOwned, CancelOrphan,
         CancelPending, Overwrite, PauseDisable
<1>2. ASSUME NEW pc \in {"idle"} \cup CancelPcs \cup PausePcs, NEW s \in Statuses \cup {"none"},
             api' = [api EXCEPT ![c][t] = [pc |-> pc, seen |-> s]]
      PROVE  RequestsOK
  BY <1>0, <1>2 DEF RequestsOK, Request
<1>3. \A pc \in CancelPcs \cup PausePcs : api' = Asked(c, t, pc) => RequestsOK
  <2> SUFFICES ASSUME NEW pc \in CancelPcs \cup PausePcs, api' = Asked(c, t, pc) PROVE RequestsOK
    OBVIOUS
  <2>1. api' = [api EXCEPT ![c][t] = [api[c][t] EXCEPT !.pc = pc]]
    BY <1>0 DEF Asked
  <2>2. [api[c][t] EXCEPT !.pc = pc] \in Request
    BY <1>0 DEF Request
  <2> QED BY <1>0, <2>1, <2>2 DEF RequestsOK
<1>4. api' = Answered(c, t) => RequestsOK
  BY <1>0 DEF Answered, Quiet, RequestsOK, Request
<1>5. ASSUME CancelDirect(c, t) PROVE StepOK
  BY <1>1, <1>5, CancelOrphansOK, UnchangedOK DEF CancelDirect, StepOK
<1>6. ASSUME CancelRead(c, t) \/ PauseRead(c, t) PROVE StepOK
  <2>1. RequestsOK
    BY <1>0, <1>2, <1>6 DEF CancelRead, PauseRead, CancelPcs, PausePcs, TaskRow
  <2> QED BY <1>1, <1>6, <2>1, UnchangedOK DEF CancelRead, PauseRead, StepOK, rows
<1>7. ASSUME task' \in [Tasks -> TaskRow], UNCHANGED <<run, effect>> PROVE RowsOK
  BY <1>7 DEF RowsOK, GoodStep, Keeps, EffectsKeep, IInv, TypeOK
<1>8. ASSUME Resume(c, t) PROVE StepOK
  <2>1. task' \in [Tasks -> TaskRow]
    BY <1>0, <1>8 DEF Resume, TaskRow
  <2> QED BY <1>1, <1>7, <1>8, <2>1, UnchangedOK DEF Resume, StepOK
<1>9. ASSUME PauseDisable(c, t) PROVE StepOK
  <2>1. task' \in [Tasks -> TaskRow]
    BY <1>0, <1>9 DEF PauseDisable, TaskRow
  <2>2. RequestsOK
    BY <1>3, <1>4, <1>9 DEF PauseDisable, PausePcs
  <2> QED BY <1>1, <1>7, <1>9, <2>1, <2>2, UnchangedOK DEF PauseDisable, StepOK
<1>10. ASSUME Overwrite(c, t) PROVE StepOK
  <2>1. task' \in [Tasks -> TaskRow]
    BY <1>10, WithStatusType DEF Overwrite, Statuses, TerminalStatuses
  <2> QED BY <1>1, <1>4, <1>7, <1>10, <2>1, UnchangedOK DEF Overwrite, StepOK
<1>11. ASSUME CancelSignal(c, t) PROVE StepOK
  <2>1. RequestsOK
    BY <1>3, <1>4, <1>11 DEF CancelSignal, CancelPcs
  <2>2. RowsOK
    BY <1>11, CancelOrphansOK, UnchangedOK DEF CancelSignal
  <2>3. WorkersOK
    <3>1. [w EXCEPT !.canceled = TRUE, !.kind = "user"] \in GoodRunner
      BY <1>0 DEF GoodRunner, Runner
    <3>2. \/ worker' = worker
          \/ worker' = [worker EXCEPT ![c][t] = [w EXCEPT !.canceled = TRUE, !.kind = "user"]]
      BY <1>0, <1>11 DEF CancelSignal
    <3> QED BY <3>1, <3>2, SlotOK, UnchangedOK
  <2> QED BY <1>1, <2>1, <2>2, <2>3, UnchangedOK DEF StepOK
<1>12. ASSUME CancelOrphan(c, t) PROVE StepOK
  <2>1. RequestsOK
    BY <1>3, <1>4, <1>12 DEF CancelOrphan, CancelPcs
  <2>2. RowsOK
    BY <1>12, CancelOrphansOK, UnchangedOK DEF CancelOrphan, rows
  <2> QED BY <1>1, <1>12, <2>1, <2>2, UnchangedOK DEF CancelOrphan, StepOK
<1>13. ASSUME CancelPending(c, t) PROVE StepOK
  <2> DEFINE queued == {r \in RunsOf(t) : run[r].status = "pending"}
  <2>1. RequestsOK
    BY <1>3, <1>4, <1>13 DEF CancelPending, CancelPcs
  <2>2. RowsOK
    <3>1. CASE run' = run
      BY <1>13, <3>1, UnchangedOK DEF CancelPending, rows
    <3>2. CASE run' = Closed(queued, "canceled")
      <4>1. \A r \in RunIds \cap queued : Active(r)
        BY DEF Active, ActiveStatuses
      <4> QED BY <1>0, <1>13, <3>2, <4>1, ClosedOK DEF CancelPending, Statuses, TerminalStatuses
    <3> QED BY <1>13, <3>1, <3>2 DEF CancelPending
  <2> QED BY <1>1, <1>13, <2>1, <2>2, UnchangedOK DEF CancelPending, StepOK
<1>14. ASSUME CancelOwned(c, t) PROVE StepOK
  <2> DEFINE mine == {r \in RunningRuns(t) : run[r].owner = c}
  <2>1. RequestsOK
    BY <1>3, <1>4, <1>14 DEF CancelOwned, CancelPcs
  <2>2. WorkersOK
    <3>1. [w EXCEPT !.barred = TRUE] \in GoodRunner
      BY <1>0 DEF GoodRunner, Runner
    <3>2. worker' = worker \/ worker' = [worker EXCEPT ![c][t] = [w EXCEPT !.barred = TRUE]]
      BY <1>0, <1>14 DEF CancelOwned
    <3> QED BY <3>1, <3>2, SlotOK, UnchangedOK
  <2>3. RowsOK
    <3>1. effect' = effect
      BY <1>14 DEF CancelOwned
    <3>2. CASE UNCHANGED <<task, run>>
      BY <3>1, <3>2, UnchangedOK DEF rows
    <3>3. CASE /\ run' = Closed(mine, "canceled")
               /\ \/ w.seen # "none" /\ task' = WithStatus(t, w.seen)
                  \/ task' = WithStatus(t, "canceled")
                  \/ task' = task
      <4>1. task' \in [Tasks -> TaskRow]
        <5>1. w.seen # "none" => w.seen \in Statuses
          BY <1>0 DEF GoodRunner, Runner
        <5> QED BY <3>3, <5>1, WithStatusType DEF Statuses, TerminalStatuses
      <4>2. \A r \in RunIds \cap mine : Active(r)
        BY DEF RunningRuns, Active, ActiveStatuses
      <4> QED BY <3>1, <3>3, <4>1, <4>2, ClosedOK DEF Statuses, TerminalStatuses
    <3> QED BY <1>14, <3>2, <3>3 DEF CancelOwned
  <2> QED BY <1>1, <2>1, <2>2, <2>3, UnchangedOK DEF StepOK
<1> QED BY <1>5, <1>6, <1>8, <1>9, <1>10, <1>11, <1>12, <1>13, <1>14

\* The policy, and the runs automation inserts.
LEMMA PolicySteps ==
  ASSUME IInv, DisablePolicy \/ UpdatePolicy \/ \E t \in Tasks : ReserveAuto(t)
  PROVE  StepOK
<1>0. task \in [Tasks -> TaskRow] /\ policy \in [enabled : BOOLEAN, quota : 1..MaxConcurrent]
  BY DEF IInv, TypeOK
<1>1. ASSUME DisablePolicy PROVE StepOK
  <2>1. \A r \in RunIds \cap PolicyRuns({"pending"}) : Active(r)
    BY DEF PolicyRuns, Active, ActiveStatuses
  <2>2. RowsOK
    BY <1>0, <1>1, <2>1, ClosedOK DEF DisablePolicy, Statuses, TerminalStatuses
  <2>3. PolicyOK
    BY <1>0, <1>1 DEF DisablePolicy, PolicyOK
  <2> QED BY <1>1, <2>2, <2>3, UnchangedOK DEF DisablePolicy, StepOK
<1>2. ASSUME UpdatePolicy PROVE StepOK
  <2>1. PolicyOK
    BY <1>2 DEF UpdatePolicy, PolicyOK
  <2> QED BY <1>2, <2>1, UnchangedOK DEF UpdatePolicy, StepOK, rows
<1>3. ASSUME NEW t \in Tasks, ReserveAuto(t) PROVE StepOK
  <2>1. PICK r \in RunIds : Fresh(r) /\ run' = Insert(r, t, "auto", 0, FALSE)
    BY <1>3 DEF ReserveAuto
  <2>2. "auto" \in Faults /\ task' = task /\ effect' = effect /\ 0 \in 0..MaxRuns
    BY <1>3, ConstantsAssumption DEF ReserveAuto
  <2>3. RowsOK
    BY <1>0, <2>1, <2>2, InsertOK
  <2> QED BY <1>3, <2>3, UnchangedOK DEF ReserveAuto, StepOK
<1> QED BY <1>1, <1>2, <1>3

-----------------------------------------------------------------------------
(* The theorems. *)

\* Every step of the specification is a step of the tables' shape.
LEMMA NextOK ==
  ASSUME IInv, Next
  PROVE  StepOK
<1>1. ASSUME NEW c \in Cores, NEW t \in Tasks, RunnerStep(c, t) PROVE StepOK
  BY <1>1, RunnerMoves, RunnerAdmission, RunnerEntry, RunnerSettles DEF RunnerStep
<1>2. ASSUME NEW c \in Cores, NEW t \in Tasks, OperatorAsks(c, t) \/ OperatorStep(c, t) PROVE StepOK
  BY <1>2, RunnerAdmission, OperatorSteps DEF OperatorAsks, OperatorStep
<1>3. ASSUME NEW c \in Cores, NEW r \in RunIds, SweepStep(c, r) PROVE StepOK
  BY <1>3, SweepSteps, EffectSteps DEF SweepStep
<1> QED BY <1>1, <1>2, <1>3, LeaseSteps, SweepSteps, CoreSteps, PolicySteps DEF Next

\* The empty tables and the idle cores of NewManager satisfy the invariant.
LEMMA InitOK == Init => IInv
<1> SUFFICES ASSUME Init PROVE IInv
  OBVIOUS
<1>1. (CHOOSE t \in Tasks : TRUE) \in Tasks
  BY ConstantsAssumption
<1>2. \A t \in Tasks : NoRun(t) \in RunRow /\ NoRun(t).status = "none" /\ NoRun(t).pred = 0
  BY ConstantsAssumption DEF NoRun, RunRow
<1>3. NoEffect \in EffectRow /\ NoEffect.status = "none"
  BY ConstantsAssumption DEF NoEffect, EffectRow
<1>4. run \in [RunIds -> RunRow] /\ \A r \in RunIds : run[r].status = "none" /\ run[r].pred = 0
  BY <1>1, <1>2 DEF Init
<1>5. effect \in [RunIds -> EffectRow] /\ \A r \in RunIds : effect[r].status = "none"
  BY <1>3 DEF Init
<1>6. LocalOK
  <2>1. NoClaim \in GoodClaim
    BY ConstantsAssumption DEF NoClaim, GoodClaim, Claim
  <2> QED BY <2>1, IdleOK DEF Init, LocalOK
<1>7. TypeOK
  <2>1. GoodRunner \subseteq Runner /\ GoodClaim \subseteq Claim
    BY DEF GoodRunner, GoodClaim
  <2>2. worker \in [Cores -> [Tasks -> Runner]] /\ sweep \in [Cores -> Claim]
    BY <1>6, <2>1 DEF LocalOK
  <2>3. task \in [Tasks -> TaskRow]
    BY ConstantsAssumption DEF Init, TaskRow, Statuses, ActiveStatuses
  <2>4. Quiet \in Request
    BY DEF Quiet, Request
  <2>5. /\ api \in [Cores -> [Tasks -> Request]]
        /\ courier \in [Cores -> [RunIds -> {"none", "claimed", "failing"}]]
        /\ core \in [Cores -> {"up", "sealed", "draining", "down"}]
        /\ policy \in [enabled : BOOLEAN, quota : 1..MaxConcurrent]
    BY <2>4, ConstantsAssumption DEF Init
  <2> QED BY <1>4, <1>5, <2>2, <2>3, <2>5 DEF TypeOK
<1>8. EffectOfFailed /\ RetryOnce /\ OneActive
  BY <1>4, <1>5 DEF EffectOfFailed, RetryOnce, OneActive, Active, ActiveStatuses
<1> QED BY <1>6, <1>7, <1>8 DEF IInv

\* The inductive invariant holds in every reachable state.
THEOREM Inductive == Spec => []IInv
<1>1. IInv /\ [Next]_vars => IInv'
  <2> SUFFICES ASSUME IInv, [Next]_vars PROVE IInv'
    OBVIOUS
  <2>1. CASE Next
    BY <2>1, NextOK, StepOKKeepsIInv
  <2>2. CASE UNCHANGED vars
    BY <2>2, UnchangedOK, StepOKKeepsIInv DEF vars, rows, StepOK
  <2> QED BY <2>1, <2>2
<1> QED BY InitOK, <1>1, PTL DEF Spec

\* Type correctness, for every instance.
THEOREM TypeCorrect == Spec => []TypeOK
<1>1. IInv => TypeOK
  BY DEF IInv
<1> QED BY <1>1, Inductive, PTL

\* However many cores deliver, crash and redeliver, a failed run is retried at
\* most once, by a run of its own task.
THEOREM RetryIsOnce == Spec => []RetryOnce
<1>1. IInv => RetryOnce
  BY DEF IInv
<1> QED BY <1>1, Inductive, PTL

\* Without automation runs, a Task never has two active runs.
THEOREM OneActiveRun == Spec => []OneActive
<1>1. IInv => OneActive
  BY DEF IInv
<1> QED BY <1>1, Inductive, PTL

\* A settled run is never changed again.
THEOREM SettledIsFinal == Spec => TerminalFrozen
<1>1. IInv /\ [Next]_vars =>
        [\A r \in RunIds : run[r].status \in TerminalStatuses => run'[r] = run[r]]_vars
  <2> SUFFICES ASSUME IInv, Next, NEW r \in RunIds, run[r].status \in TerminalStatuses
               PROVE  run'[r] = run[r]
    BY DEF vars
  <2>1. GoodStep
    BY NextOK DEF StepOK, RowsOK
  <2>2. ~Active(r) /\ run[r].status # "none"
    BY DEF Active, ActiveStatuses, TerminalStatuses
  <2> QED BY <2>1, <2>2 DEF GoodStep, Keeps, Inserts
<1> QED BY <1>1, Inductive, PTL DEF Spec, TerminalFrozen
=============================================================================
