------------------------ MODULE TaskRunsRetries_proofs ------------------------
(***************************************************************************)
(* Two promises about retries: there are never more in a row than the      *)
(* policy allows, and one that was promised is not forgotten.              *)
(*                                                                         *)
(* The budget holds under every fault, Cancel, Pause and skew included,    *)
(* but without automation runs: they queue beside an active run, and one   *)
(* that succeeds while a retry waits gives the Task its budget back in     *)
(* the middle of the chain.  The length of a chain is a recursive          *)
(* function of the table, so nothing about it follows by induction on run  *)
(* ids here.  The induction is over time: an insertion extends every       *)
(* solution of the recursion by one value and no other step changes the    *)
(* recursion.                                                              *)
(*                                                                         *)
(* The promise itself is weaker in the code.  Two theorems name the faults *)
(* it survives (Mild), a third says how it is lost under the others that   *)
(* are not an operator's doing (Wide).                                     *)
(***************************************************************************)
EXTENDS TaskRunsPairs_proofs

\* g solves the recursion that Depth is defined by.
Sol(g) == g = [r \in RunIds |-> IF run[r].pred \in 1..(r - 1) THEN 1 + g[run[r].pred] ELSE 0]

\* The rows fill the table from the bottom, and only retries have a predecessor.
RowsInOrder ==
    /\ \A r, q \in RunIds : r < q /\ run[q].status # "none" => run[r].status # "none"
    /\ \A r \in RunIds : run[r].status = "none" \/ run[r].trigger # "retry" => run[r].pred = 0

\* An active run is the latest of its Task.
ActiveLatest == \A r \in RunIds : Active(r) => IsLatest(r)

\* An active run in a core's name is the one its runner works on, if it has one.
OwnSlot ==
    \A r \in RunIds, c \in Cores :
       /\ Active(r) /\ run[r].owner = c /\ worker[c][run[r].task].pc \notin {"idle", "admitted"}
       => worker[c][run[r].task].run = r

\* A retrying Task has spent some of its budget, and so has one that a runner
\* with an active run has read as retrying: its cancellation puts that back.
Spent ==
    /\ \A t \in Tasks : task[t].status = "retrying" => task[t].retries > 0
    /\ \A c \in Cores, t \in Tasks :
          /\ worker[c][t].run \in RunIds /\ Active(worker[c][t].run) /\ worker[c][t].seen = "retrying"
          => task[t].retries > 0

OrderInv == RowsInOrder /\ ActiveLatest /\ OwnSlot /\ Spent

\* The chain that ends in a run is never longer than what its Task has spent, and
\* shorter once its failure has been counted.
Counted(g) ==
    /\ \A r \in RunIds : g[r] \in 0..MaxRetries
    /\ \A r \in RunIds : Active(r) => g[r] <= task[run[r].task].retries
    /\ \A r \in RunIds :
          run[r].status = "failed" /\ IsLatest(r) /\ task[run[r].task].status = "retrying" =>
             g[r] < task[run[r].task].retries
    /\ \A c \in Cores, t \in Tasks :
          /\ worker[c][t].pc \in {"entered", "provider", "settle"} /\ Active(worker[c][t].run)
          => g[worker[c][t].run] <= worker[c][t].tries

BudgetInv == OrderInv /\ (\E g : Sol(g)) /\ \A g : Sol(g) => Counted(g)

-----------------------------------------------------------------------------
(* What a step does to the runs, the Tasks and the budget. *)

\* Nothing is counted: no run fails, none comes, no Task turns to retrying.
NoneFails ==
    \A q \in RunIds :
       /\ Active(q) => run'[q].status # "failed"
       /\ run[q].status = "none" => run'[q].status = "none"
BudgetKept ==
    \A t \in Tasks :
       /\ task'[t].retries = task[t].retries
       /\ task'[t].status = "retrying" => task[t].status = "retrying"
NothingCounted == NoneFails /\ BudgetKept

\* An active run closes, and its Task with it.
Closes(r) ==
    LET t == run[r].task IN
    /\ Active(r) /\ run'[r].status \in TerminalStatuses
    /\ OnlyRun(r) /\ OnlyTask(t)
    /\ task'[t].status = "retrying" =>
          /\ task'[t].retries > 0
          /\ run'[r].status = "failed" => \A g : Sol(g) => g[r] < task'[t].retries

\* A run is inserted: a first attempt, or the retry of the latest failed run.
Comes(q) ==
    LET p == run'[q].pred IN
    /\ task' = task
    /\ Fresh(q) /\ run'[q].status = "pending" /\ OnlyRun(q) /\ ReserveSlot
    /\ \A x \in RunIds : Active(x) => run[x].task # run'[q].task
    /\ \/ p = 0
       \/ /\ p \in RunIds /\ run[p].status = "failed" /\ IsLatest(p) /\ run[p].task = run'[q].task
          /\ task[run[p].task].status = "retrying" /\ run'[q].trigger = "retry"

BudgetStep == NothingCounted \/ \E r \in RunIds : Closes(r) \/ Comes(r)

\* The solutions of the recursion after a step extend those before it.
LEMMA Unchained ==
  ASSUME \A q \in RunIds : run'[q].pred = run[q].pred, NEW g
  PROVE  Sol(g)' <=> Sol(g)
  BY DEF Sol

\* Depth is one of the solutions, if there is any.
LEMMA DepthSolves == (\E g : Sol(g)) => Sol(Depth)
  BY Zenon DEF Sol, Depth

\* A step that inserts nothing leaves every predecessor as it is.
LEMMA PredsKept ==
  ASSUME IInv, StepRows, NothingCounted \/ \E r \in RunIds : Closes(r), NEW q \in RunIds
  PROVE  /\ run'[q].pred = run[q].pred /\ run'[q].task = run[q].task /\ run'[q].trigger = run[q].trigger
         /\ run'[q].status = "none" <=> run[q].status = "none"
<1>1. RowMove(q)
  BY DEF StepRows
<1>2. run[q].status = "none" => run'[q].status = "none"
  BY DEF NothingCounted, NoneFails, Closes, OnlyRun, Active, ActiveStatuses
<1> QED BY <1>1, <1>2 DEF RowMove, SameRun, Active, ActiveStatuses, Settled, TerminalStatuses

\* Before an insertion: what a solution after it was worth.
LEMMA ComesSolution ==
  ASSUME IInv, RowsInOrder, NEW q \in RunIds, Comes(q), NEW g, Sol(g)'
  PROVE  /\ Sol([g EXCEPT ![q] = 0])
         /\ g[q] = IF run'[q].pred \in 1..(q - 1) THEN 1 + g[run'[q].pred] ELSE 0
<1> DEFINE h == [g EXCEPT ![q] = 0]
<1>1. g = [r \in RunIds |-> IF run'[r].pred \in 1..(r - 1) THEN 1 + g[run'[r].pred] ELSE 0]
  BY DEF Sol
<1>2. run[q].status = "none" /\ run[q].pred = 0
  BY DEF Comes, Fresh, RowsInOrder
<1>3. \A r \in RunIds \ {q} : run'[r] = run[r]
  BY DEF Comes, OnlyRun
<1>4. \A r \in RunIds : run[r].pred # q
  BY <1>2, RunIdsAreNat DEF IInv, RetryOnce
<1>5. h = [r \in RunIds |-> IF r = q THEN 0 ELSE g[r]]
  BY <1>1
<1>6. ASSUME NEW r \in RunIds
      PROVE  h[r] = IF run[r].pred \in 1..(r - 1) THEN 1 + h[run[r].pred] ELSE 0
  <2>1. CASE r = q
    BY <1>2, <1>5, <2>1
  <2>2. CASE r # q /\ run[r].pred \in 1..(r - 1)
    <3>1. run[r].pred \in RunIds
      BY <2>2, ConstantsAssumption DEF RunIds
    <3>2. h[run[r].pred] = g[run[r].pred]
      BY <1>4, <1>5, <3>1
    <3>3. h[r] = 1 + g[run[r].pred]
      BY <1>1, <1>3, <1>5, <2>2
    <3> QED BY <2>2, <3>2, <3>3
  <2>3. CASE r # q /\ run[r].pred \notin 1..(r - 1)
    BY <1>1, <1>3, <1>5, <2>3
  <2> QED BY <2>1, <2>2, <2>3
<1>7. h = [r \in RunIds |-> h[r]]
  BY <1>5
<1>8. Sol(h)
  <2> HIDE DEF h
  <2> QED BY <1>6, <1>7 DEF Sol
<1>9. g[q] = IF run'[q].pred \in 1..(q - 1) THEN 1 + g[run'[q].pred] ELSE 0
  BY <1>1
<1> QED BY <1>8, <1>9

\* After any step: a solution agrees with one before it on every row that existed.
LEMMA OldSolution ==
  ASSUME IInv, RowsInOrder, StepRows, BudgetStep, NEW g, Sol(g)'
  PROVE  \E h : Sol(h) /\ \A x \in RunIds : run[x].status # "none" => h[x] = g[x]
<1>1. CASE NothingCounted \/ \E r \in RunIds : Closes(r)
  <2>1. \A q \in RunIds : run'[q].pred = run[q].pred
    BY <1>1, PredsKept
  <2>2. Sol(g)
    BY <2>1, Unchained
  <2> QED BY <2>2
<1>2. ASSUME NEW q \in RunIds, Comes(q)
      PROVE  \E h : Sol(h) /\ \A x \in RunIds : run[x].status # "none" => h[x] = g[x]
  <2>1. Sol([g EXCEPT ![q] = 0])
    BY <1>2, ComesSolution
  <2>2. run[q].status = "none"
    BY <1>2 DEF Comes, Fresh
  <2>3. \A x \in RunIds \ {q} : [g EXCEPT ![q] = 0][x] = g[x]
    BY DEF Sol
  <2> QED BY <2>1, <2>2, <2>3
<1> QED BY <1>1, <1>2 DEF BudgetStep

\* The recursion stays solvable.
LEMMA StillSolvable ==
  ASSUME IInv, RowsInOrder, StepRows, BudgetStep, NEW g, Sol(g)
  PROVE  (\E h : Sol(h))'
<1>1. CASE NothingCounted \/ \E r \in RunIds : Closes(r)
  <2>1. \A q \in RunIds : run'[q].pred = run[q].pred
    BY <1>1, PredsKept
  <2>2. Sol(g)'
    BY <2>1, Unchained
  <2> QED BY <2>2
<1>2. ASSUME NEW q \in RunIds, Comes(q) PROVE (\E h : Sol(h))'
  <2> DEFINE v == IF run'[q].pred \in 1..(q - 1) THEN 1 + g[run'[q].pred] ELSE 0
             h == [r \in RunIds |-> IF r = q THEN v ELSE g[r]]
  <2>1. g = [r \in RunIds |-> IF run[r].pred \in 1..(r - 1) THEN 1 + g[run[r].pred] ELSE 0]
    BY DEF Sol
  <2>2. \A r \in RunIds \ {q} : run'[r] = run[r]
    BY <1>2 DEF Comes, OnlyRun
  <2>3. \A r \in RunIds : run[r].pred # q
    BY <1>2, RunIdsAreNat DEF IInv, RetryOnce, Comes, Fresh
  <2>4. ASSUME NEW r \in RunIds
        PROVE  h[r] = IF run'[r].pred \in 1..(r - 1) THEN 1 + h[run'[r].pred] ELSE 0
    <3>1. ASSUME run'[r].pred \in 1..(r - 1) PROVE run'[r].pred \in RunIds
      BY <3>1, ConstantsAssumption DEF RunIds
    <3>2. CASE r = q
      <4>1. run'[q].pred \in 1..(q - 1) => run'[q].pred # q
        BY DEF RunIds
      <4>2. run'[q].pred \in 1..(q - 1) => h[run'[q].pred] = g[run'[q].pred]
        BY <3>1, <3>2, <4>1
      <4>3. h[q] = v
        OBVIOUS
      <4> HIDE DEF h
      <4>4. h[q] = IF run'[q].pred \in 1..(q - 1) THEN 1 + h[run'[q].pred] ELSE 0
        BY <4>2, <4>3, Zenon
      <4> QED BY <3>2, <4>4, Zenon
    <3>3. CASE r # q
      <4>1. run'[r].pred = run[r].pred /\ run[r].pred # q
        BY <2>2, <2>3, <3>3
      <4>2. h[r] = g[r]
        BY <3>3
      <4>3. g[r] = IF run[r].pred \in 1..(r - 1) THEN 1 + g[run[r].pred] ELSE 0
        BY <2>1
      <4> QED BY <3>1, <4>1, <4>2, <4>3
    <3> QED BY <3>2, <3>3
  <2>5. h = [r \in RunIds |-> h[r]]
    OBVIOUS
  <2>6. PICK k : k = h
    OBVIOUS
  <2> HIDE DEF h
  <2>7. k = [r \in RunIds |-> IF run'[r].pred \in 1..(r - 1) THEN 1 + k[run'[r].pred] ELSE 0]
    BY <2>4, <2>5, <2>6
  <2>8. Sol(k)'
    BY <2>7 DEF Sol
  <2> QED BY <2>8
<1> QED BY <1>1, <1>2 DEF BudgetStep

-----------------------------------------------------------------------------
(* Every step is of this form. *)

\* The updates that count nothing.
LEMMA CountsNothing ==
  ASSUME IInv
  PROVE  /\ run' = run => NoneFails
         /\ task' = task => BudgetKept
         /\ \A R : ClosedAt(R, "canceled") /\ (\A q \in RunIds \cap R : Active(q)) => NoneFails
         /\ \A r \in RunIds : \A o, b : Active(r) /\ OwnedAt(r, o, b) => NoneFails
         /\ \A r \in RunIds : Active(r) /\ EnteredAt(r) => NoneFails
         /\ \A t \in Tasks : \A s :
               TaskAt(t, s, task[t].retries) /\ (s = "retrying" => task[t].status = "retrying") => BudgetKept
<1>1. \A R : ClosedAt(R, "canceled") /\ (\A q \in RunIds \cap R : Active(q)) => NoneFails
  BY DEF NoneFails, ClosedAt, Active, ActiveStatuses
<1>2. \A r \in RunIds : \A o, b : Active(r) /\ OwnedAt(r, o, b) => NoneFails
  BY DEF NoneFails, OwnedAt, OnlyRun, Active, ActiveStatuses
<1>3. \A r \in RunIds : Active(r) /\ EnteredAt(r) => NoneFails
  BY DEF NoneFails, EnteredAt, OnlyRun, Active, ActiveStatuses
<1>4. \A t \in Tasks : \A s :
         TaskAt(t, s, task[t].retries) /\ (s = "retrying" => task[t].status = "retrying") => BudgetKept
  BY DEF BudgetKept, TaskAt, OnlyTask
<1>5. (run' = run => NoneFails) /\ (task' = task => BudgetKept)
  BY DEF NoneFails, BudgetKept, Active, ActiveStatuses
<1> QED BY <1>1, <1>2, <1>3, <1>4, <1>5

\* The terminal transaction: no sibling owns the Task, so it closes with the run.
LEMMA TerminalizeBudget ==
  ASSUME "auto" \notin Faults, IInv, NEW r \in RunIds, Active(r), NEW target, NEW n,
         NEW to \in TerminalStatuses, Terminalize(r, target, n, to),
         target = "retrying" => n > 0 /\ (to = "failed" => \A g : Sol(g) => g[r] < n)
  PROVE  Closes(r)
<1> DEFINE t == run[r].task
<1>1. ~Duplicate(r)
  BY DEF Duplicate, IInv, OneActive
<1>2. t \in Tasks
  BY Tables DEF RunRow
<1>3. ClosedAt({r}, to) /\ TaskAt(t, target, n)
  BY <1>1, <1>2, RowFacts, TaskFacts DEF Terminalize
<1>4. run'[r].status = to /\ OnlyRun(r)
  BY <1>3 DEF ClosedAt, OnlyRun
<1> QED BY <1>3, <1>4 DEF Closes, TaskAt

\* The rejection: the current retry spends one unit more than its chain is long;
\* a run that is not the current retry of a retrying Task is no retry at all.
LEMMA RejectBudget ==
  ASSUME IInv, BudgetInv, NEW r \in RunIds, Active(r), Reject(r)
  PROVE  Closes(r)
<1> DEFINE t == run[r].task
           next == NextAfterFailure("retrying", task[t].retries, MaxRetries)
<1>1. t \in Tasks /\ task[t].retries \in 0..MaxRetries
  BY Tables DEF RunRow, TaskRow
<1>2. run'[r].status = "failed" /\ OnlyRun(r)
  <2>1. ClosedAt({r}, "failed")
    BY RowFacts DEF Reject
  <2> QED BY <2>1 DEF ClosedAt, OnlyRun
<1>3. IsLatest(r)
  BY DEF BudgetInv, OrderInv, ActiveLatest
<1>4. CASE run[r].trigger = "retry" /\ task[t].status = "retrying"
  <2>1. TaskAt(t, next.status, next.count)
    BY <1>1, <1>3, <1>4, TaskFacts DEF Reject
  <2>2. next.status = "retrying" => next.count = task[t].retries + 1
    BY DEF NextAfterFailure
  <2>3. \A g : Sol(g) => g[r] \in Nat /\ g[r] <= task[t].retries
    BY ConstantsAssumption DEF BudgetInv, Counted
  <2> HIDE DEF next
  <2>4. next.status = "retrying" => next.count > 0 /\ \A g : Sol(g) => g[r] < next.count
    BY <1>1, <2>2, <2>3, ConstantsAssumption
  <2> QED BY <1>2, <2>1, <2>4 DEF Closes, TaskAt, TerminalStatuses
<1>5. CASE ~(run[r].trigger = "retry" /\ task[t].status = "retrying")
  <2>1. task' = task
    BY <1>5 DEF Reject
  <2>2. ASSUME task[t].status = "retrying" PROVE task[t].retries > 0 /\ \A g : Sol(g) => g[r] = 0
    <3>1. run[r].pred = 0
      BY <1>5, <2>2 DEF BudgetInv, OrderInv, RowsInOrder
    <3>2. task[t].retries > 0
      BY <1>1, <2>2 DEF BudgetInv, OrderInv, Spent
    <3> QED BY <3>1, <3>2 DEF Sol
  <2> QED BY <1>1, <1>2, <2>1, <2>2 DEF Closes, OnlyTask, TerminalStatuses
<1> QED BY <1>4, <1>5

\* A runner that gives up counts nothing.
LEMMA GiveUpBudget ==
  ASSUME IInv, NEW c \in Cores, NEW t \in Tasks, worker[c][t].run \in RunIds, NEW onError,
         GiveUp(c, t, onError)
  PROVE  NothingCounted
<1> DEFINE r == worker[c][t].run
<1>1. BudgetKept
  BY CountsNothing DEF GiveUp
<1>2. CASE run' = run
  BY <1>1, <1>2, CountsNothing DEF NothingCounted
<1>3. CASE run' = WithOwner(r, NoCore, FALSE) /\ run[r].status = "pending"
  BY <1>1, <1>3, RowFacts, CountsNothing DEF NothingCounted, Active, ActiveStatuses
<1>4. CASE run' = Closed({r}, "canceled") /\ run[r].status = "pending"
  BY <1>1, <1>4, RowFacts, CountsNothing DEF NothingCounted, Active, ActiveStatuses
<1> QED BY <1>2, <1>3, <1>4 DEF GiveUp, GivenUp

\* The orphan transaction counts nothing.
LEMMA CancelOrphansBudget ==
  ASSUME IInv, NEW t \in Tasks, CancelOrphans(t)
  PROVE  NothingCounted
<1> DEFINE R == {r \in RunsOf(t) : Active(r)}
<1>1. ClosedAt(R, "canceled") /\ \A q \in RunIds \cap R : Active(q)
  BY RowFacts DEF CancelOrphans
<1>2. task' = task \/ task' = WithStatus(t, "canceled")
  BY DEF CancelOrphans
<1>3. BudgetKept
  BY <1>2, TaskFacts, CountsNothing
<1> QED BY <1>1, <1>3, CountsNothing DEF NothingCounted

\* Every step of a runner.
LEMMA RunnerBudget ==
  ASSUME "auto" \notin Faults, IInv, SlotInv, BudgetInv, NEW c \in Cores, NEW t \in Tasks,
         RunnerStep(c, t) \/ Heartbeat(c, t) \/ DeadlinePasses(c, t)
  PROVE  BudgetStep
<1> DEFINE w == worker[c][t]
           r == worker[c][t].run
<1>0. /\ w.pc \notin {"idle", "admitted"} => r \in RunIds
      /\ r \in RunIds => run[r].task = t
      /\ task[t].retries \in 0..MaxRetries /\ w.tries \in 0..MaxRetries
  BY RunnerFacts, Tables DEF SlotInv, RunnerInv, RunnerAt, TaskRow, Runner
<1>1. ASSUME NoneFails, task' = task PROVE BudgetStep
  BY <1>1, CountsNothing DEF BudgetStep, NothingCounted
<1>2. ASSUME run' = run, task' = task PROVE BudgetStep
  BY <1>1, <1>2, CountsNothing
<1>3. ASSUME Reserve(c, t) PROVE BudgetStep
  <2>1. CASE run' = run
    BY <1>2, <1>3, <2>1 DEF Reserve
  <2>2. ASSUME NEW q \in RunIds, Fresh(q), run' = Insert(q, t, "manual", 0, TRUE),
               \A x \in RunsOf(t) : ~Active(x), ReserveSlot
        PROVE  BudgetStep
    <3>1. InsertedAt(q, t, "manual", 0, TRUE)
      BY <2>2, RowFacts
    <3>2. \A x \in RunIds : Active(x) => run[x].task # t
      BY <2>2 DEF RunsOf, Active, ActiveStatuses
    <3>3. Comes(q)
      BY <1>3, <2>2, <3>1, <3>2 DEF Comes, InsertedAt, Reserve
    <3> QED BY <3>3 DEF BudgetStep
  <2> QED BY <1>3, <2>1, <2>2 DEF Reserve
<1>4. ASSUME Launch(c, t) PROVE BudgetStep
  <2>1. r \in RunIds
    BY <1>0, <1>4 DEF Launch, At
  <2>2. CASE run' = WithOwner(r, c, TRUE) /\ task' = task /\ run[r].status \in {"pending", "running"}
    BY <1>1, <2>1, <2>2, RowFacts, CountsNothing DEF Active, ActiveStatuses
  <2>3. CASE GiveUp(c, t, Freed(c, t))
    BY <2>1, <2>3, GiveUpBudget DEF BudgetStep
  <2> QED BY <1>2, <1>4, <2>2, <2>3 DEF Launch, rows
<1>5. ASSUME FailUnclaimed(c, t) \/ FailRefused(c, t) PROVE BudgetStep
  <2>1. r \in RunIds
    BY <1>0, <1>5 DEF FailUnclaimed, FailRefused, At
  <2>2. CASE CanReject(c, r) /\ Reject(r)
    BY <2>1, <2>2, RejectBudget DEF CanReject, BudgetStep
  <2> QED BY <1>2, <1>5, <2>2 DEF FailUnclaimed, FailRefused, rows
<1>6. ASSUME Abort(c, t) PROVE BudgetStep
  BY <1>0, <1>6, GiveUpBudget DEF Abort, At, BudgetStep
<1>7. ASSUME NodeRefuses(c, t) PROVE BudgetStep
  <2>1. r \in RunIds
    BY <1>0, <1>7 DEF NodeRefuses, MayLoad, At
  <2>2. task[t].status = "retrying" => task[t].retries > 0
    BY DEF BudgetInv, OrderInv, Spent
  <2>3. CASE Terminalize(r, task[t].status, task[t].retries, "canceled") /\ run[r].status = "pending"
    <3>1. Active(r) /\ "canceled" \in TerminalStatuses
      BY <2>3 DEF Active, ActiveStatuses, TerminalStatuses
    <3>2. Closes(r)
      BY <2>1, <2>2, <2>3, <3>1, TerminalizeBudget
    <3> QED BY <2>1, <3>2 DEF BudgetStep
  <2> QED BY <1>2, <1>7, <2>3 DEF NodeRefuses, Conclude, TerminalOK, rows
<1>8. ASSUME Load(c, t) \/ EnterRefused(c, t) \/ BeginProvider(c, t) \/ ProviderReturns(c, t)
      PROVE  BudgetStep
  BY <1>2, <1>8 DEF Load, EnterRefused, BeginProvider, ProviderReturns
<1>9. ASSUME Enter(c, t) PROVE BudgetStep
  <2>1. r \in RunIds /\ Active(r)
    BY <1>0, <1>9 DEF Enter, EntryOpen, At, Active, ActiveStatuses
  <2>2. EnteredAt(r) /\ TaskAt(t, "running", task[t].retries)
    BY <1>9, <2>1, RowFacts, TaskFacts DEF Enter
  <2> QED BY <2>1, <2>2, CountsNothing DEF BudgetStep, NothingCounted
<1>10. ASSUME EnterPaused(c, t) PROVE BudgetStep
  <2>1. r \in RunIds
    BY <1>0, <1>10 DEF EnterPaused, EntryOpen, At
  <2>2. NoneFails
    BY <1>10, <2>1, RowFacts, CountsNothing DEF EnterPaused, Active, ActiveStatuses
  <2> QED BY <1>1, <1>10, <2>2 DEF EnterPaused
<1>11. ASSUME CancelEntered(c, t) PROVE BudgetStep
  <2>1. r \in RunIds /\ run[r].task = t
    BY <1>0, <1>11 DEF CancelEntered, At
  <2>2. CASE run' = Closed({r}, "canceled") /\ task' = WithStatus(t, w.seen) /\ run[r].status = "running"
    <3>1. ClosedAt({r}, "canceled") /\ TaskAt(t, w.seen, task[t].retries) /\ Active(r)
      BY <2>2, RowFacts, TaskFacts DEF Active, ActiveStatuses
    <3>2. w.seen = "retrying" => task[t].retries > 0
      BY <2>1, <3>1 DEF BudgetInv, OrderInv, Spent
    <3>3. Closes(r)
      BY <2>1, <3>1, <3>2 DEF Closes, ClosedAt, TaskAt, OnlyRun, TerminalStatuses
    <3> QED BY <2>1, <3>3 DEF BudgetStep
  <2> QED BY <1>2, <1>11, <2>2 DEF CancelEntered
<1>12. ASSUME PreProviderFail(c, t) PROVE BudgetStep
  <2>1. r \in RunIds
    BY <1>0, <1>12 DEF PreProviderFail, At
  <2>2. CASE Terminalize(r, "failed", task[t].retries, "failed") /\ run[r].status = "running"
    <3>1. Active(r) /\ "failed" \in TerminalStatuses
      BY <2>2 DEF Active, ActiveStatuses, TerminalStatuses
    <3>2. Closes(r)
      BY <2>1, <2>2, <3>1, TerminalizeBudget
    <3> QED BY <2>1, <3>2 DEF BudgetStep
  <2> QED BY <1>2, <1>12, <2>2 DEF PreProviderFail, Conclude, TerminalOK, rows
<1>13. ASSUME Settle(c, t) PROVE BudgetStep
  <2> DEFINE o == w.outcome
             next == NextAfterFailure("running", w.tries, MaxRetries)
             target == CASE o = "failed" -> next.status
                         [] o \in {"final", "timeout"} -> "failed"
                         [] OTHER -> o
             n == CASE o \in {"failed", "final"} -> next.count
                    [] o \in {"timeout", "canceled"} -> task[t].retries
                    [] OTHER -> 0
             to == IF o \in {"final", "timeout"} THEN "failed" ELSE o
  <2>1. r \in RunIds /\ o \in Outcomes /\ w.pc = "settle"
    BY <1>13, RunnerFacts DEF Settle, At
  <2>2. to \in TerminalStatuses
    BY <2>1 DEF Outcomes, TerminalStatuses
  <2>3. target = "retrying" => n = w.tries + 1
    BY <2>1 DEF Outcomes, NextAfterFailure
  <2>4. Active(r) => \A g : Sol(g) => g[r] \in Nat /\ g[r] <= w.tries
    BY <2>1, ConstantsAssumption DEF BudgetInv, Counted
  <2>5. \/ run' = run /\ task' = task
        \/ run[r].status = "running" /\ Terminalize(r, target, n, to)
    BY <1>13 DEF Settle, Conclude, TerminalOK, rows
  <2> HIDE DEF target, to, n
  <2>6. CASE run[r].status = "running" /\ Terminalize(r, target, n, to)
    <3>1. Active(r)
      BY <2>6 DEF Active, ActiveStatuses
    <3>2. target = "retrying" => n > 0 /\ \A g : Sol(g) => g[r] < n
      BY <1>0, <2>3, <2>4, <3>1, ConstantsAssumption
    <3>3. Closes(r)
      BY <2>1, <2>2, <2>6, <3>1, <3>2, TerminalizeBudget
    <3> QED BY <2>1, <3>3 DEF BudgetStep
  <2> QED BY <1>2, <2>5, <2>6
<1>14. ASSUME Recover(c, t) PROVE BudgetStep
  <2>1. r \in RunIds /\ RecoveryTarget(t) # "retrying" /\ "failed" \in TerminalStatuses
    BY <1>0, <1>14 DEF Recover, At, RecoveryTarget, TerminalStatuses
  <2>2. CASE Active(r) /\ Terminalize(r, RecoveryTarget(t), task[t].retries, "failed")
    BY <2>1, <2>2, TerminalizeBudget DEF BudgetStep
  <2> QED BY <1>2, <1>14, <2>2 DEF Recover, TerminalOK, Active, rows
<1>15. ASSUME Heartbeat(c, t) PROVE BudgetStep
  <2>1. r \in RunIds
    BY <1>0, <1>15 DEF Heartbeat, Beating
  <2>2. NoneFails
    BY <1>15, <2>1, RowFacts, CountsNothing DEF Heartbeat
  <2> QED BY <1>1, <1>15, <2>2 DEF Heartbeat
<1>16. ASSUME DeadlinePasses(c, t) PROVE BudgetStep
  BY <1>2, <1>16 DEF DeadlinePasses
<1> QED BY <1>3, <1>4, <1>5, <1>6, <1>7, <1>8, <1>9, <1>10, <1>11, <1>12, <1>13, <1>14, <1>15, <1>16
        DEF RunnerStep

\* A Cancel that takes the running run back restores what the runner had read: it
\* is the runner's own run, so that much has been spent.
LEMMA CancelOwnedBudget ==
  ASSUME "auto" \notin Faults, IInv, SlotInv, BudgetInv, NEW c \in Cores, NEW t \in Tasks,
         CancelOwned(c, t)
  PROVE  BudgetStep
<1> DEFINE mine == {r \in RunningRuns(t) : run[r].owner = c}
           w == worker[c][t]
<1>1. CASE run' = run /\ task' = task
  BY <1>1, CountsNothing DEF BudgetStep, NothingCounted
<1>2. CASE /\ mine # {} /\ w.pc # "idle" /\ run' = Closed(mine, "canceled")
           /\ \/ task' = WithStatus(t, w.seen) /\ w.seen # "none"
              \/ task' = WithStatus(t, "canceled")
              \/ task' = task /\ task[t].status \notin ActiveStatuses
  <2>1. PICK r \in RunIds : run[r].status = "running" /\ run[r].task = t /\ run[r].owner = c /\ r \in mine
    BY <1>2 DEF RunningRuns, RunsOf
  <2>2. Active(r) /\ mine = {r}
    BY <2>1 DEF IInv, OneActive, Active, ActiveStatuses, RunningRuns, RunsOf
  <2> HIDE DEF mine
  <2>3. run'[r].status = "canceled" /\ OnlyRun(r)
    <3>1. run' = Closed({r}, "canceled")
      BY <1>2, <2>2
    <3>2. ClosedAt({r}, "canceled")
      BY <3>1, RowFacts
    <3> QED BY <3>2 DEF ClosedAt, OnlyRun
  <2>4. \/ TaskAt(t, w.seen, task[t].retries) /\ w.seen # "none"
        \/ TaskAt(t, "canceled", task[t].retries)
        \/ TaskAt(t, task[t].status, task[t].retries) /\ task[t].status \notin ActiveStatuses
    BY <1>2, TaskFacts
  <2>5. ASSUME w.seen = "retrying" PROVE task[t].retries > 0
    <3>1. w.pc \notin {"idle", "admitted"}
      BY <2>5 DEF SlotInv, RunnerInv, RunnerAt
    <3>2. w.run = r
      BY <2>1, <2>2, <3>1 DEF BudgetInv, OrderInv, OwnSlot
    <3> QED BY <2>2, <2>5, <3>2 DEF BudgetInv, OrderInv, Spent
  <2>6. Closes(r)
    BY <2>1, <2>2, <2>3, <2>4, <2>5 DEF Closes, TaskAt, TerminalStatuses, ActiveStatuses
  <2> QED BY <2>6 DEF BudgetStep
<1>3. \/ run' = run /\ task' = task
      \/ /\ mine # {} /\ w.pc # "idle" /\ run' = Closed(mine, "canceled")
         /\ \/ task' = WithStatus(t, w.seen) /\ w.seen # "none"
            \/ task' = WithStatus(t, "canceled")
            \/ task' = task /\ task[t].status \notin ActiveStatuses
  BY DEF CancelOwned
<1> QED BY <1>1, <1>2, <1>3

\* What operators ask for and what their requests do.
LEMMA OperatorBudget ==
  ASSUME "auto" \notin Faults, IInv, SlotInv, BudgetInv, NEW c \in Cores, NEW t \in Tasks,
         OperatorAsks(c, t) \/ OperatorStep(c, t)
  PROVE  BudgetStep
<1>1. ASSUME run' = run, task' = task PROVE BudgetStep
  BY <1>1, CountsNothing DEF BudgetStep, NothingCounted
<1>2. ASSUME Trigger(c, t) \/ CancelRead(c, t) \/ PauseRead(c, t) PROVE BudgetStep
  BY <1>1, <1>2 DEF Trigger, CancelRead, PauseRead
<1>3. ASSUME CancelDirect(c, t) \/ CancelSignal(c, t) \/ CancelOrphan(c, t) PROVE BudgetStep
  <2>1. CancelOrphans(t) \/ (run' = run /\ task' = task)
    BY <1>3 DEF CancelDirect, CancelSignal, CancelOrphan, rows
  <2> QED BY <1>1, <2>1, CancelOrphansBudget DEF BudgetStep
<1>4. ASSUME CancelPending(c, t) PROVE BudgetStep
  <2> DEFINE queued == {r \in RunsOf(t) : run[r].status = "pending"}
  <2>1. \A q \in RunIds \cap queued : Active(q)
    BY DEF Active, ActiveStatuses
  <2>2. run' = run \/ ClosedAt(queued, "canceled")
    BY <1>4, RowFacts DEF CancelPending
  <2> HIDE DEF queued
  <2>3. NoneFails
    BY <2>1, <2>2, CountsNothing
  <2>4. BudgetKept
    BY <1>4, CountsNothing DEF CancelPending
  <2> QED BY <2>3, <2>4 DEF BudgetStep, NothingCounted
<1>5. ASSUME Overwrite(c, t) PROVE BudgetStep
  BY <1>5, TaskFacts, CountsNothing DEF Overwrite, BudgetStep, NothingCounted
<1>6. ASSUME PauseDisable(c, t) \/ Resume(c, t) PROVE BudgetStep
  <2>1. run' = run /\ \E b \in BOOLEAN : task' = [task EXCEPT ![t].enabled = b]
    BY <1>6 DEF PauseDisable, Resume
  <2>2. BudgetKept
    BY <2>1, Tables DEF BudgetKept, TaskRow
  <2> QED BY <2>1, <2>2, CountsNothing DEF BudgetStep, NothingCounted
<1> QED BY <1>2, <1>3, <1>4, <1>5, <1>6, CancelOwnedBudget DEF OperatorAsks, OperatorStep

\* The sweeps and the deliveries.
LEMMA SweepBudget ==
  ASSUME IInv, NEW c \in Cores, NEW r \in RunIds, SweepStep(c, r)
  PROVE  BudgetStep
<1> DEFINE t == run[r].task
<1>0. t \in Tasks
  BY Tables DEF RunRow
<1>1. ASSUME run' = run, task' = task PROVE BudgetStep
  BY <1>1, CountsNothing DEF BudgetStep, NothingCounted
<1>2. CASE LaunchDurable(c, r)
  <2>1. CASE run' = Closed({r}, "canceled") /\ Durable(r)
    <3>1. NoneFails
      BY <2>1, RowFacts, CountsNothing DEF Durable, Active, ActiveStatuses
    <3>2. task' = task \/ task' = WithStatus(t, "canceled")
      BY <1>2, <2>1 DEF LaunchDurable, rows
    <3>3. BudgetKept
      BY <1>0, <3>2, TaskFacts, CountsNothing
    <3> QED BY <3>1, <3>3 DEF BudgetStep, NothingCounted
  <2> QED BY <1>1, <1>2, <2>1 DEF LaunchDurable, rows
<1>3. CASE ReapClaim(c, r)
  BY <1>3, RowFacts, CountsNothing DEF ReapClaim, Reapable, BudgetStep, NothingCounted
<1>4. CASE DeliverRetry(c, r)
  <2>1. CASE run' = run /\ (task' = task \/ task' = WithStatus(t, "canceled"))
    <3>1. BudgetKept
      BY <1>0, <2>1, TaskFacts, CountsNothing
    <3> QED BY <2>1, <3>1, CountsNothing DEF BudgetStep, NothingCounted
  <2>2. ASSUME ClaimHeld(c, r), ~Superseded(r), ReserveSlot, task' = task,
               NEW q \in RunIds, Fresh(q), run' = Insert(q, t, "retry", r, FALSE)
        PROVE  BudgetStep
    <3>1. InsertedAt(q, t, "retry", r, FALSE)
      BY <2>2, RowFacts
    <3>2. run[r].status = "failed"
      BY <2>2 DEF ClaimHeld, IInv, EffectOfFailed
    <3>3. task[t].status = "retrying" /\ IsLatest(r) /\ \A x \in RunsOf(t) \ {r} : ~Active(x)
      BY <2>2 DEF Superseded
    <3>4. \A x \in RunIds : Active(x) => run[x].task # t
      BY <3>2, <3>3 DEF RunsOf, Active, ActiveStatuses
    <3>5. Comes(q)
      BY <2>2, <3>1, <3>2, <3>3, <3>4 DEF Comes, InsertedAt
    <3> QED BY <3>5 DEF BudgetStep
  <2> QED BY <1>4, <2>1, <2>2 DEF DeliverRetry, rows
<1>5. CASE FailEffect(c, r)
  <2>1. task' = task \/ task' = WithStatus(t, "failed")
    BY <1>5 DEF FailEffect
  <2>2. BudgetKept
    BY <1>0, <2>1, TaskFacts, CountsNothing
  <2> QED BY <1>5, <2>2, CountsNothing DEF FailEffect, BudgetStep, NothingCounted
<1>6. CASE RebuildRetryEffect(c, r) \/ ClaimEffect(c, r)
  BY <1>1, <1>6 DEF RebuildRetryEffect, ClaimEffect
<1> QED BY <1>2, <1>3, <1>4, <1>5, <1>6 DEF SweepStep

\* Every step of the specification.
LEMMA NextBudget ==
  ASSUME "auto" \notin Faults, IInv, SlotInv, BudgetInv, Next
  PROVE  BudgetStep
<1>1. ASSUME run' = run, task' = task PROVE BudgetStep
  BY <1>1, CountsNothing DEF BudgetStep, NothingCounted
<1>2. ASSUME NEW c \in Cores, ReapSettle(c) PROVE BudgetStep
  <2> DEFINE r == sweep[c].run
             t == run[r].task
  <2>1. r \in RunIds /\ sweep[c].seen \in ActiveStatuses
    BY <1>2 DEF ReapSettle, IInv, LocalOK, GoodClaim
  <2>2. RecoveryTarget(t) # "retrying" /\ "failed" \in TerminalStatuses
    BY DEF RecoveryTarget, TerminalStatuses
  <2>3. CASE Active(r) /\ Terminalize(r, RecoveryTarget(t), task[t].retries, "failed")
    BY <2>1, <2>2, <2>3, TerminalizeBudget DEF BudgetStep
  <2> QED BY <1>1, <1>2, <2>1, <2>3 DEF ReapSettle, TerminalOK, Active, rows
<1>3. ASSUME NEW c \in Cores, Crash(c) \/ Seal(c) \/ Shutdown(c) \/ Drained(c) PROVE BudgetStep
  BY <1>1, <1>3 DEF Crash, Seal, Shutdown, Drained
<1>4. ASSUME DisablePolicy PROVE BudgetStep
  <2>1. NoneFails
    BY <1>4, RowFacts, CountsNothing DEF DisablePolicy, PolicyRuns, Active, ActiveStatuses
  <2> QED BY <1>4, <2>1, CountsNothing DEF DisablePolicy, BudgetStep, NothingCounted
<1>5. ASSUME NEW r \in RunIds, RunLeaseExpires(r) PROVE BudgetStep
  BY <1>5, RowFacts, CountsNothing DEF RunLeaseExpires, BudgetStep, NothingCounted
<1>6. ASSUME UpdatePolicy \/ \E r \in RunIds : EffectLeaseExpires(r) PROVE BudgetStep
  BY <1>1, <1>6 DEF UpdatePolicy, EffectLeaseExpires
<1>7. \A t \in Tasks : ~ReserveAuto(t)
  BY DEF ReserveAuto
<1> QED BY <1>2, <1>3, <1>4, <1>5, <1>6, <1>7, RunnerBudget, OperatorBudget, SweepBudget DEF Next

-----------------------------------------------------------------------------
(* The order of the rows, the slots and the retries spent are kept. *)

\* A run that is active after a step was active before it, or is new.
LEMMA WasActive ==
  ASSUME StepRows, NEW r \in RunIds, Active(r)', run[r].status # "none"
  PROVE  Active(r) /\ run'[r].task = run[r].task
<1>1. RowMove(r)
  BY DEF StepRows
<1> QED BY <1>1 DEF RowMove, SameRun, Active

\* A new row is an insertion; the table below it is full and above it empty.
LEMMA NewRow ==
  ASSUME IInv, RowsInOrder, StepRows, BudgetStep, NEW q \in RunIds,
         run[q].status = "none", run'[q].status # "none"
  PROVE  Comes(q) /\ \A x \in RunIds : run[x].status # "none" <=> x < q
<1>1. ~NothingCounted
  BY DEF NothingCounted, NoneFails
<1>2. PICK r \in RunIds : Closes(r) \/ Comes(r)
  BY <1>1 DEF BudgetStep
<1>3. r = q
  BY <1>2 DEF Closes, Comes, OnlyRun
<1>4. Comes(q)
  BY <1>2, <1>3 DEF Closes, Active, ActiveStatuses
<1>5. \A x \in RunIds : run[x].status # "none" <=> x < q
  BY <1>4, RunIdsAreNat DEF Comes, Fresh, RowsInOrder
<1> QED BY <1>4, <1>5

\* Without an insertion every row keeps its place.
LEMMA NoNewRow ==
  ASSUME IInv, RowsInOrder, StepRows, BudgetStep,
         \A q \in RunIds : run[q].status = "none" => run'[q].status = "none"
  PROVE  /\ NothingCounted \/ \E r \in RunIds : Closes(r)
         /\ \A t : RunsOf(t)' = RunsOf(t)
         /\ \A r \in RunIds : IsLatest(r)' <=> IsLatest(r)
<1>1. NothingCounted \/ \E r \in RunIds : Closes(r)
  BY DEF BudgetStep, Comes, Fresh
<1>2. \A q \in RunIds : run'[q].task = run[q].task /\ (run'[q].status = "none" <=> run[q].status = "none")
  BY <1>1, PredsKept
<1>3. ASSUME NEW t PROVE RunsOf(t)' = RunsOf(t)
  BY <1>2 DEF RunsOf
<1>4. ASSUME NEW r \in RunIds PROVE IsLatest(r)' <=> IsLatest(r)
  <2>1. run'[r].task = run[r].task
    BY <1>2
  <2>2. RunsOf(run[r].task)' = RunsOf(run[r].task)
    BY <1>2, <2>1 DEF RunsOf
  <2> QED BY <2>1, <2>2 DEF IsLatest
<1> QED BY <1>1, <1>3, <1>4

\* A run that stays active keeps the retries of its Task: it is the only one.
LEMMA RetriesHeld ==
  ASSUME "auto" \notin Faults, IInv, BudgetStep, NEW r \in RunIds, Active(r), Active(r)'
  PROVE  task'[run[r].task].retries = task[run[r].task].retries
<1> DEFINE t == run[r].task
<1>1. t \in Tasks
  BY Tables DEF RunRow
<1>2. CASE NothingCounted
  BY <1>1, <1>2 DEF NothingCounted, BudgetKept
<1>3. ASSUME NEW x \in RunIds, Closes(x) PROVE task'[t] = task[t]
  <2>1. x # r
    BY <1>3 DEF Closes, Active, ActiveStatuses, TerminalStatuses
  <2>2. run[x].task # t
    BY <1>3, <2>1 DEF Closes, IInv, OneActive
  <2> QED BY <1>1, <1>3, <2>2 DEF Closes, OnlyTask
<1>4. ASSUME NEW x \in RunIds, Comes(x) PROVE task'[t] = task[t]
  BY <1>4 DEF Comes
<1> QED BY <1>2, <1>3, <1>4 DEF BudgetStep

\* The rows stay in order.
LEMMA RowsInOrderKept ==
  ASSUME IInv, RowsInOrder, StepRows, BudgetStep
  PROVE  RowsInOrder'
<1>1. ASSUME NEW r \in RunIds, NEW q \in RunIds, r < q, run'[q].status # "none"
      PROVE  run'[r].status # "none"
  <2>1. run[r].status # "none"
    BY <1>1, NewRow DEF RowsInOrder
  <2> QED BY <2>1, RowsKept
<1>2. ASSUME NEW r \in RunIds, run'[r].status = "none" \/ run'[r].trigger # "retry"
      PROVE  run'[r].pred = 0
  <2>1. CASE run[r].status = "none" /\ run'[r].status # "none"
    <3>1. Comes(r)
      BY <2>1, NewRow
    <3> QED BY <1>2, <2>1, <3>1 DEF Comes
  <2>2. CASE ~(run[r].status = "none" /\ run'[r].status # "none")
    <3>1. RowMove(r)
      BY DEF StepRows
    <3>2. run'[r] = run[r] \/ (SameRun(r) /\ Active(r))
      BY <2>2, <3>1 DEF RowMove
    <3>3. run[r].status # "none" => run'[r].status # "none"
      BY RowsKept
    <3> QED BY <1>2, <2>2, <3>2, <3>3 DEF SameRun, RowsInOrder
  <2> QED BY <2>1, <2>2
<1> QED BY <1>1, <1>2 DEF RowsInOrder

\* An active run stays the latest of its Task.
LEMMA ActiveLatestKept ==
  ASSUME IInv, RowsInOrder, ActiveLatest, StepRows, BudgetStep
  PROVE  ActiveLatest'
<1> SUFFICES ASSUME NEW r \in RunIds, Active(r)' PROVE IsLatest(r)'
  BY DEF ActiveLatest
<1>1. CASE \A q \in RunIds : run[q].status = "none" => run'[q].status = "none"
  <2>1. Active(r)
    BY <1>1, WasActive DEF Active, ActiveStatuses
  <2> QED BY <1>1, <2>1, NoNewRow DEF ActiveLatest
<1>2. ASSUME NEW q \in RunIds, run[q].status = "none", run'[q].status # "none" PROVE IsLatest(r)'
  <2>1. Comes(q) /\ \A x \in RunIds : run[x].status # "none" <=> x < q
    BY <1>2, NewRow
  <2>2. \A x \in RunIds \ {q} : run'[x] = run[x]
    BY <2>1 DEF Comes, OnlyRun
  <2>3. CASE r = q
    BY <1>2, <2>1, <2>2, <2>3, RunIdsAreNat DEF IsLatest, RunsOf
  <2>4. CASE r # q
    <3>1. Active(r) /\ IsLatest(r) /\ run[r].task # run'[q].task
      BY <2>1, <2>2, <2>4 DEF Active, Comes, ActiveLatest
    <3> QED BY <2>2, <2>4, <3>1 DEF IsLatest, RunsOf
  <2> QED BY <2>3, <2>4
<1> QED BY <1>1, <1>2

\* A core's active run stays the one its runner works on: a slot is taken only
\* for the one active run of its Task, and the reaper claims behind an idle slot.
LEMMA OwnSlotKept ==
  ASSUME "auto" \notin Faults, IInv, IInv', SlotInv, RunnerInv', OwnSlot, StepRows, StepSlots
  PROVE  OwnSlot'
<1> SUFFICES ASSUME NEW r \in RunIds, NEW c \in Cores, Active(r)', run'[r].owner = c,
                    worker'[c][run'[r].task].pc \notin {"idle", "admitted"}
             PROVE  worker'[c][run'[r].task].run = r
  BY DEF OwnSlot
<1> DEFINE t == run[r].task
           w == worker[c][t]
           n == worker'[c][t]
<1>0. RowMove(r) /\ t \in Tasks /\ c # NoCore
  BY Tables, ConstantsAssumption DEF StepRows, RunRow
<1>1. CASE Active(r) /\ run'[r].task = t /\ run[r].owner = c
  <2>1. SlotMove(c, t)
    BY <1>0, SlotMoves
  <2>2. n.pc \notin {"idle", "admitted"}
    BY <1>1
  <2>3. w.pc \notin {"idle", "admitted"} => w.run = r
    BY <1>1 DEF OwnSlot
  <2>4. Idle.pc = "idle"
    BY DEF Idle
  <2>5. CASE n = w
    BY <1>1, <2>2, <2>3, <2>5
  <2>6. CASE Advances(c, t)
    <3>1. w.run \in RunIds /\ n.run = w.run
      BY <2>6 DEF Advances
    <3>2. w.pc \notin {"idle", "admitted"}
      BY <1>0, <3>1, RunIdsAreNat DEF SlotInv, RunnerInv, RunnerAt
    <3> QED BY <1>1, <2>3, <3>1, <3>2
  <2>7. CASE Signals(c, t)
    BY <1>1, <2>2, <2>3, <2>7 DEF Signals, Carries
  <2>8. ASSUME NEW q \in RunIds, Takes(c, t, q) PROVE n.run = r
    <3>1. n.run = q /\ run'[q].status = "pending" /\ run'[q].task = t
      BY <2>8 DEF Takes, InsertedAt, Durable
    <3>2. Active(q)'
      BY <3>1 DEF Active, ActiveStatuses
    <3> QED BY <1>1, <3>1, <3>2 DEF IInv, OneActive
  <2> QED BY <1>1, <2>1, <2>2, <2>4, <2>5, <2>6, <2>7, <2>8 DEF SlotMove, Leaves, FreedAt, Admits
<1>2. CASE SameRun(r) /\ Claimed(c, r)
  <2>1. CASE worker' = worker /\ w.pc = "idle"
    BY <1>2, <2>1 DEF SameRun
  <2>2. ASSUME NEW u \in Tasks, worker'[c][u].run = r PROVE worker'[c][run'[r].task].run = r
    BY <2>2 DEF RunnerInv, RunnerAt
  <2> QED BY <1>2, <2>1, <2>2 DEF Claimed
<1>3. \/ Active(r) /\ run'[r].task = t /\ run[r].owner = c
      \/ SameRun(r) /\ Claimed(c, r)
  BY <1>0 DEF RowMove, SameRun, Settled, Claimed, Active, ActiveStatuses, TerminalStatuses
<1> QED BY <1>1, <1>2, <1>3

\* What has been spent stays spent while the run that read it is active.
LEMMA SpentKept ==
  ASSUME "auto" \notin Faults, IInv, SlotInv, Spent, StepRows, StepSlots, BudgetStep
  PROVE  Spent'
<1>1. ASSUME NEW t \in Tasks, task'[t].status = "retrying" PROVE task'[t].retries > 0
  <2>1. CASE NothingCounted
    BY <1>1, <2>1 DEF NothingCounted, BudgetKept, Spent
  <2>2. ASSUME NEW r \in RunIds, Closes(r) PROVE task'[t].retries > 0
    BY <1>1, <2>2 DEF Closes, OnlyTask, Spent
  <2>3. ASSUME NEW r \in RunIds, Comes(r) PROVE task'[t].retries > 0
    BY <1>1, <2>3 DEF Comes, Spent
  <2> QED BY <2>1, <2>2, <2>3 DEF BudgetStep
<1>2. ASSUME NEW c \in Cores, NEW t \in Tasks, worker'[c][t].run \in RunIds,
             Active(worker[c][t].run)', worker'[c][t].seen = "retrying"
      PROVE  task'[t].retries > 0
  <2> DEFINE w == worker[c][t]
             n == worker'[c][t]
  <2>1. SlotMove(c, t)
    BY SlotMoves
  <2>2. /\ w.pc \in {"idle", "admitted"} => w.seen = "none"
        /\ w.run \in RunIds => run[w.run].status # "none" /\ run[w.run].task = t
    BY DEF SlotInv, RunnerInv, RunnerAt
  <2>3. run'[n.run].status \in ActiveStatuses
    BY <1>2 DEF Active
  <2>4. ASSUME n.run = w.run PROVE Active(w.run) /\ task'[t].retries = task[t].retries
    <3>1. PICK r \in RunIds : r = w.run
      BY <1>2, <2>4
    <3>2. Active(r)' /\ run[r].status # "none" /\ run[r].task = t
      BY <2>2, <2>3, <2>4, <3>1 DEF Active
    <3>3. Active(r)
      BY <3>2, WasActive
    <3>4. task'[t].retries = task[t].retries
      BY <3>2, <3>3, RetriesHeld
    <3> QED BY <3>1, <3>3, <3>4
  <2>5. CASE n.run = w.run /\ n.seen = w.seen
    <3>1. Active(w.run) /\ w.run \in RunIds /\ w.seen = "retrying"
      BY <1>2, <2>4, <2>5
    <3> QED BY <2>4, <2>5, <3>1 DEF Spent
  <2>6. CASE n.run = w.run /\ n.seen = task[t].status
    BY <1>2, <2>4, <2>6 DEF Spent
  <2>7. \A q \in RunIds : ~Takes(c, t, q)
    BY <1>2, <2>2 DEF Takes
  <2>8. ~Admits(c, t) /\ n # Idle
    BY <1>2 DEF Admits, Idle
  <2>9. Advances(c, t) => n.run = w.run /\ n.seen \in {w.seen, task[t].status}
    BY DEF Advances, Carries
  <2>10. Signals(c, t) => n.run = w.run /\ n.seen = w.seen
    BY DEF Signals, Carries
  <2> QED BY <2>1, <2>5, <2>6, <2>7, <2>8, <2>9, <2>10 DEF SlotMove, Leaves, FreedAt
<1> QED BY <1>1, <1>2 DEF Spent

-----------------------------------------------------------------------------
(* The count is kept. *)

\* A solution after the step is within the budget.
LEMMA CountedKept ==
  ASSUME "auto" \notin Faults, IInv, IInv', SlotInv, BudgetInv, RowsInOrder', StepRows, StepSlots,
         BudgetStep, NEW g, Sol(g)'
  PROVE  Counted(g)'
<1>0. RowsInOrder /\ ActiveLatest
  BY DEF BudgetInv, OrderInv
<1>1. PICK h : Sol(h) /\ \A x \in RunIds : run[x].status # "none" => h[x] = g[x]
  BY <1>0, OldSolution
<1>2. Counted(h)
  BY <1>1 DEF BudgetInv
<1>3. \A x \in RunIds : g[x] = IF run'[x].pred \in 1..(x - 1) THEN 1 + g[run'[x].pred] ELSE 0
  BY DEF Sol
<1>4. \A t \in Tasks : task[t].retries \in 0..MaxRetries /\ task'[t].retries \in 0..MaxRetries
  BY DEF IInv, TypeOK, TaskRow
<1>5. \A x \in RunIds : run[x].task \in Tasks /\ run'[x].task \in Tasks
  BY DEF IInv, TypeOK, RunRow
\* A run that has just come is covered by what its Task has spent.
<1>6. ASSUME NEW q \in RunIds, run[q].status = "none", run'[q].status # "none"
      PROVE  g[q] \in 0..MaxRetries /\ g[q] <= task'[run'[q].task].retries
  <2> DEFINE p == run'[q].pred
  <2>1. Comes(q)
    BY <1>0, <1>6, NewRow
  <2>2. CASE p \notin 1..(q - 1)
    <3>1. g[q] = 0
      BY <1>3, <2>2
    <3> QED BY <1>4, <1>5, <3>1, ConstantsAssumption
  <2>3. CASE p \in 1..(q - 1)
    <3>1. p \in RunIds /\ p # 0
      BY <2>3, ConstantsAssumption DEF RunIds
    <3>2. /\ run[p].status = "failed" /\ IsLatest(p) /\ task[run[p].task].status = "retrying"
          /\ run[p].task = run'[q].task /\ task' = task
      BY <2>1, <3>1 DEF Comes
    <3>3. h[p] \in 0..MaxRetries /\ h[p] < task[run[p].task].retries
      BY <1>2, <3>1, <3>2 DEF Counted
    <3>4. g[p] = h[p]
      BY <1>1, <3>1, <3>2
    <3>5. g[q] = 1 + g[p]
      BY <1>3, <2>3
    <3> HIDE DEF p
    <3>6. task[run[p].task].retries \in 0..MaxRetries
      BY <1>4, <1>5, <3>1
    <3> QED BY <3>2, <3>3, <3>4, <3>5, <3>6, ConstantsAssumption
  <2> QED BY <2>2, <2>3
<1>7. ASSUME NEW r \in RunIds PROVE g[r] \in 0..MaxRetries
  <2>1. CASE run[r].status # "none"
    BY <1>1, <1>2, <2>1 DEF Counted
  <2>2. CASE run'[r].status = "none"
    <3>1. run'[r].pred = 0
      BY <2>2 DEF RowsInOrder
    <3>2. g[r] = 0
      BY <1>3, <3>1
    <3> QED BY <3>2, ConstantsAssumption
  <2> QED BY <1>6, <2>1, <2>2
<1>8. ASSUME NEW r \in RunIds, Active(r)' PROVE g[r] <= task'[run'[r].task].retries
  <2>1. CASE run[r].status = "none"
    BY <1>6, <1>8, <2>1 DEF Active, ActiveStatuses
  <2>2. CASE run[r].status # "none"
    <3>1. Active(r) /\ run'[r].task = run[r].task
      BY <1>8, <2>2, WasActive
    <3>2. task'[run[r].task].retries = task[run[r].task].retries
      BY <1>8, <3>1, RetriesHeld
    <3> QED BY <1>1, <1>2, <2>2, <3>1, <3>2 DEF Counted
  <2> QED BY <2>1, <2>2
<1>9. ASSUME NEW r \in RunIds, run'[r].status = "failed", IsLatest(r)',
             task'[run'[r].task].status = "retrying"
      PROVE  g[r] < task'[run'[r].task].retries
  <2>0. RowMove(r)
    BY DEF StepRows
  <2>1. /\ run[r].status # "none" /\ run'[r].task = run[r].task /\ h[r] = g[r]
        /\ run[r].status = "failed" \/ Active(r)
    BY <1>1, <1>9, <2>0 DEF RowMove, SameRun, Active, ActiveStatuses
  <2>2. ASSUME run[r].status = "failed", IsLatest(r), task'[run[r].task] = task[run[r].task]
        PROVE  g[r] < task'[run'[r].task].retries
    BY <1>2, <1>9, <2>1, <2>2 DEF Counted
  <2>3. CASE NothingCounted
    <3>1. run[r].status = "failed"
      BY <1>9, <2>1, <2>3 DEF NothingCounted, NoneFails
    <3>2. \A q \in RunIds : run[q].status = "none" => run'[q].status = "none"
      BY <2>3 DEF NothingCounted, NoneFails
    <3>3. IsLatest(r)
      BY <1>0, <1>9, <3>2, NoNewRow
    <3>4. /\ task[run[r].task].status = "retrying"
          /\ task'[run[r].task].retries = task[run[r].task].retries
      BY <1>5, <1>9, <2>1, <2>3 DEF NothingCounted, BudgetKept
    <3> QED BY <1>2, <2>1, <3>1, <3>3, <3>4 DEF Counted
  <2>4. ASSUME NEW x \in RunIds, Closes(x) PROVE g[r] < task'[run'[r].task].retries
    <3>1. IsLatest(r)
      <4>1. \A q \in RunIds : run[q].status = "none" => run'[q].status = "none"
        BY <2>4 DEF Closes, OnlyRun, Active, ActiveStatuses
      <4> QED BY <1>0, <1>9, <4>1, NoNewRow
    <3>2. CASE r = x
      BY <1>1, <1>9, <2>1, <2>4, <3>2 DEF Closes
    <3>3. CASE r # x
      <4>1. run[r].status = "failed"
        BY <1>9, <2>4, <3>3 DEF Closes, OnlyRun
      <4>2. run[x].task # run[r].task
        <5>1. IsLatest(x)
          BY <1>0, <2>4 DEF Closes, ActiveLatest
        <5> QED BY <3>1, <3>3, <5>1, RunIdsAreNat DEF IsLatest, RunsOf
      <4>3. task'[run[r].task] = task[run[r].task]
        BY <1>5, <2>4, <4>2 DEF Closes, OnlyTask
      <4> QED BY <2>2, <3>1, <4>1, <4>3
    <3> QED BY <3>2, <3>3
  <2>5. ASSUME NEW x \in RunIds, Comes(x) PROVE g[r] < task'[run'[r].task].retries
    <3>1. r # x /\ task' = task /\ \A q \in RunIds \ {x} : run'[q] = run[q]
      BY <1>9, <2>5 DEF Comes, OnlyRun
    <3>2. run[r].status = "failed"
      BY <1>9, <3>1
    <3>3. run[x].status = "none" /\ run'[x].status # "none"
      BY <2>5 DEF Comes, Fresh
    <3>4. r < x
      BY <1>0, <2>1, <3>3, NewRow
    <3>5. IsLatest(r)
      BY <1>9, <2>1, <3>1, <3>3 DEF IsLatest, RunsOf
    <3> QED BY <2>2, <3>1, <3>2, <3>5
  <2> QED BY <2>3, <2>4, <2>5 DEF BudgetStep
<1>10. ASSUME NEW c \in Cores, NEW t \in Tasks, worker'[c][t].pc \in {"entered", "provider", "settle"},
              run'[worker'[c][t].run].status \in ActiveStatuses
       PROVE  g[worker'[c][t].run] <= worker'[c][t].tries
  <2> DEFINE w == worker[c][t]
             n == worker'[c][t]
  <2>1. SlotMove(c, t)
    BY SlotMoves
  <2>2. /\ w.pc \notin {"idle", "admitted"} => w.run \in RunIds
        /\ w.run \in RunIds => run[w.run].status # "none" /\ run[w.run].task = t
    BY RunnerFacts DEF SlotInv, RunnerInv, RunnerAt
  <2>3. ASSUME n.run = w.run, w.run \in RunIds PROVE Active(w.run) /\ h[w.run] = g[w.run]
    <3>1. PICK r \in RunIds : r = w.run
      BY <2>3
    <3>2. Active(r)' /\ run[r].status # "none"
      BY <1>10, <2>2, <2>3, <3>1 DEF Active
    <3>3. Active(r)
      BY <3>2, WasActive
    <3> QED BY <1>1, <3>1, <3>2, <3>3
  <2>4. CASE n.run = w.run /\ w.run \in RunIds /\ n.tries = w.tries /\ w.pc \in {"entered", "provider", "settle"}
    BY <1>2, <2>3, <2>4 DEF Counted
  <2>5. CASE n.run = w.run /\ w.run \in RunIds /\ n.tries = task[t].retries
    BY <1>2, <2>2, <2>3, <2>5 DEF Counted
  <2>6. n # Idle /\ ~Admits(c, t) /\ \A q \in RunIds : ~Takes(c, t, q)
    <3>1. Idle.pc = "idle"
      BY DEF Idle
    <3> QED BY <1>10, <3>1 DEF Admits, Takes
  <2>7. CASE n = w \/ Signals(c, t)
    <3>1. n.run = w.run /\ n.tries = w.tries /\ n.pc = w.pc
      BY <2>7 DEF Signals, Carries
    <3> QED BY <1>10, <2>2, <2>4, <3>1
  <2>8. CASE Advances(c, t)
    <3>1. /\ n.run = w.run /\ w.run \in RunIds
          /\ \/ n.tries = task[t].retries
             \/ n.tries = w.tries /\ w.pc \in {"entered", "provider", "settle"}
      BY <1>10, <2>8 DEF Advances, Carries
    <3> QED BY <2>4, <2>5, <3>1
  <2> QED BY <2>1, <2>6, <2>7, <2>8 DEF SlotMove, Leaves, FreedAt
<1> QED BY <1>7, <1>8, <1>9, <1>10 DEF Counted, Active

\* The budget's invariant holds in every reachable state.
LEMMA BudgetInductive == "auto" \notin Faults => (Spec => []BudgetInv)
<1> SUFFICES ASSUME "auto" \notin Faults PROVE Spec => []BudgetInv
  OBVIOUS
<1>1. Init => BudgetInv
  <2> SUFFICES ASSUME Init PROVE BudgetInv
    OBVIOUS
  <2>1. \A r \in RunIds : run[r].status = "none" /\ run[r].pred = 0
    BY DEF Init, NoRun
  <2>2. \A t \in Tasks : task[t].status = "pending"
    BY DEF Init
  <2>3. \A c \in Cores, t \in Tasks : worker[c][t].pc = "idle" /\ worker[c][t].seen = "none"
    BY DEF Init, Idle
  <2>4. OrderInv
    BY <2>1, <2>2, <2>3 DEF OrderInv, RowsInOrder, ActiveLatest, OwnSlot, Spent, Active, ActiveStatuses
  <2>5. Sol([r \in RunIds |-> 0])
    BY <2>1 DEF Sol
  <2>6. ASSUME NEW g, Sol(g) PROVE Counted(g)
    <3>1. \A r \in RunIds : g[r] = 0
      BY <2>1, <2>6 DEF Sol
    <3> QED BY <2>1, <2>3, <3>1, ConstantsAssumption DEF Counted, Active, ActiveStatuses
  <2> QED BY <2>4, <2>5, <2>6 DEF BudgetInv
<1>2. IInv /\ IInv' /\ SlotInv /\ SlotInv' /\ BudgetInv /\ [Next]_vars => BudgetInv'
  <2>1. ASSUME IInv, IInv', SlotInv, SlotInv', BudgetInv, Next PROVE BudgetInv'
    <3>1. StepRows /\ StepSlots /\ BudgetStep
      BY <2>1, NextRows, NextSlots, NextBudget
    <3>2. RowsInOrder /\ ActiveLatest /\ OwnSlot /\ Spent /\ RunnerInv'
      BY <2>1 DEF BudgetInv, OrderInv, SlotInv
    <3>3. RowsInOrder'
      BY <2>1, <3>1, <3>2, RowsInOrderKept
    <3>4. ActiveLatest' /\ OwnSlot' /\ Spent'
      BY <2>1, <3>1, <3>2, ActiveLatestKept, OwnSlotKept, SpentKept
    <3>5. (\E g : Sol(g))'
      BY <2>1, <3>1, <3>2, StillSolvable DEF BudgetInv
    <3>6. ASSUME NEW g, Sol(g)' PROVE Counted(g)'
      BY <2>1, <3>1, <3>3, <3>6, CountedKept
    <3>7. OrderInv'
      BY <3>3, <3>4 DEF OrderInv
    <3> QED BY <3>5, <3>6, <3>7 DEF BudgetInv
  <2>2. ASSUME BudgetInv, UNCHANGED vars PROVE BudgetInv'
    BY <2>2 DEF BudgetInv, OrderInv, RowsInOrder, ActiveLatest, IsLatest, RunsOf, OwnSlot, Spent, Sol,
                Counted, Active, vars
  <2> QED BY <2>1, <2>2
<1> QED BY <1>1, <1>2, Inductive, SlotsInductive, PTL DEF Spec

\* No sequence of failures, refusals, recoveries, cancellations, pauses, lost
\* leases and crashes yields more retries in a row than the policy allows.
THEOREM BudgetHolds == "auto" \notin Faults => (Spec => []RetryBudget)
<1> SUFFICES ASSUME "auto" \notin Faults PROVE Spec => []RetryBudget
  OBVIOUS
<1>1. BudgetInv => RetryBudget
  <2> SUFFICES ASSUME BudgetInv, NEW r \in RunIds PROVE Depth[r] <= MaxRetries
    BY DEF RetryBudget
  <2>1. Sol(Depth)
    BY DepthSolves DEF BudgetInv
  <2>2. Depth[r] \in 0..MaxRetries
    BY <2>1 DEF BudgetInv, Counted
  <2> QED BY <2>2, ConstantsAssumption
<1>2. Spec => []BudgetInv
  BY BudgetInductive
<1> QED BY <1>1, <1>2, PTL

-----------------------------------------------------------------------------
(* A retrying Task is backed. *)

\* The faults under which a retry survives; every other one loses some Task its
\* retry: a maintenance window, a deadline that passes in the queue, a failed
\* renewal, a stop or a disabled policy cancels the run that stood for it, Cancel
\* and Pause write over the Task, a lowered quota turns the retry away, and a queued
\* automation run supersedes the delivery.  The deadline is the one no operator can
\* rule out: the theorems speak of runs that leave the queue in time.
Mild == Faults \subseteq {"crash", "skew", "refuse", "deliveryError"}

\* All that processes, clocks, nodes and the database do: only what operators do,
\* and the automation dispatcher, is left out.
Wide == Faults \subseteq {"crash", "skew", "refuse", "deliveryError", "deadline", "maintenance",
                          "renewError", "shutdown"}

\* Everything is switched on and the queue fits the quota.
OpenInv ==
    /\ policy.enabled /\ \A t \in Tasks : task[t].enabled
    /\ Cardinality(PolicyRuns({"pending", "running"})) <= policy.quota

\* Nobody is turned away or told to stop, save a runner that lost its run: the
\* active run of a runner that held it has an owner, and not the canceled runner.
TakenAt(c, t) ==
    LET w == worker[c][t] IN
    /\ w.pc # "limited" /\ ~w.barred /\ w.kind = "none"
    /\ w.pc \in HeldPcs /\ Active(w.run) => run[w.run].owner # NoCore
    /\ w.canceled => /\ w.pc \in HeldPcs \cup {"recover"}
                     /\ Active(w.run) => run[w.run].owner \notin {c, NoCore}
TakenInv == \A c \in Cores, t \in Tasks : TakenAt(c, t)

\* A claimed effect is in its claimant's hands, unless claimants die.
EffectInv ==
    /\ \A r \in RunIds : effect[r].status \in {"none", "pending"} => effect[r].attempts = 0
    /\ "crash" \notin Faults =>
          \A r \in RunIds : effect[r].status = "running" =>
             effect[r].owner \in Cores /\ courier[effect[r].owner][r] # "none"

\* The latest run of a retrying Task is active, or failed with an effect that will
\* still be delivered, unless the last claimant dies, or canceled by a fault that is
\* not mild.
Kept(r) ==
    \/ effect[r].status \in {"none", "pending"}
    \/ effect[r].status \in {"running", "failed"} /\ effect[r].attempts < MaxAttempts
    \/ /\ effect[r].status = "running"
       /\ "crash" \in Faults \/ courier[effect[r].owner][r] # "none"
Backing ==
    \A t \in Tasks : task[t].status = "retrying" =>
       \E r \in RunIds : /\ run[r].task = t /\ IsLatest(r)
                         /\ \/ Active(r)
                            \/ run[r].status = "failed" /\ Kept(r)
                            \/ run[r].status = "canceled" /\ ~Mild

BackInv == OpenInv /\ (Mild => TakenInv) /\ EffectInv /\ Backing

\* The steps that are left.
WideStep ==
    \/ \E c \in Cores, t \in Tasks :
          RunnerStep(c, t) \/ Heartbeat(c, t) \/ DeadlinePasses(c, t) \/ Trigger(c, t)
    \/ \E c \in Cores, r \in RunIds : SweepStep(c, r)
    \/ \E c \in Cores : ReapSettle(c) \/ Crash(c) \/ Seal(c) \/ Shutdown(c) \/ Drained(c)
    \/ \E r \in RunIds : RunLeaseExpires(r) \/ EffectLeaseExpires(r)

\* The other actions are disabled.
LEMMA WideSteps ==
  ASSUME Wide, CalmInv, Next
  PROVE  WideStep
<1>1. /\ "cancel" \notin Faults /\ "pause" \notin Faults
      /\ "auto" \notin Faults /\ "policy" \notin Faults /\ "edit" \notin Faults
  BY DEF Wide
<1>2. \A c \in Cores, t \in Tasks : api[c][t].pc \notin CancelPcs \cup PausePcs
  BY <1>1 DEF CalmInv, ApiCalm
<1>3. \A c \in Cores, t \in Tasks : ~OperatorStep(c, t)
  BY <1>2 DEF OperatorStep, CancelSignal, CancelOwned, CancelOrphan, CancelPending, Overwrite,
              PauseDisable, ApiAt, CancelPcs, PausePcs
<1>4. \A c \in Cores, t \in Tasks : OperatorAsks(c, t) => Trigger(c, t)
  BY <1>1 DEF OperatorAsks, CancelDirect, CancelRead, PauseRead, Resume
<1>5. ~DisablePolicy /\ ~UpdatePolicy /\ \A t \in Tasks : ~ReserveAuto(t)
  BY <1>1 DEF DisablePolicy, UpdatePolicy, ReserveAuto
<1> QED BY <1>3, <1>4, <1>5 DEF Next, WideStep

\* The sets the quota counts are finite.
LEMMA QuotaFinite ==
  ASSUME IInv, NEW R \in SUBSET RunIds
  PROVE  IsFiniteSet(R) /\ Cardinality(R) \in Nat /\ policy.quota \in Nat
<1>1. IsFiniteSet(RunIds)
  BY FS_Interval, ConstantsAssumption DEF RunIds
<1>2. IsFiniteSet(R)
  BY <1>1, FS_Subset
<1> QED BY <1>2, FS_CardinalityType, ConstantsAssumption DEF IInv, TypeOK

\* A pending run is always admitted: it was counted when it came.
LEMMA AlwaysAdmitted ==
  ASSUME IInv, OpenInv, NEW r \in RunIds, run[r].status = "pending"
  PROVE  AdmitSlot(r)
<1> DEFINE A == PolicyRuns({"pending", "running"})
           R == PolicyRuns({"running"}) \ {r}
<1>1. A \in SUBSET RunIds /\ R \in SUBSET (A \ {r}) /\ r \in A /\ R \in SUBSET RunIds
  BY DEF PolicyRuns
<1>2. IsFiniteSet(A) /\ Cardinality(A) \in Nat /\ Cardinality(R) \in Nat /\ policy.quota \in Nat
  BY <1>1, QuotaFinite
<1>3. IsFiniteSet(A \ {r}) /\ Cardinality(A \ {r}) = Cardinality(A) - 1
  BY <1>1, <1>2, FS_RemoveElement
<1>4. Cardinality(R) <= Cardinality(A \ {r})
  BY <1>1, <1>3, FS_Subset
<1>5. Cardinality(A) <= policy.quota
  BY DEF OpenInv
<1>6. Cardinality(R) < policy.quota
  <2> HIDE DEF A, R
  <2> QED BY <1>2, <1>3, <1>4, <1>5
<1> QED BY <1>6 DEF AdmitSlot

\* Nobody turns a switch.
LEMMA SwitchesKept ==
  ASSUME IInv, WideStep
  PROVE  policy' = policy /\ \A t \in Tasks : task'[t].enabled = task[t].enabled
<1>0. task \in [Tasks -> TaskRow]
  BY Tables
<1> DEFINE Same == \A t \in Tasks : task'[t].enabled = task[t].enabled
<1>1. ASSUME NEW t \in Tasks, NEW s, task' = WithStatus(t, s) PROVE Same
  BY <1>0, <1>1 DEF WithStatus, TaskRow
<1>2. ASSUME NEW t \in Tasks, NEW s, NEW n, task' = [task EXCEPT ![t].status = s, ![t].retries = n]
      PROVE  Same
  BY <1>0, <1>2 DEF TaskRow
<1>3. task' = task => Same
  OBVIOUS
<1> HIDE DEF Same
<1>4. ASSUME NEW r \in RunIds, NEW target, NEW n, NEW to, Terminalize(r, target, n, to) PROVE Same
  <2>1. run[r].task \in Tasks
    BY Tables DEF RunRow
  <2> QED BY <1>2, <1>3, <1>4, <2>1 DEF Terminalize
<1>5. ASSUME NEW r \in RunIds, Reject(r) PROVE Same
  <2>1. run[r].task \in Tasks
    BY Tables DEF RunRow
  <2> QED BY <1>2, <1>3, <1>5, <2>1 DEF Reject
<1>6. ASSUME NEW c \in Cores, NEW t \in Tasks,
             RunnerStep(c, t) \/ Heartbeat(c, t) \/ DeadlinePasses(c, t) \/ Trigger(c, t)
      PROVE  policy' = policy /\ Same
  <2> DEFINE r == worker[c][t].run
  <2>1. policy' = policy
    BY <1>6 DEF RunnerStep, Heartbeat, DeadlinePasses, Trigger, Reserve, Launch, FailUnclaimed, Abort, NodeRefuses, Load,
         Enter, EnterPaused, EnterRefused, FailRefused, CancelEntered, PreProviderFail, BeginProvider,
         ProviderReturns, Settle, Recover
  <2>2. worker[c][t].pc \notin {"idle", "admitted"} => r \in RunIds
    BY RunnerFacts
  <2>3. ASSUME Reserve(c, t) \/ Load(c, t) \/ EnterPaused(c, t) \/ EnterRefused(c, t)
               \/ BeginProvider(c, t) \/ ProviderReturns(c, t) \/ Heartbeat(c, t) \/ Trigger(c, t)
               \/ DeadlinePasses(c, t)
        PROVE  Same
    BY <1>3, <2>3 DEF Reserve, Load, EnterPaused, EnterRefused, BeginProvider, ProviderReturns,
         Heartbeat, DeadlinePasses, Trigger
  <2>4. ASSUME Launch(c, t) \/ Abort(c, t) PROVE Same
    BY <1>3, <2>4 DEF Launch, Abort, GiveUp, rows
  <2>5. ASSUME FailUnclaimed(c, t) \/ FailRefused(c, t) PROVE Same
    BY <1>3, <1>5, <2>2, <2>5 DEF FailUnclaimed, FailRefused, At, rows
  <2>6. ASSUME Enter(c, t) \/ CancelEntered(c, t) PROVE Same
    BY <1>1, <1>3, <2>6 DEF Enter, CancelEntered
  <2>7. ASSUME NEW owners, NEW expected, NEW target, NEW n, NEW to, r \in RunIds,
               Conclude(c, t, owners, expected, target, n, to)
        PROVE  Same
    BY <1>3, <1>4, <2>7 DEF Conclude, rows
  <2>8. ASSUME NodeRefuses(c, t) \/ PreProviderFail(c, t) PROVE Same
    BY <2>2, <2>7, <2>8 DEF NodeRefuses, PreProviderFail, MayLoad, At
  <2>9. ASSUME Settle(c, t) PROVE Same
    <3>1. \E target, n, to : Conclude(c, t, {NoCore, c}, {"running"}, target, n, to)
      BY <2>9 DEF Settle
    <3> QED BY <2>2, <2>7, <2>9, <3>1 DEF Settle, At
  <2>10. ASSUME Recover(c, t) PROVE Same
    BY <1>3, <1>4, <2>2, <2>10 DEF Recover, At, rows
  <2> QED BY <1>6, <2>1, <2>3, <2>4, <2>5, <2>6, <2>8, <2>9, <2>10 DEF RunnerStep
<1>7. ASSUME NEW c \in Cores, NEW r \in RunIds, SweepStep(c, r) PROVE policy' = policy /\ Same
  <2>1. run[r].task \in Tasks
    BY Tables DEF RunRow
  <2> QED BY <1>1, <1>3, <1>7, <2>1 DEF SweepStep, LaunchDurable, ReapClaim, RebuildRetryEffect,
               ClaimEffect, DeliverRetry, FailEffect, rows
<1>8. ASSUME NEW c \in Cores, ReapSettle(c) PROVE policy' = policy /\ Same
  <2>1. sweep[c].run \in RunIds
    BY <1>8 DEF ReapSettle, IInv, LocalOK, GoodClaim
  <2> QED BY <1>3, <1>4, <1>8, <2>1 DEF ReapSettle, rows
<1>9. ASSUME \/ \E c \in Cores : Crash(c) \/ Seal(c) \/ Shutdown(c) \/ Drained(c)
             \/ \E r \in RunIds : RunLeaseExpires(r) \/ EffectLeaseExpires(r)
      PROVE  policy' = policy /\ Same
  BY <1>3, <1>9 DEF Crash, Seal, Shutdown, Drained, RunLeaseExpires, EffectLeaseExpires
<1>10. policy' = policy /\ Same
  BY <1>6, <1>7, <1>8, <1>9 DEF WideStep
<1> QED BY <1>10 DEF Same

\* The switches stay on and the queue stays within the quota.
LEMMA OpenInvKept ==
  ASSUME IInv, IInv', RowsInOrder, OpenInv, WideStep, StepRows, BudgetStep
  PROVE  OpenInv'
<1> DEFINE A == PolicyRuns({"pending", "running"})
           B == {r \in RunIds : run'[r].status \in {"pending", "running"}}
<1>1. policy' = policy /\ \A t \in Tasks : task'[t].enabled = task[t].enabled
  BY SwitchesKept
<1>2. A \in SUBSET RunIds /\ B \in SUBSET RunIds
  BY DEF PolicyRuns
<1>3. /\ IsFiniteSet(A) /\ Cardinality(A) \in Nat /\ IsFiniteSet(B) /\ Cardinality(B) \in Nat
      /\ policy.quota \in Nat
  BY <1>2, QuotaFinite
<1>4. Cardinality(A) <= policy.quota
  BY DEF OpenInv
<1>5. ASSUME NEW x \in B, run[x].status # "none" PROVE x \in A
  <2>1. x \in RunIds /\ RowMove(x) /\ run'[x].status \in {"pending", "running"}
    BY DEF StepRows
  <2> QED BY <1>5, <2>1 DEF RowMove, Settled, TerminalStatuses, PolicyRuns
<1>6. ASSUME \A q \in RunIds : run[q].status = "none" => run'[q].status = "none"
      PROVE  Cardinality(B) <= policy.quota
  <2>1. B \in SUBSET A
    BY <1>5, <1>6
  <2>2. Cardinality(B) <= Cardinality(A)
    BY <1>3, <2>1, FS_Subset
  <2>3. Cardinality(B) <= policy.quota
    <3> HIDE DEF A, B
    <3> QED BY <1>3, <1>4, <2>2
  <2> QED BY <2>3
<1>7. ASSUME NEW q \in RunIds, run[q].status = "none", run'[q].status # "none"
      PROVE  Cardinality(B) <= policy.quota
  <2>1. Comes(q)
    BY <1>7, NewRow
  <2>2. \A x \in RunIds \ {q} : run'[x] = run[x]
    BY <2>1 DEF Comes, OnlyRun
  <2>3. B \in SUBSET (A \cup {q})
    BY <2>2 DEF PolicyRuns
  <2>4. Cardinality(A) < policy.quota
    BY <2>1 DEF Comes, ReserveSlot
  <2>5. q \notin A
    BY <1>7 DEF PolicyRuns
  <2> HIDE DEF A, B
  <2>6. IsFiniteSet(A \cup {q}) /\ Cardinality(A \cup {q}) = Cardinality(A) + 1
    BY <1>3, <2>5, FS_AddElement
  <2>7. Cardinality(B) <= Cardinality(A \cup {q})
    BY <2>3, <2>6, FS_Subset
  <2> QED BY <1>3, <2>4, <2>6, <2>7
<1>8. Cardinality(B) <= policy.quota
  BY <1>6, <1>7
<1>9. PolicyRuns({"pending", "running"})' = B
  BY DEF PolicyRuns
<1> QED BY <1>1, <1>8, <1>9 DEF OpenInv

\* While a runner holds its run, the run does not fall into nobody's hands, and not
\* back into the runner's.
LEMMA OwnerMoves ==
  ASSUME IInv, SlotInv, TakenInv, StepRows, NEW c \in Cores, NEW t \in Tasks,
         worker[c][t].pc \in HeldPcs \cup {"recover"}, run'[worker[c][t].run].status \in ActiveStatuses
  PROVE  LET r == worker[c][t].run IN
         /\ r \in RunIds /\ Active(r)
         /\ run'[r].owner = NoCore => run[r].owner = NoCore
         /\ run'[r].owner = c => run[r].owner = c
<1> DEFINE r == worker[c][t].run
<1>1. r \in RunIds /\ run[r].status # "none" /\ run[r].task = t /\ run'[r].status \in ActiveStatuses
  BY RunnerFacts DEF HeldPcs, SlotInv, RunnerInv, RunnerAt, Active
<1>2. Active(r) /\ RowMove(r)
  BY <1>1, WasActive DEF StepRows, Active
<1>3. ASSUME NEW d \in Cores, Claimed(d, r) PROVE run'[r].owner # NoCore /\ run'[r].owner # c
  <2>1. run'[r].owner = d
    BY <1>3 DEF Claimed
  <2>2. d # c
    <3> SUFFICES ASSUME d = c PROVE FALSE
      OBVIOUS
    <3>1. CASE worker[c][t].pc = "idle"
      BY <3>1 DEF HeldPcs
    <3>2. ASSUME NEW u \in Tasks, worker[c][u].run = r, worker[c][u].pc = "reserved" PROVE FALSE
      <4>1. u = t
        BY <1>1, <3>2 DEF SlotInv, RunnerInv, RunnerAt
      <4> QED BY <3>2, <4>1 DEF HeldPcs
    <3> QED BY <1>1, <1>3, <3>1, <3>2 DEF Claimed
  <2> QED BY <2>1, <2>2, ConstantsAssumption
<1>4. ~Returned(r)
  BY DEF Returned, TakenInv, TakenAt
<1>5. ~Settled(r)
  BY <1>1 DEF Settled, ActiveStatuses, TerminalStatuses
<1> QED BY <1>1, <1>2, <1>3, <1>4, <1>5 DEF RowMove, Active, ActiveStatuses

\* Nobody is turned away or told to stop.
LEMMA TakenInvKept ==
  ASSUME Mild, IInv, SlotInv, CalmInv, CoreCalm', OpenInv, TakenInv, StepRows, StepSlots
  PROVE  TakenInv'
<1> SUFFICES ASSUME NEW c \in Cores, NEW t \in Tasks PROVE TakenAt(c, t)'
  BY DEF TakenInv
<1> DEFINE w == worker[c][t]
           n == worker'[c][t]
           r == worker[c][t].run
<1>1. SlotMove(c, t)
  BY SlotMoves
<1>2. /\ w.pc # "limited" /\ ~w.barred /\ w.kind = "none"
      /\ w.pc \in HeldPcs /\ Active(r) => run[r].owner # NoCore
      /\ w.canceled => w.pc \in HeldPcs \cup {"recover"}
      /\ w.canceled /\ Active(r) => run[r].owner \notin {c, NoCore}
  BY DEF TakenInv, TakenAt
<1>3. /\ ~Canceling /\ "renewError" \notin Faults /\ "deadline" \notin Faults
      /\ core[c] # "sealed" /\ core'[c] # "draining"
  BY DEF Mild, Canceling, CalmInv, ApiCalm, CoreCalm
<1>4. CASE n.pc = w.pc /\ n.run = r /\ (n = w \/ Signals(c, t))
  <2>1. ~n.barred /\ n.kind = "none"
    BY <1>2, <1>3, <1>4 DEF Signals
  <2>2. n.canceled => \/ w.canceled
                      \/ w.pc \in HeldPcs /\ ~(Active(r) /\ run[r].owner = c)
    BY <1>3, <1>4 DEF Signals
  <2>3. w.pc \in HeldPcs /\ run'[r].status \in ActiveStatuses => run'[r].owner # NoCore
    BY <1>2, OwnerMoves
  <2>4. n.canceled =>
           /\ w.pc \in HeldPcs \cup {"recover"}
           /\ run'[r].status \in ActiveStatuses => run'[r].owner \notin {c, NoCore}
    BY <1>2, <2>2, OwnerMoves
  <2> QED BY <1>2, <1>4, <2>1, <2>3, <2>4 DEF TakenAt, Active
<1>5. CASE n = Idle
  BY <1>5 DEF TakenAt, Idle, HeldPcs
<1>6. CASE Admits(c, t)
  BY <1>6 DEF TakenAt, Admits, HeldPcs
<1>7. ASSUME NEW q \in RunIds, Takes(c, t, q) PROVE TakenAt(c, t)'
  <2>1. ~w.canceled
    BY <1>2, <1>7 DEF Takes, HeldPcs
  <2> QED BY <1>2, <1>7, <2>1 DEF TakenAt, Takes, HeldPcs
<1>8. CASE Advances(c, t)
  <2>1. r \in RunIds /\ n.run = r /\ ~n.barred /\ n.kind = "none" /\ n.canceled = w.canceled
    BY <1>2, <1>8 DEF Advances, Unsignaled
  <2>2. CASE w.pc = "reserved"
    <3>1. ~w.canceled /\ n.pc \in {"claimed", "rejected"}
      BY <1>2, <1>8, <2>2 DEF Advances, HeldPcs
    <3>2. n.pc = "claimed" => run'[r].owner = c
      BY <1>8, <2>2 DEF Advances, OwnedAt
    <3> QED BY <2>1, <3>1, <3>2, ConstantsAssumption DEF TakenAt, HeldPcs
  <2>3. CASE w.pc # "reserved"
    <3>1. w.pc \in HeldPcs /\ n.pc \in HeldPcs \cup {"recover"}
      BY <1>8, <2>3 DEF Advances, HeldPcs
    <3>2. n.pc # "limited"
      BY <1>8, <2>1, AlwaysAdmitted DEF Advances
    <3>3. run'[r].status \in ActiveStatuses => Active(r) /\ run'[r].owner = run[r].owner
      BY <1>8, <2>1, <2>3 DEF Advances, EnteredAt, rows, Active, ActiveStatuses
    <3> QED BY <1>2, <2>1, <3>1, <3>2, <3>3 DEF TakenAt, Active
  <2> QED BY <2>2, <2>3
<1> QED BY <1>1, <1>4, <1>5, <1>6, <1>7, <1>8 DEF SlotMove, Leaves, FreedAt, Signals, Carries

-----------------------------------------------------------------------------
(* What a step does to a retry effect. *)

\* The effect stays as it is, and in its claimant's hands unless that dies.
EffectStays(r) ==
    /\ effect'[r].status = effect[r].status /\ effect'[r].attempts = effect[r].attempts
    /\ effect[r].status = "running" =>
          /\ effect'[r].owner = effect[r].owner
          /\ courier[effect[r].owner][r] # "none" =>
                "crash" \in Faults \/ courier'[effect[r].owner][r] # "none"
EffectTaken(r) ==
    /\ effect[r].status # "none" /\ effect'[r].status = "running"
    /\ effect'[r].owner \in Cores /\ courier'[effect'[r].owner][r] # "none"
EffectFails(r) ==
    LET t == run[r].task IN
    /\ effect[r].status = "running" /\ effect'[r].status = "failed"
    /\ effect'[r].attempts = effect[r].attempts
    /\ task[t].status = "retrying" /\ IsLatest(r) /\ effect[r].attempts >= MaxAttempts =>
          task'[t].status # "retrying"
EffectSpent(r) ==
    /\ effect[r].status = "running" /\ effect'[r].status = "succeeded"
    /\ \/ Superseded(r)
       \/ \E q \in RunIds : run[q].status = "none" /\ run'[q].status # "none" /\ run'[q].task = run[r].task
EffectMove(r) ==
    \/ EffectStays(r)
    \/ /\ effect[r].status = "none" /\ effect'[r].status = "pending"
       /\ effect'[r].attempts = effect[r].attempts
    \/ EffectTaken(r) \/ EffectFails(r) \/ EffectSpent(r)
StepEffects == \A r \in RunIds : EffectMove(r)

\* Most steps leave the effects alone or publish one.
LEMMA EffectFacts ==
  ASSUME IInv, courier' = courier
  PROVE  /\ effect' = effect => StepEffects
         /\ \A r \in RunIds : effect' = Published(r) => StepEffects
<1>0. effect \in [RunIds -> EffectRow]
  BY DEF IInv, TypeOK
<1>1. effect' = effect => StepEffects
  BY DEF StepEffects, EffectMove, EffectStays
<1>2. ASSUME NEW r \in RunIds, effect[r].status = "none", effect' = [effect EXCEPT ![r].status = "pending"]
      PROVE  StepEffects
  <2>1. effect'[r].status = "pending" /\ effect'[r].attempts = effect[r].attempts
    BY <1>0, <1>2 DEF EffectRow
  <2>2. \A q \in RunIds \ {r} : effect'[q] = effect[q]
    BY <1>0, <1>2
  <2> QED BY <1>2, <2>1, <2>2 DEF StepEffects, EffectMove, EffectStays
<1> QED BY <1>1, <1>2 DEF Published

\* Every step that is left.
LEMMA WideEffects ==
  ASSUME IInv, WideStep
  PROVE  StepEffects
<1>0. /\ effect \in [RunIds -> EffectRow]
      /\ courier \in [Cores -> [RunIds -> {"none", "claimed", "failing"}]]
  BY DEF IInv, TypeOK
<1>1. ASSUME NEW c \in Cores, NEW t \in Tasks,
             RunnerStep(c, t) \/ Heartbeat(c, t) \/ DeadlinePasses(c, t) \/ Trigger(c, t)
      PROVE  StepEffects
  <2> DEFINE r == worker[c][t].run
  <2>1. courier' = courier
    BY <1>1 DEF RunnerStep, Heartbeat, DeadlinePasses, Trigger, Reserve, Launch, FailUnclaimed, Abort, NodeRefuses, Load,
         Enter, EnterPaused, EnterRefused, FailRefused, CancelEntered, PreProviderFail, BeginProvider,
         ProviderReturns, Settle, Recover
  <2>2. worker[c][t].pc \notin {"idle", "admitted"} => r \in RunIds
    BY RunnerFacts
  <2>3. ASSUME NEW owners, NEW expected, NEW target, NEW n, NEW to, r \in RunIds,
               Conclude(c, t, owners, expected, target, n, to)
        PROVE  StepEffects
    BY <2>1, <2>3, EffectFacts DEF Conclude, Terminalize, rows
  <2>4. ASSUME Reserve(c, t) \/ Load(c, t) \/ EnterPaused(c, t) \/ EnterRefused(c, t)
               \/ BeginProvider(c, t) \/ ProviderReturns(c, t) \/ Heartbeat(c, t) \/ Trigger(c, t)
               \/ Enter(c, t) \/ CancelEntered(c, t) \/ DeadlinePasses(c, t)
        PROVE  StepEffects
    BY <2>1, <2>4, EffectFacts DEF Reserve, Load, EnterPaused, EnterRefused, BeginProvider,
         ProviderReturns, Heartbeat, DeadlinePasses, Trigger, Enter, CancelEntered
  <2>5. ASSUME Launch(c, t) \/ Abort(c, t) PROVE StepEffects
    BY <2>1, <2>5, EffectFacts DEF Launch, Abort, GiveUp, rows
  <2>6. ASSUME FailUnclaimed(c, t) \/ FailRefused(c, t) PROVE StepEffects
    BY <2>1, <2>2, <2>6, EffectFacts DEF FailUnclaimed, FailRefused, Reject, At, rows
  <2>7. ASSUME NodeRefuses(c, t) \/ PreProviderFail(c, t) PROVE StepEffects
    BY <2>2, <2>3, <2>7 DEF NodeRefuses, PreProviderFail, MayLoad, At
  <2>8. ASSUME Settle(c, t) PROVE StepEffects
    <3>1. \E target, n, to : Conclude(c, t, {NoCore, c}, {"running"}, target, n, to)
      BY <2>8 DEF Settle
    <3> QED BY <2>2, <2>3, <2>8, <3>1 DEF Settle, At
  <2>9. ASSUME Recover(c, t) PROVE StepEffects
    BY <2>1, <2>2, <2>9, EffectFacts DEF Recover, Terminalize, At, rows
  <2> QED BY <1>1, <2>4, <2>5, <2>6, <2>7, <2>8, <2>9 DEF RunnerStep
<1>2. ASSUME NEW c \in Cores, ReapSettle(c) PROVE StepEffects
  <2>1. sweep[c].run \in RunIds
    BY <1>2 DEF ReapSettle, IInv, LocalOK, GoodClaim
  <2> QED BY <1>2, <2>1, EffectFacts DEF ReapSettle, Terminalize, rows
<1>3. ASSUME NEW c \in Cores, Crash(c) PROVE StepEffects
  <2>1. "crash" \in Faults /\ effect' = effect
    BY <1>3 DEF Crash
  <2> QED BY <2>1 DEF StepEffects, EffectMove, EffectStays
<1>4. ASSUME \/ \E r \in RunIds : RunLeaseExpires(r)
             \/ \E c \in Cores : Seal(c) \/ Shutdown(c) \/ Drained(c)
      PROVE  StepEffects
  BY <1>4, EffectFacts DEF RunLeaseExpires, Seal, Shutdown, Drained
<1>5. ASSUME NEW r \in RunIds, EffectLeaseExpires(r) PROVE StepEffects
  <2>1. /\ \A q \in RunIds \ {r} : effect'[q] = effect[q]
        /\ effect'[r].status = effect[r].status /\ effect'[r].attempts = effect[r].attempts
        /\ effect'[r].owner = effect[r].owner /\ courier' = courier
    BY <1>0, <1>5 DEF EffectLeaseExpires, EffectRow
  <2> QED BY <2>1 DEF StepEffects, EffectMove, EffectStays
<1>6. ASSUME NEW c \in Cores, NEW r \in RunIds, LaunchDurable(c, r) \/ ReapClaim(c, r) \/ RebuildRetryEffect(c, r)
      PROVE  StepEffects
  BY <1>6, EffectFacts DEF LaunchDurable, ReapClaim, RebuildRetryEffect, rows
<1>7. ASSUME NEW c \in Cores, NEW r \in RunIds, NEW v, courier' = [courier EXCEPT ![c][r] = v],
             \A q \in RunIds \ {r} : effect'[q] = effect[q], EffectMove(r)
      PROVE  StepEffects
  <2>1. \A q \in RunIds \ {r}, d \in Cores : courier'[d][q] = courier[d][q]
    BY <1>0, <1>7
  <2>2. \A q \in RunIds : effect[q].owner \in Cores \/ courier[effect[q].owner][q] = courier'[effect[q].owner][q]
    BY <1>0, <1>7
  <2> QED BY <1>7, <2>1, <2>2 DEF StepEffects, EffectMove, EffectStays
<1>8. ASSUME NEW c \in Cores, NEW r \in RunIds, ClaimEffect(c, r) PROVE StepEffects
  <2> DEFINE e == [status |-> "running", owner |-> c, lease |-> TRUE, attempts |-> effect[r].attempts + 1]
  <2>1. effect'[r] = e /\ \A q \in RunIds \ {r} : effect'[q] = effect[q]
    BY <1>0, <1>8 DEF ClaimEffect
  <2>2. e.status = "running" /\ e.owner = c
    OBVIOUS
  <2> HIDE DEF e
  <2>3. courier'[c][r] = "claimed" /\ courier' = [courier EXCEPT ![c][r] = "claimed"]
    BY <1>0, <1>8 DEF ClaimEffect
  <2>4. effect[r].status # "none"
    BY <1>8 DEF ClaimEffect, EffectReady
  <2>5. EffectMove(r)
    BY <2>1, <2>2, <2>3, <2>4 DEF EffectMove, EffectTaken
  <2> QED BY <1>7, <2>1, <2>3, <2>5
<1>9. ASSUME NEW c \in Cores, NEW r \in RunIds, DeliverRetry(c, r) PROVE StepEffects
  <2>1. CASE effect' = Succeeded(r) /\ ClaimHeld(c, r) /\ courier' = [courier EXCEPT ![c][r] = "none"]
    <3>1. effect'[r].status = "succeeded" /\ \A q \in RunIds \ {r} : effect'[q] = effect[q]
      BY <1>0, <2>1 DEF Succeeded, EffectRow
    <3>2. ASSUME ~Superseded(r)
          PROVE  \E q \in RunIds : run[q].status = "none" /\ run'[q].status # "none" /\ run'[q].task = run[r].task
      <4>1. PICK q \in RunIds : Fresh(q) /\ run' = Insert(q, run[r].task, "retry", r, FALSE)
        BY <1>9, <2>1, <3>1, <3>2 DEF DeliverRetry, ClaimHeld, rows
      <4>2. InsertedAt(q, run[r].task, "retry", r, FALSE)
        BY <4>1, RowFacts
      <4> QED BY <4>1, <4>2 DEF Fresh, InsertedAt
    <3>3. EffectMove(r)
      BY <2>1, <3>1, <3>2 DEF EffectMove, EffectSpent, ClaimHeld
    <3> QED BY <1>7, <2>1, <3>1, <3>3
  <2>2. CASE effect' = effect /\ courier' = [courier EXCEPT ![c][r] = "failing"]
    <3>1. courier'[effect[r].owner][r] \in {courier[effect[r].owner][r], "failing"}
      BY <1>0, <2>2
    <3>2. EffectMove(r)
      BY <2>2, <3>1 DEF EffectMove, EffectStays
    <3> QED BY <1>7, <2>2, <3>2
  <2>3. CASE effect' = effect /\ effect[r].status = "succeeded" /\ courier' = [courier EXCEPT ![c][r] = "none"]
    <3>1. EffectMove(r)
      BY <2>3 DEF EffectMove, EffectStays
    <3> QED BY <1>7, <2>3, <3>1
  <2> QED BY <1>9, <2>1, <2>2, <2>3 DEF DeliverRetry, rows
<1>10. ASSUME NEW c \in Cores, NEW r \in RunIds, FailEffect(c, r) PROVE StepEffects
  <2> DEFINE t == run[r].task
  <2>0. t \in Tasks /\ courier' = [courier EXCEPT ![c][r] = "none"]
    BY <1>10, Tables DEF RunRow, FailEffect
  <2>1. CASE ClaimHeld(c, r)
    <3>1. /\ effect'[r].status = "failed" /\ effect'[r].attempts = effect[r].attempts
          /\ \A q \in RunIds \ {r} : effect'[q] = effect[q]
      BY <1>0, <1>10, <2>1 DEF FailEffect, EffectRow
    <3>2. task[t].status = "retrying" /\ IsLatest(r) /\ effect[r].attempts >= MaxAttempts =>
             task'[t].status # "retrying"
      <4>1. task' = WithStatus(t, "failed") => task'[t].status = "failed"
        BY <2>0, TaskFacts DEF TaskAt
      <4> QED BY <1>10, <2>1, <4>1 DEF FailEffect
    <3>3. EffectMove(r)
      BY <2>1, <3>1, <3>2 DEF EffectMove, EffectFails, ClaimHeld
    <3> QED BY <1>7, <2>0, <3>1, <3>3
  <2>2. CASE ~ClaimHeld(c, r)
    <3>1. effect' = effect
      BY <1>10, <2>2 DEF FailEffect
    <3>2. effect[r].status = "running" => courier'[effect[r].owner][r] = courier[effect[r].owner][r]
      BY <1>0, <2>0, <2>2 DEF ClaimHeld
    <3>3. EffectMove(r)
      BY <3>1, <3>2 DEF EffectMove, EffectStays
    <3> QED BY <1>7, <2>0, <3>1, <3>3
  <2> QED BY <2>1, <2>2
<1> QED BY <1>1, <1>2, <1>3, <1>4, <1>5, <1>6, <1>8, <1>9, <1>10 DEF WideStep, SweepStep

-----------------------------------------------------------------------------
(* What a step does to a retrying Task. *)

\* A run that closes under a retrying Task has failed, or was canceled by a fault
\* that is not mild.
ClosesWell ==
    \A q \in RunIds :
       Active(q) /\ run'[q].status \in TerminalStatuses /\ task'[run[q].task].status = "retrying" =>
          run'[q].status = "failed" \/ (run'[q].status = "canceled" /\ ~Mild)

\* The updates that close runs in this way, or close none.
LEMMA WellFacts ==
  ASSUME IInv
  PROVE  /\ run' = run => ClosesWell
         /\ \A r \in RunIds : \A o, b : Active(r) /\ OwnedAt(r, o, b) => ClosesWell
         /\ \A r \in RunIds : EnteredAt(r) => ClosesWell
         /\ \A r \in RunIds : \A t, g, p, b : InsertedAt(r, t, g, p, b) => ClosesWell
         /\ \A r \in RunIds : ClosedAt({r}, "failed") => ClosesWell
         /\ \A r \in RunIds : ~Mild /\ ClosedAt({r}, "canceled") => ClosesWell
         /\ \A r \in RunIds : \A s :
               ClosedAt({r}, s) /\ task'[run[r].task].status # "retrying" => ClosesWell
<1> USE DEF ClosesWell, Active, ActiveStatuses, TerminalStatuses
<1>1. run' = run => ClosesWell
  OBVIOUS
<1>2. ASSUME NEW r \in RunIds, NEW o, NEW b, Active(r), OwnedAt(r, o, b) PROVE ClosesWell
  BY <1>2 DEF OwnedAt, OnlyRun
<1>3. ASSUME NEW r \in RunIds, EnteredAt(r) PROVE ClosesWell
  BY <1>3 DEF EnteredAt, OnlyRun
<1>4. ASSUME NEW r \in RunIds, NEW t, NEW g, NEW p, NEW b, InsertedAt(r, t, g, p, b) PROVE ClosesWell
  BY <1>4 DEF InsertedAt, OnlyRun
<1>5. ASSUME NEW r \in RunIds, ClosedAt({r}, "failed") PROVE ClosesWell
  BY <1>5 DEF ClosedAt
<1>6. ASSUME NEW r \in RunIds, NEW s, ClosedAt({r}, s), task'[run[r].task].status # "retrying"
      PROVE  ClosesWell
  BY <1>6 DEF ClosedAt
<1>7. ASSUME NEW r \in RunIds, ~Mild, ClosedAt({r}, "canceled") PROVE ClosesWell
  BY <1>7 DEF ClosedAt
<1> QED BY <1>1, <1>2, <1>3, <1>4, <1>5, <1>6, <1>7

\* A runner that gives up was told to stop: unless a fault that is not mild did so,
\* the run is not its own any more.
LEMMA GiveUpWell ==
  ASSUME IInv, Mild => TakenInv, NEW c \in Cores, NEW t \in Tasks, worker[c][t].run \in RunIds,
         NEW onError, GiveUp(c, t, onError),
         Mild => worker[c][t].canceled \/ run[worker[c][t].run].status = "canceled"
  PROVE  ClosesWell
<1> DEFINE w == worker[c][t]
           r == worker[c][t].run
<1>1. CASE Mild
  <2>1. w.kind = "none" /\ (w.canceled /\ Active(r) => run[r].owner \notin {c, NoCore})
    BY <1>1 DEF TakenInv, TakenAt
  <2>2. ~(run[r].status = "pending" /\ Owned(c, r))
    BY <1>1, <2>1 DEF Active, ActiveStatuses, Owned
  <2> QED BY <2>1, <2>2, WellFacts DEF GiveUp
<1>2. CASE ~Mild
  <2>1. CASE run' = run
    BY <2>1, WellFacts
  <2>2. CASE run' = WithOwner(r, NoCore, FALSE) /\ run[r].status = "pending"
    BY <2>2, RowFacts, WellFacts DEF Active, ActiveStatuses
  <2>3. CASE run' = Closed({r}, "canceled")
    BY <1>2, <2>3, RowFacts, WellFacts
  <2> QED BY <2>1, <2>2, <2>3 DEF GiveUp, GivenUp
<1> QED BY <1>1, <1>2

\* Every step of a runner.
LEMMA RunnerWell ==
  ASSUME Wide, IInv, SlotInv, CalmInv, OpenInv, Mild => TakenInv, NEW c \in Cores, NEW t \in Tasks,
         RunnerStep(c, t) \/ Heartbeat(c, t) \/ DeadlinePasses(c, t) \/ Trigger(c, t)
  PROVE  ClosesWell
<1> DEFINE w == worker[c][t]
           r == worker[c][t].run
<1>0. /\ w.pc \notin {"idle", "admitted"} => r \in RunIds
      /\ r \in RunIds => run[r].task = t
      /\ task[t].enabled
      /\ Mild => w.pc # "limited" /\ ~w.barred
      /\ Mild /\ w.canceled /\ Active(r) => run[r].owner \notin {c, NoCore}
  BY RunnerFacts DEF SlotInv, RunnerInv, RunnerAt, OpenInv, TakenInv, TakenAt
<1>1. ASSUME Load(c, t) \/ EnterRefused(c, t) \/ BeginProvider(c, t) \/ ProviderReturns(c, t) \/ Trigger(c, t)
             \/ DeadlinePasses(c, t)
      PROVE  ClosesWell
  BY <1>1, WellFacts DEF Load, EnterRefused, BeginProvider, ProviderReturns, Trigger, DeadlinePasses
<1>2. ASSUME Reserve(c, t) PROVE ClosesWell
  <2>1. run' = run \/ \E q \in RunIds : run' = Insert(q, t, "manual", 0, TRUE)
    BY <1>2 DEF Reserve
  <2>2. ASSUME NEW q \in RunIds, run' = Insert(q, t, "manual", 0, TRUE) PROVE ClosesWell
    <3>1. InsertedAt(q, t, "manual", 0, TRUE)
      BY <2>2, RowFacts
    <3> QED BY <3>1, WellFacts
  <2> QED BY <2>1, <2>2, WellFacts
<1>3. ASSUME Launch(c, t) PROVE ClosesWell
  <2>1. Mild => core[c] = "up"
    BY <1>3 DEF Mild, CalmInv, CoreCalm, Launch, At
  <2>2. r \in RunIds
    BY <1>0, <1>3 DEF Launch, At
  <2>3. \/ run' = run
        \/ run' = WithOwner(r, c, TRUE) /\ Active(r)
        \/ ~Mild /\ GiveUp(c, t, Freed(c, t))
    BY <1>3, <2>1 DEF Launch, Active, ActiveStatuses, rows
  <2> QED BY <2>2, <2>3, RowFacts, WellFacts, GiveUpWell
<1>4. ASSUME FailUnclaimed(c, t) \/ FailRefused(c, t) PROVE ClosesWell
  <2>1. r \in RunIds
    BY <1>0, <1>4 DEF FailUnclaimed, FailRefused, At
  <2> QED BY <1>4, <2>1, RowFacts, WellFacts DEF FailUnclaimed, FailRefused, Reject, rows
<1>5. ASSUME Abort(c, t) PROVE ClosesWell
  <2>1. r \in RunIds /\ (Mild => w.canceled \/ run[r].status = "canceled")
    BY <1>0, <1>5 DEF Abort, At
  <2> QED BY <1>5, <2>1, GiveUpWell DEF Abort
<1>6. ASSUME Enter(c, t) PROVE ClosesWell
  BY <1>0, <1>6, RowFacts, WellFacts DEF Enter, EntryOpen, At
<1>7. ASSUME CancelEntered(c, t) PROVE ClosesWell
  <2>1. Mild => ~(run[r].status = "running" /\ Owned(c, r))
    BY <1>0, <1>7 DEF CancelEntered, Active, ActiveStatuses, Owned
  <2>2. r \in RunIds
    BY <1>0, <1>7 DEF CancelEntered, At
  <2>3. run' = run \/ (~Mild /\ run' = Closed({r}, "canceled"))
    BY <1>7, <2>1 DEF CancelEntered
  <2> QED BY <2>2, <2>3, RowFacts, WellFacts
<1>8. ASSUME NEW target, NEW n, NEW to, r \in RunIds, Active(r), Terminalize(r, target, n, to),
             to = "failed" \/ target # "retrying"
      PROVE  ClosesWell
  <2>1. ~Duplicate(r)
    BY <1>8 DEF Duplicate, IInv, OneActive, Wide
  <2>2. ClosedAt({r}, to) /\ TaskAt(t, target, n)
    BY <1>0, <1>8, <2>1, RowFacts, TaskFacts DEF Terminalize
  <2> QED BY <1>0, <1>8, <2>2, WellFacts DEF TaskAt
<1>9. ASSUME PreProviderFail(c, t) PROVE ClosesWell
  <2>1. r \in RunIds
    BY <1>0, <1>9 DEF PreProviderFail, At
  <2>2. \/ run' = run
        \/ Active(r) /\ Terminalize(r, "failed", task[t].retries, "failed")
    BY <1>9 DEF PreProviderFail, Conclude, TerminalOK, Active, ActiveStatuses, rows
  <2> QED BY <1>8, <2>1, <2>2, WellFacts
<1>10. ASSUME Settle(c, t) PROVE ClosesWell
  <2> DEFINE o == w.outcome
             next == NextAfterFailure("running", w.tries, MaxRetries)
             target == CASE o = "failed" -> next.status
                         [] o \in {"final", "timeout"} -> "failed"
                         [] OTHER -> o
             n == CASE o \in {"failed", "final"} -> next.count
                    [] o \in {"timeout", "canceled"} -> task[t].retries
                    [] OTHER -> 0
             to == IF o \in {"final", "timeout"} THEN "failed" ELSE o
  <2>1. r \in RunIds /\ o \in Outcomes
    BY <1>10, RunnerFacts DEF Settle, At
  <2>2. to = "failed" \/ target # "retrying"
    BY <2>1 DEF Outcomes
  <2>3. \/ run' = run
        \/ run[r].status = "running" /\ Terminalize(r, target, n, to)
    BY <1>10 DEF Settle, Conclude, TerminalOK, rows
  <2> HIDE DEF target, to, n
  <2> QED BY <1>8, <2>1, <2>2, <2>3, WellFacts DEF Active, ActiveStatuses
<1>11. ASSUME Recover(c, t) PROVE ClosesWell
  <2>1. r \in RunIds
    BY <1>0, <1>11 DEF Recover, At
  <2>2. \/ run' = run
        \/ Active(r) /\ Terminalize(r, RecoveryTarget(t), task[t].retries, "failed")
    BY <1>11 DEF Recover, TerminalOK, Active, rows
  <2> QED BY <1>8, <2>1, <2>2, WellFacts
<1>12. ASSUME Heartbeat(c, t) PROVE ClosesWell
  <2>1. r \in RunIds
    BY <1>0, <1>12 DEF Heartbeat, Beating
  <2> QED BY <1>12, <2>1, RowFacts, WellFacts DEF Heartbeat
<1>13. ASSUME NodeRefuses(c, t) PROVE ClosesWell
  <2>1. ~Mild /\ r \in RunIds
    BY <1>0, <1>13 DEF NodeRefuses, MayLoad, At, Mild
  <2>2. run' = run \/ run' = Closed({r}, "canceled")
    BY <1>13 DEF NodeRefuses, Conclude, Terminalize, rows
  <2> QED BY <2>1, <2>2, RowFacts, WellFacts
<1>14. ~EnterPaused(c, t)
  BY <1>0 DEF EnterPaused
<1> QED BY <1>1, <1>2, <1>3, <1>4, <1>5, <1>6, <1>7, <1>9, <1>10, <1>11, <1>12, <1>13, <1>14
        DEF RunnerStep

\* Every step that is left.
LEMMA WideWell ==
  ASSUME Wide, IInv, SlotInv, CalmInv, OpenInv, Mild => TakenInv, WideStep
  PROVE  ClosesWell
<1>1. ASSUME NEW c \in Cores, NEW r \in RunIds, SweepStep(c, r) PROVE ClosesWell
  <2>1. MayRun(run[r].task)
    BY Tables DEF MayRun, OpenInv, RunRow
  <2>2. ASSUME DeliverRetry(c, r) PROVE ClosesWell
    <3>1. run' = run \/ \E q \in RunIds : run' = Insert(q, run[r].task, "retry", r, FALSE)
      BY <2>2 DEF DeliverRetry, rows
    <3>2. ASSUME NEW q \in RunIds, run' = Insert(q, run[r].task, "retry", r, FALSE) PROVE ClosesWell
      <4>1. InsertedAt(q, run[r].task, "retry", r, FALSE)
        BY <3>2, RowFacts
      <4> QED BY <4>1, WellFacts
    <3> QED BY <3>1, <3>2, WellFacts
  <2>3. ASSUME ReapClaim(c, r) PROVE ClosesWell
    BY <2>3, RowFacts, WellFacts DEF ReapClaim, Reapable
  <2>4. ASSUME LaunchDurable(c, r) \/ RebuildRetryEffect(c, r) \/ ClaimEffect(c, r) \/ FailEffect(c, r)
        PROVE  ClosesWell
    BY <2>1, <2>4, WellFacts DEF LaunchDurable, RebuildRetryEffect, ClaimEffect, FailEffect, rows
  <2> QED BY <1>1, <2>2, <2>3, <2>4 DEF SweepStep
<1>2. ASSUME NEW c \in Cores, ReapSettle(c) PROVE ClosesWell
  <2>1. sweep[c].run \in RunIds
    BY <1>2 DEF ReapSettle, IInv, LocalOK, GoodClaim
  <2>2. run' = run \/ run' = Closed({sweep[c].run}, "failed")
    BY <1>2 DEF ReapSettle, Terminalize, rows
  <2> QED BY <2>1, <2>2, RowFacts, WellFacts
<1>3. ASSUME NEW r \in RunIds, RunLeaseExpires(r) PROVE ClosesWell
  BY <1>3, RowFacts, WellFacts DEF RunLeaseExpires
<1>4. ASSUME \/ \E c \in Cores : Crash(c) \/ Seal(c) \/ Shutdown(c) \/ Drained(c)
             \/ \E r \in RunIds : EffectLeaseExpires(r)
      PROVE  ClosesWell
  BY <1>4, WellFacts DEF Crash, Seal, Shutdown, Drained, EffectLeaseExpires
<1> QED BY <1>1, <1>2, <1>3, <1>4, RunnerWell DEF WideStep

\* A claimed effect stays in its claimant's hands.
LEMMA EffectInvKept ==
  ASSUME EffectInv, StepEffects
  PROVE  EffectInv'
<1> SUFFICES ASSUME NEW r \in RunIds
             PROVE  /\ effect'[r].status \in {"none", "pending"} => effect'[r].attempts = 0
                    /\ "crash" \notin Faults /\ effect'[r].status = "running" =>
                          effect'[r].owner \in Cores /\ courier'[effect'[r].owner][r] # "none"
  BY DEF EffectInv
<1>1. EffectMove(r)
  BY DEF StepEffects
<1>2. /\ effect[r].status \in {"none", "pending"} => effect[r].attempts = 0
      /\ "crash" \notin Faults /\ effect[r].status = "running" =>
            effect[r].owner \in Cores /\ courier[effect[r].owner][r] # "none"
  BY DEF EffectInv
<1> QED BY <1>1, <1>2 DEF EffectMove, EffectStays, EffectTaken, EffectFails, EffectSpent

\* An effect that will be delivered still will be, unless its retry has come or the
\* Task is no longer retrying.
LEMMA KeptStays ==
  ASSUME IInv, StepEffects, NEW r \in RunIds, Kept(r),
         task[run[r].task].status = "retrying", task'[run[r].task].status = "retrying", IsLatest(r),
         ~EffectSpent(r)
  PROVE  Kept(r)'
<1>1. EffectMove(r) /\ effect[r] \in EffectRow
  BY DEF StepEffects, IInv, TypeOK
<1>2. effect[r].attempts \in Nat /\ MaxAttempts \in Nat
  BY <1>1, ConstantsAssumption DEF EffectRow
<1>3. CASE EffectStays(r)
  BY <1>3 DEF EffectStays, Kept
<1>4. CASE effect'[r].status = "pending"
  BY <1>4 DEF Kept
<1>5. CASE EffectTaken(r)
  BY <1>5 DEF EffectTaken, Kept
<1>6. CASE EffectFails(r)
  <2>1. effect[r].attempts < MaxAttempts
    BY <1>2, <1>6 DEF EffectFails
  <2> QED BY <1>6, <2>1 DEF EffectFails, Kept
<1> QED BY <1>1, <1>3, <1>4, <1>5, <1>6 DEF EffectMove

\* A run that fails leaves an effect that will be delivered, or none yet.
LEMMA KeptComes ==
  ASSUME IInv, StepEffects, NEW r \in RunIds, Active(r)
  PROVE  Kept(r)'
<1>1. effect[r].status = "none"
  BY DEF IInv, EffectOfFailed, Active, ActiveStatuses
<1>2. EffectMove(r)
  BY DEF StepEffects
<1>3. effect'[r].status \in {"none", "pending"}
  BY <1>1, <1>2 DEF EffectMove, EffectStays, EffectTaken, EffectFails, EffectSpent
<1> QED BY <1>3 DEF Kept

\* A Task that turns to retrying does so by the failure of an active run.
LEMMA TurnsByClosing ==
  ASSUME BudgetStep, NEW t \in Tasks, task'[t].status = "retrying", task[t].status # "retrying"
  PROVE  \E q \in RunIds : Active(q) /\ run[q].task = t /\ run'[q].status \in TerminalStatuses
<1>1. ~NothingCounted
  BY DEF NothingCounted, BudgetKept
<1>2. PICK q \in RunIds : Closes(q) \/ Comes(q)
  BY <1>1 DEF BudgetStep
<1>3. Closes(q)
  BY <1>2 DEF Comes
<1>4. run[q].task = t
  BY <1>3 DEF Closes, OnlyTask
<1> QED BY <1>3, <1>4 DEF Closes

\* A retrying Task keeps its backing.
LEMMA BackingKept ==
  ASSUME IInv, BudgetInv, OpenInv, Backing, StepRows, StepEffects, BudgetStep, ClosesWell
  PROVE  Backing'
<1> SUFFICES ASSUME NEW t \in Tasks, task'[t].status = "retrying"
             PROVE  \E r \in RunIds : /\ run'[r].task = t /\ IsLatest(r)'
                                      /\ \/ Active(r)'
                                         \/ run'[r].status = "failed" /\ Kept(r)'
                                         \/ run'[r].status = "canceled" /\ ~Mild
  BY DEF Backing
<1>0. RowsInOrder /\ \A r \in RunIds : Active(r) => IsLatest(r)
  BY DEF BudgetInv, OrderInv, ActiveLatest
<1>1. ASSUME NEW q \in RunIds, run[q].status = "none", run'[q].status # "none", run'[q].task = t
      PROVE  \E r \in RunIds : run'[r].task = t /\ IsLatest(r)' /\ Active(r)'
  <2>1. Comes(q) /\ \A x \in RunIds : run[x].status # "none" <=> x < q
    BY <1>0, <1>1, NewRow
  <2>2. run'[q].status = "pending" /\ \A x \in RunIds \ {q} : run'[x] = run[x]
    BY <2>1 DEF Comes, OnlyRun
  <2>3. Active(q)'
    BY <2>2 DEF Active, ActiveStatuses
  <2>4. \A x \in RunIds : run'[x].status # "none" => x <= q
    BY <2>1, <2>2, RunIdsAreNat
  <2>5. IsLatest(q)'
    BY <1>1, <2>4 DEF IsLatest, RunsOf
  <2> QED BY <1>1, <2>3, <2>5
<1>2. ASSUME \A q \in RunIds : run[q].status = "none" /\ run'[q].status # "none" => run'[q].task # t,
             NEW r \in RunIds, run[r].task = t, IsLatest(r)
      PROVE  run'[r].task = t /\ IsLatest(r)'
  <2>1. \A q \in RunIds : run[q].status # "none" => run'[q].status # "none" /\ run'[q].task = run[q].task
    BY RowsKept
  <2>2. run[r].status # "none"
    BY <1>2 DEF IsLatest, RunsOf
  <2>3. RunsOf(t)' = RunsOf(t)
    BY <1>2, <2>1 DEF RunsOf
  <2> QED BY <1>2, <2>1, <2>2, <2>3 DEF IsLatest
<1>3. ASSUME \A q \in RunIds : run[q].status = "none" /\ run'[q].status # "none" => run'[q].task # t,
             NEW r \in RunIds, run[r].task = t, Active(r), run'[r].status \in TerminalStatuses
      PROVE  /\ run'[r].task = t /\ IsLatest(r)' /\ Kept(r)'
             /\ run'[r].status = "failed" \/ (run'[r].status = "canceled" /\ ~Mild)
  <2>1. IsLatest(r)
    BY <1>0, <1>3
  <2>2. run'[r].status = "failed" \/ (run'[r].status = "canceled" /\ ~Mild)
    BY <1>3 DEF ClosesWell
  <2> QED BY <1>2, <1>3, <2>1, <2>2, KeptComes
<1>4. CASE \E q \in RunIds : run[q].status = "none" /\ run'[q].status # "none" /\ run'[q].task = t
  BY <1>1, <1>4
<1>5. CASE /\ \A q \in RunIds : run[q].status = "none" /\ run'[q].status # "none" => run'[q].task # t
           /\ task[t].status # "retrying"
  BY <1>3, <1>5, TurnsByClosing
<1>6. CASE /\ \A q \in RunIds : run[q].status = "none" /\ run'[q].status # "none" => run'[q].task # t
           /\ task[t].status = "retrying"
  <2>1. PICK r \in RunIds : /\ run[r].task = t /\ IsLatest(r)
                            /\ \/ Active(r)
                               \/ run[r].status = "failed" /\ Kept(r)
                               \/ run[r].status = "canceled" /\ ~Mild
    BY <1>6 DEF Backing
  <2>2. run'[r].task = t /\ IsLatest(r)' /\ RowMove(r)
    BY <1>2, <1>6, <2>1 DEF StepRows
  <2>3. CASE Active(r) /\ run'[r].status \in TerminalStatuses
    BY <1>3, <1>6, <2>1, <2>3
  <2>4. CASE Active(r) /\ run'[r].status \notin TerminalStatuses
    <3>1. Active(r)'
      BY <2>2, <2>4 DEF RowMove, Settled, Active, ActiveStatuses
    <3> QED BY <2>2, <3>1
  <2>5. CASE run[r].status = "failed" /\ Kept(r)
    <3>1. run'[r] = run[r]
      BY <2>2, <2>5 DEF RowMove, Active, ActiveStatuses
    <3>2. ~Superseded(r)
      <4>1. MayRun(t)
        BY DEF MayRun, OpenInv
      <4>2. ASSUME NEW q \in RunsOf(t) \ {r}, Active(q) PROVE FALSE
        <5>1. q \in RunIds /\ run[q].task = t /\ IsLatest(q) /\ r \in RunsOf(t)
          BY <1>0, <2>1, <4>2 DEF RunsOf, IsLatest
        <5>2. q <= r /\ r <= q
          BY <2>1, <5>1, <4>2 DEF IsLatest
        <5> QED BY <4>2, <5>1, <5>2, RunIdsAreNat
      <4> QED BY <1>6, <2>1, <4>1, <4>2 DEF Superseded
    <3>3. ~EffectSpent(r)
      BY <1>6, <2>1, <3>2 DEF EffectSpent
    <3>4. Kept(r)'
      BY <1>6, <2>1, <2>5, <3>3, KeptStays
    <3> QED BY <2>2, <2>5, <3>1, <3>4
  <2>6. CASE run[r].status = "canceled" /\ ~Mild
    <3>1. run'[r] = run[r]
      BY <2>2, <2>6 DEF RowMove, Active, ActiveStatuses
    <3> QED BY <2>2, <2>6, <3>1
  <2> QED BY <2>1, <2>3, <2>4, <2>5, <2>6
<1> QED BY <1>4, <1>5, <1>6

\* These hold in every reachable state, while operators and automation stay away.
LEMMA BackInductive == Wide => (Spec => []BackInv)
<1> SUFFICES ASSUME Wide PROVE Spec => []BackInv
  OBVIOUS
<1>0. "auto" \notin Faults
  BY DEF Wide
<1>1. Init => BackInv
  <2>1. Init => OpenInv
    <3> SUFFICES ASSUME Init PROVE OpenInv
      OBVIOUS
    <3>1. PolicyRuns({"pending", "running"}) = {}
      BY DEF Init, PolicyRuns, NoRun
    <3>2. policy.enabled /\ policy.quota = MaxConcurrent /\ \A t \in Tasks : task[t].enabled
      BY DEF Init
    <3> QED BY <3>1, <3>2, FS_EmptySet, ConstantsAssumption DEF OpenInv
  <2>2. Init => TakenInv
    BY DEF Init, TakenInv, TakenAt, Idle, HeldPcs
  <2>3. Init => EffectInv
    BY DEF Init, EffectInv, NoEffect
  <2>4. Init => Backing
    BY DEF Init, Backing
  <2> QED BY <2>1, <2>2, <2>3, <2>4 DEF BackInv
<1>2. IInv /\ IInv' /\ SlotInv /\ CalmInv /\ CalmInv' /\ BudgetInv /\ BackInv /\ [Next]_vars => BackInv'
  <2>1. ASSUME IInv, IInv', SlotInv, CalmInv, CalmInv', BudgetInv, BackInv, Next PROVE BackInv'
    <3>1. WideStep /\ StepRows /\ StepSlots /\ BudgetStep
      BY <1>0, <2>1, WideSteps, NextRows, NextSlots, NextBudget
    <3>2. OpenInv /\ (Mild => TakenInv) /\ EffectInv /\ Backing /\ RowsInOrder /\ CoreCalm'
      BY <2>1 DEF BackInv, BudgetInv, OrderInv, CalmInv
    <3>3. StepEffects /\ ClosesWell
      BY <2>1, <3>1, <3>2, WideEffects, WideWell
    <3>4. OpenInv'
      BY <2>1, <3>1, <3>2, OpenInvKept
    <3>5. Mild => TakenInv'
      BY <2>1, <3>1, <3>2, TakenInvKept
    <3>6. EffectInv'
      BY <3>2, <3>3, EffectInvKept
    <3>7. Backing'
      BY <2>1, <3>1, <3>2, <3>3, BackingKept
    <3> QED BY <3>4, <3>5, <3>6, <3>7 DEF BackInv
  <2>2. ASSUME BackInv, UNCHANGED vars PROVE BackInv'
    <3>1. OpenInv'
      BY <2>2 DEF BackInv, OpenInv, PolicyRuns, vars
    <3>2. Mild => TakenInv'
      BY <2>2 DEF BackInv, TakenInv, TakenAt, Active, vars
    <3>3. EffectInv'
      BY <2>2 DEF BackInv, EffectInv, vars
    <3>4. Backing'
      BY <2>2 DEF BackInv, Backing, Kept, IsLatest, RunsOf, Active, vars
    <3> QED BY <3>1, <3>2, <3>3, <3>4 DEF BackInv
  <2> QED BY <2>1, <2>2
<1>3. Spec => []BudgetInv
  BY <1>0, BudgetInductive
<1> QED BY <1>1, <1>2, <1>3, Inductive, SlotsInductive, CalmInductive, PTL DEF Spec

\* What a retry still hangs on is delivered, or was the last claim, or was canceled.
LEMMA KeptOrDied ==
  ASSUME IInv, BackInv, NEW t \in Tasks, task[t].status = "retrying"
  PROVE  /\ Backed(t) \/ LastClaimDied(t) \/ RunDropped(t)
         /\ Mild => Backed(t) \/ LastClaimDied(t)
         /\ Mild /\ "crash" \notin Faults => Backed(t)
<1>1. PICK r \in RunIds : /\ run[r].task = t /\ IsLatest(r)
                          /\ \/ Active(r)
                             \/ run[r].status = "failed" /\ Kept(r)
                             \/ run[r].status = "canceled" /\ ~Mild
  BY DEF BackInv, Backing
<1>2. r \in RunsOf(t)
  BY <1>1 DEF IsLatest
<1>3. effect[r].attempts \in 0..MaxAttempts /\ MaxAttempts \in Nat /\ MaxAttempts > 0
  BY ConstantsAssumption DEF IInv, TypeOK, EffectRow
<1>4. Kept(r) => \/ Deliverable(r)
                 \/ /\ effect[r].status = "running" /\ effect[r].attempts = MaxAttempts
                    /\ \A c \in Cores : courier[c][r] = "none"
  BY <1>3 DEF Kept, Deliverable, BackInv, EffectInv
<1>5. "crash" \notin Faults /\ Kept(r) => Deliverable(r)
  BY <1>3 DEF Kept, Deliverable, BackInv, EffectInv
<1> QED BY <1>1, <1>2, <1>4, <1>5 DEF Backed, LastClaimDied, RunDropped

\* Through refusals, slow processes and failed deliveries a retrying Task has its
\* retry run, or an effect that can still be delivered or rebuilt.
THEOREM RetriesAreBacked == Mild /\ "crash" \notin Faults => (Spec => []RetryingIsBacked)
<1> SUFFICES ASSUME Mild, "crash" \notin Faults PROVE Spec => []RetryingIsBacked
  OBVIOUS
<1>1. IInv /\ BackInv => RetryingIsBacked
  BY KeptOrDied DEF RetryingIsBacked
<1>2. Spec => []BackInv
  BY BackInductive DEF Mild, Wide
<1> QED BY <1>1, <1>2, Inductive, PTL

\* With processes that die at any point besides, the retry is lost only with the
\* last claim its effect was allowed.
THEOREM RetriesOutliveCrashes == Mild => (Spec => []RetryOutlivesCrash)
<1> SUFFICES ASSUME Mild PROVE Spec => []RetryOutlivesCrash
  OBVIOUS
<1>1. IInv /\ BackInv => RetryOutlivesCrash
  BY KeptOrDied DEF RetryOutlivesCrash
<1>2. Spec => []BackInv
  BY BackInductive DEF Mild, Wide
<1> QED BY <1>1, <1>2, Inductive, PTL

\* Whatever dies, stops, lags, times out, loses its database or meets a maintenance
\* window, a retry is lost in two ways only: with the last claim, or with a run that
\* was canceled before its entry.
THEOREM RetryLossesAreKnown == Wide => (Spec => []RetryLossIsKnown)
<1> SUFFICES ASSUME Wide PROVE Spec => []RetryLossIsKnown
  OBVIOUS
<1>1. IInv /\ BackInv => RetryLossIsKnown
  BY KeptOrDied DEF RetryLossIsKnown
<1>2. Spec => []BackInv
  BY BackInductive
<1> QED BY <1>1, <1>2, Inductive, PTL
=============================================================================
