---------------------------- MODULE AlertDelivery ----------------------------
(***************************************************************************)
(* The life of one alert (internal/alerting, internal/escalation): how it  *)
(* is routed, how the levels of its escalation policy fire, and how the    *)
(* delivery intents that result are sent, retried and settled by the       *)
(* goroutines of server processes that share one database, while processes *)
(* die, leases lapse, answers get lost and operators edit the policy,      *)
(* close the alert or ask for a delivery by hand.                          *)
(*                                                                         *)
(* Every database transaction, and every read another process can          *)
(* invalidate before it is used, is one step.  An intent is a row of       *)
(* alert_deliveries, named by its delivery_key: <<0, c>> for the direct    *)
(* intent of channel c, <<e, c>> for the one of escalation event e.  What  *)
(* routing reads outside the alert's own rows (channels, thresholds,       *)
(* cooldown, silences, grouping) is a free choice, since other alerts and  *)
(* operators change it at any time.  Rows without a delivery_key, which    *)
(* only a migration leaves behind, are not modelled.                       *)
(***************************************************************************)
EXTENDS Naturals, Integers, Sequences, FiniteSets

CONSTANTS
    Workers,      \* goroutines, of any process: each routes, escalates or delivers
    NoWorker,
    Channels,     \* notification integrations
    NoKey,
    Levels,       \* how many levels the escalation policy has
    MaxAttempts,  \* maxAttempts, the sends an intent may take
    MaxEvents,    \* bound: escalation events recorded
    Faults,       \* what goes wrong, and what operators do, in this instance
    MaxFaults     \* bound: how often

FaultKinds == {"crash", "lapse", "db", "lost", "gone", "policy", "manual"}

Keys == (0..MaxEvents) \X Channels

ASSUME AlertAssumption ==
    /\ NoWorker \notin Workers /\ NoKey \notin Keys
    /\ IsFiniteSet(Workers)
    /\ Levels \in Nat
    /\ MaxAttempts \in Nat \ {0}
    /\ MaxEvents \in Nat
    /\ Faults \subseteq FaultKinds
    /\ MaxFaults \in Nat

VARIABLES
    alert,    \* alerts: the row
    policy,   \* the alert's escalation policy is enabled and applies
    fired,    \* alert_escalation_events: the level of each event, oldest first
    row,      \* alert_deliveries, by delivery_key
    past,     \* what happened to each intent: sends the channel accepted, answers
              \* that were lost, leases that lapsed, forced claims
    router,   \* per worker: the routing of the alert it is in
    sender,   \* per worker: the delivery attempt it is in
    engine,   \* per worker: the escalation it is in
    faults    \* faults so far

vars == <<alert, policy, fired, row, past, router, sender, engine, faults>>

Decisions == {"pending", "direct", "suppressed", "escalated", "no_channel", "unknown"}
Statuses == {"none", "pending", "sending", "sent", "retrying", "failed"}
Event(k) == k[1]
Channel(k) == k[2]

AlertRows == [status : {"none", "open", "closed"}, decision : Decisions, level : Int]
IntentRows == [status : Statuses, attempts : Nat, owner : Workers \cup {NoWorker},
               live : BOOLEAN, due : BOOLEAN]
Pasts == [accepted : Nat, lost : Nat, lapses : Nat, forced : Nat]
Routers == [pc : {"idle", "read", "history", "resolve", "commit"},
            decision : Decisions, channels : SUBSET Channels]
Senders == [pc : {"idle", "forced", "claimed", "loaded", "answered"}, key : Keys \cup {NoKey},
            force : BOOLEAN, result : {"none", "sent", "retrying", "failed"}]
Engines == [pc : {"idle", "fire"}, level : Int]

\* Every row and every goroutine is well formed.
TypeOK ==
    /\ alert \in AlertRows
    /\ policy \in BOOLEAN
    /\ fired \in Seq(Int)
    /\ row \in [Keys -> IntentRows]
    /\ past \in [Keys -> Pasts]
    /\ router \in [Workers -> Routers]
    /\ sender \in [Workers -> Senders]
    /\ engine \in [Workers -> Engines]
    /\ faults \in Nat

NoRow == [status |-> "none", attempts |-> 0, owner |-> NoWorker, live |-> FALSE, due |-> FALSE]
Intent == [NoRow EXCEPT !.status = "pending"]
IdleRouter == [pc |-> "idle", decision |-> "pending", channels |-> {}]
IdleSender == [pc |-> "idle", key |-> NoKey, force |-> FALSE, result |-> "none"]
IdleEngine == [pc |-> "idle", level |-> -1]

\* An alert is not raised yet; last_level_fired starts at -1.
Init ==
    /\ alert = [status |-> "none", decision |-> "pending", level |-> -1]
    /\ policy \in BOOLEAN
    /\ fired = <<>>
    /\ row = [k \in Keys |-> NoRow]
    /\ past = [k \in Keys |-> [accepted |-> 0, lost |-> 0, lapses |-> 0, forced |-> 0]]
    /\ router = [p \in Workers |-> IdleRouter]
    /\ sender = [p \in Workers |-> IdleSender]
    /\ engine = [p \in Workers |-> IdleEngine]
    /\ faults = 0

Fault(f) == f \in Faults /\ faults < MaxFaults /\ faults' = faults + 1
NoFault == faults' = faults

Exists(k) == row[k].status # "none"
History == fired # <<>>
Free(p) == router[p].pc = "idle" /\ sender[p].pc = "idle" /\ engine[p].pc = "idle"
HasRows == \E k \in Keys : Exists(k)

-----------------------------------------------------------------------------
(* Routing: dispatchCreatedAlertWithSender and prepareDeliveryDecision. *)

Route(p, s) == router' = [router EXCEPT ![p] = s]
Decide(p, d, cs) == Route(p, [pc |-> "commit", decision |-> d, channels |-> cs])

\* raiseAndDispatch, raiseFailureForCurrentRun: the alert is created, undecided.
Raise(p) ==
    /\ alert.status = "none"
    /\ Free(p)
    /\ alert' = [alert EXCEPT !.status = "open"]
    /\ Route(p, [IdleRouter EXCEPT !.pc = "read"])
    /\ UNCHANGED <<policy, fired, row, past, sender, engine, faults>>

ReplayOpen(p) ==                          \* slip: a closed alert is not routed again
    /\ alert.status = "open" /\ alert.decision = "pending"
    /\ Free(p)
    /\ Route(p, [IdleRouter EXCEPT !.pc = "read"])
    /\ UNCHANGED <<alert, policy, fired, row, past, sender, engine, faults>>

\* RetryWorker.tick, or a deduplicated raise: an undecided alert is routed again.
Replay(p) ==
    /\ alert.status # "none" /\ alert.decision = "pending"
    /\ Free(p)
    /\ Route(p, [IdleRouter EXCEPT !.pc = "read"])
    /\ UNCHANGED <<alert, policy, fired, row, past, sender, engine, faults>>

\* prepareDeliveryDecision reads the alert's intents...
ReadRows(p) ==
    /\ router[p].pc = "read"
    /\ Route(p, [IdleRouter EXCEPT !.pc = IF HasRows THEN "history" ELSE "resolve"])
    /\ UNCHANGED <<alert, policy, fired, row, past, sender, engine, faults>>

\* ... and if there are some, whether it has escalated.
ReadHistory(p) ==
    /\ router[p].pc = "history"
    /\ Decide(p, IF History THEN "unknown" ELSE "direct", {})
    /\ UNCHANGED <<alert, policy, fired, row, past, sender, engine, faults>>

\* Otherwise the policy takes the alert over, or it goes to the channels that
\* silences, grouping, thresholds and cooldowns leave.
Resolve(p) ==
    /\ router[p].pc = "resolve"
    /\ \/ policy /\ Decide(p, "escalated", {})
       \/ ~policy /\ \E d \in {"no_channel", "suppressed"} : Decide(p, d, {})
       \/ ~policy /\ \E cs \in SUBSET Channels \ {{}} : Decide(p, "direct", cs)
    /\ UNCHANGED <<alert, policy, fired, row, past, sender, engine, faults>>

\* A query of the routing gates fails: the alert stays undecided.
RouteError(p) ==
    /\ router[p].pc \in {"read", "history", "resolve", "commit"}
    /\ Fault("db")
    /\ Route(p, IdleRouter)
    /\ UNCHANGED <<alert, policy, fired, row, past, sender, engine>>

\* ensureDeliveryIntentTx: the direct intents a decision still lacks.
Missing(cs) == {k \in Keys : Event(k) = 0 /\ Channel(k) \in cs /\ ~Exists(k)}
Ensured(cs) == [k \in Keys |-> IF k \in Missing(cs) THEN Intent ELSE row[k]]

\* An intent is never made for an alert that has escalated.
BlockedNever(cs) == FALSE                 \* slip: the history is not looked at
Blocked(cs) == Missing(cs) # {} /\ History

\* The first decision stands.
SettledLast(d) == d                       \* slip: the row is not read again
Settled(d) == IF alert.decision = "pending" THEN d ELSE alert.decision

\* commitDeliveryDecision, under the alert's row lock.
Commit(p) ==
    /\ router[p].pc = "commit"
    /\ LET d == router[p].decision
           cs == IF d = "direct" /\ alert.decision \in {"pending", "direct"}
                     THEN router[p].channels ELSE {}
       IN IF Blocked(cs)
              THEN UNCHANGED <<alert, row>>
              ELSE /\ row' = Ensured(cs)
                   /\ alert' = [alert EXCEPT !.decision = Settled(d)]
    /\ Route(p, IdleRouter)
    /\ UNCHANGED <<policy, fired, past, sender, engine, faults>>

RouterStep(p) == Replay(p) \/ ReadRows(p) \/ ReadHistory(p) \/ Resolve(p) \/ Commit(p)

-----------------------------------------------------------------------------
(* Escalation: Engine.Tick, evaluate and fire. *)

\* Tick loads the open alert, evaluateNextLevel finds its next level due.
Evaluate(p) ==
    /\ Free(p)
    /\ alert.status = "open" /\ policy /\ alert.level + 1 < Levels
    /\ engine' = [engine EXCEPT ![p] = [pc |-> "fire", level |-> alert.level]]
    /\ UNCHANGED <<alert, policy, fired, row, past, router, sender, faults>>

\* EnqueueEscalationDeliveriesTx: event e's intents for the enabled channels cs.
Enqueued(e, cs) ==
    [k \in Keys |-> IF Event(k) = e /\ Channel(k) \in cs /\ ~Exists(k) THEN Intent ELSE row[k]]

\* evaluateNextLevel: the level after the one the tick read.
NextLevelSkip(p) == engine[p].level + 2   \* slip: off by one
NextLevel(p) == engine[p].level + 1

\* The optimistic lock: no other tick advanced the alert, nobody closed it.
CurrentLevel(p) == alert.status = "open" /\ alert.level = engine[p].level

\* The unique index on (alert_id, level_index).
Unrecorded(l) == \A e \in 1..Len(fired) : fired[e] # l

\* The fire transaction: the level advances, its event and its intents are
\* recorded (no intents when the level is silenced).
Fire(p) ==
    /\ engine[p].pc = "fire"
    /\ LET next == NextLevel(p)
       IN IF CurrentLevel(p) /\ Unrecorded(next)
              THEN /\ Len(fired) < MaxEvents
                   /\ alert' = [alert EXCEPT !.level = next]
                   /\ fired' = Append(fired, next)
                   /\ \E cs \in SUBSET Channels : row' = Enqueued(Len(fired) + 1, cs)
              ELSE UNCHANGED <<alert, fired, row>>
    /\ engine' = [engine EXCEPT ![p] = IdleEngine]
    /\ UNCHANGED <<policy, past, router, sender, faults>>

\* The transaction fails and is rolled back.
FireError(p) ==
    /\ engine[p].pc = "fire"
    /\ Fault("db")
    /\ engine' = [engine EXCEPT ![p] = IdleEngine]
    /\ UNCHANGED <<alert, policy, fired, row, past, router, sender>>

EngineStep(p) == Evaluate(p) \/ Fire(p)

-----------------------------------------------------------------------------
(* Delivery: runDeliveryAttempt, from claim to result. *)

ClaimableLive(k) ==                       \* slip: the lease is not looked at
    \/ row[k].status \in {"pending", "sending"}
    \/ row[k].status = "retrying" /\ row[k].due
ClaimableFirst(k) ==                      \* slip: a dead sender's intent is left
    row[k].status = "pending" \/ (row[k].status = "retrying" /\ row[k].due)

\* A pending intent, a retry that is due, a send whose lease ran out.
Claimable(k) ==
    \/ row[k].status = "pending"
    \/ row[k].status = "retrying" /\ row[k].due
    \/ row[k].status = "sending" /\ ~row[k].live

\* What an operator's retry may claim: anything unsent that nobody is sending.
Forceable(k) ==
    \/ row[k].status \in {"pending", "retrying", "failed"}
    \/ row[k].status = "sending" /\ ~row[k].live

Idle(p) == sender' = [sender EXCEPT ![p] = IdleSender]
Answer(p, s) == sender' = [sender EXCEPT ![p].pc = "answered", ![p].result = s]

\* claimDelivery: the intent is leased to a new attempt.
TakeLease(p, k) ==
    row' = [row EXCEPT ![k] = [status |-> "sending", attempts |-> @.attempts + 1,
                               owner |-> p, live |-> TRUE, due |-> FALSE]]

\* An initial, replayed or automatic attempt.
Claim(p, k) ==
    /\ Free(p) /\ Claimable(k)
    /\ TakeLease(p, k)
    /\ sender' = [sender EXCEPT ![p] = [pc |-> "claimed", key |-> k, force |-> FALSE, result |-> "none"]]
    /\ UNCHANGED <<alert, policy, fired, past, router, engine, faults>>

\* RetryDelivery picks the channel's newest intent, the batch retry a failed one.
Newest(k) == \A j \in Keys : Channel(j) = Channel(k) /\ Exists(j) => Event(j) <= Event(k)

Manual(p, k) ==
    /\ alert.status # "none" /\ Free(p)
    /\ Exists(k) /\ row[k].status # "sent"
    /\ Newest(k) \/ row[k].status = "failed"
    /\ Fault("manual")
    /\ sender' = [sender EXCEPT ![p] = [pc |-> "forced", key |-> k, force |-> TRUE, result |-> "none"]]
    /\ UNCHANGED <<alert, policy, fired, row, past, router, engine>>

\* RetryDelivery for a channel without an intent makes a direct one, unless the
\* alert escalated or was decided otherwise.
ManualNew(p, k) ==
    /\ alert.status # "none" /\ Free(p)
    /\ Event(k) = 0
    /\ \A j \in Keys : Channel(j) = Channel(k) => ~Exists(j)
    /\ ~History /\ alert.decision \in {"pending", "direct"}
    /\ Fault("manual")
    /\ row' = [row EXCEPT ![k] = Intent]
    /\ sender' = [sender EXCEPT ![p] = [pc |-> "forced", key |-> k, force |-> TRUE, result |-> "none"]]
    /\ UNCHANGED <<alert, policy, fired, past, router, engine>>

\* claimDelivery with force; a contender that lost does not send.
ForceClaim(p) ==
    /\ sender[p].pc = "forced"
    /\ LET k == sender[p].key
       IN IF Forceable(k)
              THEN /\ TakeLease(p, k)
                   /\ past' = [past EXCEPT ![k].forced = @ + 1]
                   /\ sender' = [sender EXCEPT ![p].pc = "claimed"]
              ELSE Idle(p) /\ UNCHANGED <<row, past>>
    /\ UNCHANGED <<alert, policy, fired, router, engine, faults>>

\* The row is leased to p's attempt (status and attempt_id).
Mine(p) == row[sender[p].key].status = "sending" /\ row[sender[p].key].owner = p

\* retryResultForFailure.  The count is the claimed row's: where another attempt
\* has raised it since, this attempt lost the lease and its result is not written.
RetryResultPending(p, terminal) ==        \* slip: the intent is queued as new
    IF terminal \/ row[sender[p].key].attempts >= MaxAttempts THEN "failed" ELSE "pending"
RetryResultOver(p, terminal) ==           \* slip: off by one
    IF terminal \/ row[sender[p].key].attempts > MaxAttempts THEN "failed" ELSE "retrying"
RetryResult(p, terminal) ==
    IF terminal \/ row[sender[p].key].attempts >= MaxAttempts THEN "failed" ELSE "retrying"

\* The claimed row, its channel and its alert are loaded.
Load(p) ==
    /\ sender[p].pc = "claimed"
    /\ IF Mine(p) THEN sender' = [sender EXCEPT ![p].pc = "loaded"] ELSE Idle(p)
    /\ UNCHANGED <<alert, policy, fired, row, past, router, engine, faults>>

\* The claimed row cannot be loaded (the lease stays), the channel was deleted,
\* or the channel or the alert cannot be loaded.
LoadError(p) ==
    /\ sender[p].pc = "claimed" /\ Mine(p)
    /\ \/ Fault("db") /\ Idle(p)
       \/ Fault("gone") /\ Answer(p, "failed")
       \/ Fault("db") /\ Answer(p, RetryResult(p, FALSE))
    /\ UNCHANGED <<alert, policy, fired, row, past, router, engine>>

SendBlind(p) ==                           \* slip: a refusal is taken for an answer
    /\ sender[p].pc = "loaded"
    /\ Answer(p, "sent")
    /\ past' = past \/ past' = [past EXCEPT ![sender[p].key].accepted = @ + 1]
    /\ UNCHANGED <<alert, policy, fired, row, router, engine, faults>>
\* The network call: accepted, refused for now, or refused for good.
Send(p) ==
    /\ sender[p].pc = "loaded"
    /\ LET k == sender[p].key
       IN \/ Answer(p, "sent") /\ past' = [past EXCEPT ![k].accepted = @ + 1]
          \/ Answer(p, RetryResult(p, sender[p].force)) /\ UNCHANGED past
          \/ Answer(p, "failed") /\ UNCHANGED past
    /\ UNCHANGED <<alert, policy, fired, row, router, engine, faults>>

\* Accepted, but the answer does not arrive.
SendLost(p) ==
    /\ sender[p].pc = "loaded"
    /\ Fault("lost")
    /\ past' = [past EXCEPT ![sender[p].key].accepted = @ + 1, ![sender[p].key].lost = @ + 1]
    /\ Answer(p, RetryResult(p, sender[p].force))
    /\ UNCHANGED <<alert, policy, fired, row, router, engine>>

\* The predicate of completeDelivery's update.
HoldsLeaseAny(p) == TRUE                  \* slip: a late result is written too
HoldsLease(p) == Mine(p) /\ row[sender[p].key].live

\* completeDelivery: only the attempt that holds the live lease writes its result.
\* (The attempt_id it leaves behind is only read while a row is sending.)
Complete(p) ==
    /\ sender[p].pc = "answered"
    /\ LET k == sender[p].key
       IN IF HoldsLease(p)
              THEN row' = [row EXCEPT ![k].status = sender[p].result, ![k].live = FALSE,
                                      ![k].owner = NoWorker]
              ELSE UNCHANGED row
    /\ Idle(p)
    /\ UNCHANGED <<alert, policy, fired, past, router, engine, faults>>

\* The receipt is not written; the lease stays.
CompleteError(p) ==
    /\ sender[p].pc = "answered"
    /\ Fault("db")
    /\ Idle(p)
    /\ UNCHANGED <<alert, policy, fired, row, past, router, engine>>

SenderStep(p) ==
    (\E k \in Keys : Claim(p, k)) \/ ForceClaim(p) \/ Load(p) \/ Send(p) \/ Complete(p)

-----------------------------------------------------------------------------
(* Time, operators and failures. *)

Sending(p, k) == sender[p].key = k /\ sender[p].pc \in {"claimed", "loaded", "answered"}

\* deliveryLeaseDuration passes.  A lease whose attempt is over always lapses,
\* one whose sender is merely slow lapses as a fault.
LeaseLapses(k) ==
    /\ row[k].status = "sending" /\ row[k].live
    /\ IF Sending(row[k].owner, k) THEN Fault("lapse") ELSE NoFault
    /\ row' = [row EXCEPT ![k].live = FALSE]
    /\ past' = [past EXCEPT ![k].lapses = @ + 1]
    /\ UNCHANGED <<alert, policy, fired, router, sender, engine>>

\* next_retry_at is reached.
BackoffElapses(k) ==
    /\ row[k].status = "retrying" /\ ~row[k].due
    /\ row' = [row EXCEPT ![k].due = TRUE]
    /\ UNCHANGED <<alert, policy, fired, past, router, sender, engine, faults>>

\* The policy is enabled, disabled, bound or unbound.
EditPolicy ==
    /\ Fault("policy")
    /\ policy' = ~policy
    /\ UNCHANGED <<alert, fired, row, past, router, sender, engine>>

\* Ack, Resolve, or a successful run of the task: no level fires any more.
Close ==
    /\ alert.status = "open"
    /\ alert' = [alert EXCEPT !.status = "closed"]
    /\ UNCHANGED <<policy, fired, row, past, router, sender, engine, faults>>

\* A worker's process dies and is started again.
Crash(p) ==
    /\ Fault("crash")
    /\ router' = [router EXCEPT ![p] = IdleRouter]
    /\ Idle(p)
    /\ engine' = [engine EXCEPT ![p] = IdleEngine]
    /\ UNCHANGED <<alert, policy, fired, row, past>>

Next ==
    \/ \E p \in Workers :
          \/ Raise(p) \/ RouterStep(p) \/ RouteError(p)
          \/ EngineStep(p) \/ FireError(p)
          \/ SenderStep(p) \/ LoadError(p) \/ SendLost(p) \/ CompleteError(p)
          \/ Crash(p)
    \/ \E p \in Workers, k \in Keys : Manual(p, k) \/ ManualNew(p, k)
    \/ \E k \in Keys : LeaseLapses(k) \/ BackoffElapses(k)
    \/ EditPolicy \/ Close

Spec == Init /\ [][Next]_vars

(***************************************************************************)
(* The retry worker and the engine run on tickers, a worker that can move  *)
(* moves, leases nobody holds lapse and backoffs end.  Nobody has to       *)
(* raise, close or edit anything, and no fault has to happen.              *)
(***************************************************************************)
Fairness ==
    /\ \A p \in Workers : WF_vars(RouterStep(p) \/ EngineStep(p) \/ SenderStep(p))
    /\ \A k \in Keys : WF_vars(LeaseLapses(k)) /\ WF_vars(BackoffElapses(k))

FairSpec == Spec /\ Fairness

-----------------------------------------------------------------------------
(* Safety. *)

\* A channel is notified twice of one intent only when a lease lapsed or an answer
\* was lost: claimDelivery and completeDelivery leave no other way, however the
\* initial, automatic and manual attempts of several processes interleave.
DuplicateIsPaid == \A k \in Keys : past[k].accepted <= 1 + past[k].lapses + past[k].lost

\* An intent takes at most maxAttempts sends, plus one for every lease that lapsed
\* and every retry an operator forced (retryResultForFailure).
AttemptBudget ==
    \A k \in Keys : row[k].attempts <= MaxAttempts + past[k].lapses + past[k].forced

\* Engines that race never fire a level twice nor skip one, and last_level_fired
\* is the level of the newest event (the optimistic lock of Engine.fire).
LevelsFireOnce ==
    /\ alert.level = Len(fired) - 1
    /\ \A e \in 1..Len(fired) : fired[e] = e - 1

\* A confirmed delivery stays confirmed: no late result of an attempt that lost its
\* lease and no retry replaces it.
SentIsFinal == [][\A k \in Keys : row[k].status = "sent" => row'[k].status = "sent"]_vars

\* What was decided about an alert stands: a router that read the alert before
\* another one decided does not overrule it (commitDeliveryDecision).
DecisionIsFinal == [][alert.decision # "pending" => alert'.decision = alert.decision]_vars

\* Once a level fired no direct intent is added, by a router or by an operator: a
\* channel is not told the same thing on both routes.
NoDirectAfterEscalation ==
    [][\A k \in Keys : Event(k) = 0 /\ History /\ ~Exists(k) => row'[k].status = "none"]_vars

\* What channels and operators see of an intent.
Seen(k) == IF row[k].status \in {"pending", "sending", "retrying"} THEN "open" ELSE row[k].status

N == INSTANCE Notification WITH
    Messages <- Keys,
    stage <- alert.status,
    decision <- alert.decision,
    levels <- Len(fired),
    message <- [k \in Keys |-> Seen(k)],
    copies <- [k \in Keys |-> past[k].accepted],
    mishaps <- [k \in Keys |-> past[k].lapses + past[k].lost]

\* Routers, engines, senders and operators together keep the promise of
\* Notification; in particular no intent is marked sent that its channel never
\* accepted, and a level makes its intents only when it fires.
RefinesNotification == N!NotificationSpec

-----------------------------------------------------------------------------
(* Liveness, under FairSpec. *)

\* Every intent is settled, wherever its senders died.
IntentsSettle == \A k \in Keys : Exists(k) ~> row[k].status \in {"sent", "failed"}

\* Every alert is decided, except that one whose fired levels reached no channel
\* cannot be routed directly (ensureDeliveryIntentTx refuses it).
AlertIsDecided ==
    alert.status # "none" ~> alert.decision # "pending" \/ (History /\ ~HasRows /\ ~policy)
=============================================================================
