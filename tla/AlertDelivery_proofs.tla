------------------------ MODULE AlertDelivery_proofs ------------------------
(***************************************************************************)
(* AlertDelivery, for any number of workers, channels, levels, attempts    *)
(* and faults.                                                             *)
(*                                                                         *)
(* The argument for the two bounds is one of accounting.  A worker between *)
(* its claim and its send may still cause one accepted send, so it is      *)
(* counted together with the sends accepted already (Pot).  A claim adds   *)
(* one to that sum, and a claim is only possible where the sum does not    *)
(* exceed what lapsed leases and lost answers account for (Debt): on a     *)
(* fresh intent, after a result that was not "sent", or after a lapse.     *)
(***************************************************************************)
EXTENDS AlertDelivery, FiniteSetTheorems, TLAPS

Unsent(p, k) == sender[p].key = k /\ sender[p].pc \in {"claimed", "loaded"}
PreSend(k) == {p \in Workers : Unsent(p, k)}
Count(k) == Cardinality(PreSend(k))
Pot(k) == past[k].accepted + Count(k)
Debt(k) == past[k].lapses + past[k].lost
Allowed(k) == MaxAttempts + past[k].lapses + past[k].forced

Lapsed(k) == row[k].status = "sending" /\ ~row[k].live

\* What the accounts of an intent say in each of its states.
RowOK(k) ==
    /\ row[k].attempts <= Allowed(k)
    /\ Pot(k) <= 1 + Debt(k)
    /\ row[k].status \in {"none", "pending"} => row[k].attempts = 0 /\ Pot(k) = 0
    /\ row[k].status = "retrying" \/ Lapsed(k) => row[k].attempts < Allowed(k)
    /\ row[k].status \in {"retrying", "failed"} \/ Lapsed(k) => Pot(k) <= Debt(k)

\* What a worker that has an answer and still holds the lease may rely on.
WorkerOK(p) ==
    /\ sender[p].pc # "idle" => sender[p].key \in Keys
    /\ sender[p].pc = "answered" => sender[p].result # "none"
    /\ sender[p].pc = "answered" /\ sender[p].result = "retrying" /\ Mine(p) =>
           row[sender[p].key].attempts < MaxAttempts
    /\ sender[p].pc = "answered" /\ sender[p].result # "sent" /\ HoldsLease(p) =>
           Pot(sender[p].key) <= Debt(sender[p].key)

RowsOK == \A k \in Keys : RowOK(k)
WorkersOK == \A p \in Workers : WorkerOK(p)

IInv == TypeOK /\ RowsOK /\ WorkersOK /\ LevelsFireOnce

-----------------------------------------------------------------------------
(* What the shared operators do. *)

LEMMA RecordTypes ==
    /\ NoRow \in IntentRows /\ Intent \in IntentRows
    /\ IdleRouter \in Routers /\ IdleSender \in Senders /\ IdleEngine \in Engines
    /\ NoRow.status = "none" /\ NoRow.attempts = 0
    /\ Intent.status = "pending" /\ Intent.attempts = 0
    /\ IdleSender.pc = "idle"
<1>1. NoRow \in IntentRows /\ NoRow.status = "none" /\ NoRow.attempts = 0
  BY DEF NoRow, IntentRows, Statuses
<1>2. Intent \in IntentRows /\ Intent.status = "pending" /\ Intent.attempts = 0
  BY <1>1 DEF Intent, IntentRows, Statuses
<1>3. IdleRouter \in Routers
  BY DEF IdleRouter, Routers, Decisions
<1>4. IdleSender \in Senders /\ IdleSender.pc = "idle"
  BY DEF IdleSender, Senders
<1>5. IdleEngine \in Engines
  BY DEF IdleEngine, Engines
<1>6. QED BY <1>1, <1>2, <1>3, <1>4, <1>5

LEMMA FaultType ==
    ASSUME TypeOK, NEW f, Fault(f) PROVE faults' \in Nat
BY DEF TypeOK, Fault

LEMMA RouteType ==
    ASSUME TypeOK, NEW p \in Workers, NEW s \in Routers, Route(p, s)
    PROVE  router' \in [Workers -> Routers]
BY DEF TypeOK, Route

LEMMA DecideType ==
    ASSUME TypeOK, NEW p \in Workers, NEW d \in Decisions, NEW cs \in SUBSET Channels,
           Decide(p, d, cs)
    PROVE  router' \in [Workers -> Routers]
<1>1. [pc |-> "commit", decision |-> d, channels |-> cs] \in Routers
  BY DEF Routers
<1>2. QED BY <1>1, RouteType DEF Decide

LEMMA RetryResultType ==
    ASSUME NEW p \in Workers, NEW t \in BOOLEAN
    PROVE  RetryResult(p, t) \in {"failed", "retrying"}
BY DEF RetryResult

\* A worker that ends its attempt is idle; the others go on.
LEMMA IdleFacts ==
    ASSUME TypeOK, NEW p \in Workers, Idle(p)
    PROVE  /\ sender' \in [Workers -> Senders]
           /\ sender'[p] = IdleSender
           /\ \A q \in Workers : q # p => sender'[q] = sender[q]
BY RecordTypes DEF TypeOK, Idle

\* A worker that has an answer keeps its intent.
LEMMA AnswerFacts ==
    ASSUME TypeOK, NEW p \in Workers, NEW s \in {"sent", "retrying", "failed"}, Answer(p, s)
    PROVE  /\ sender' \in [Workers -> Senders]
           /\ sender'[p].pc = "answered" /\ sender'[p].result = s
           /\ sender'[p].key = sender[p].key
           /\ \A q \in Workers : q # p => sender'[q] = sender[q]
BY DEF TypeOK, Answer, Senders

LEMMA LeaseFacts ==
    ASSUME TypeOK, NEW p \in Workers, NEW k \in Keys, TakeLease(p, k)
    PROVE  /\ row' \in [Keys -> IntentRows]
           /\ row'[k].status = "sending" /\ row'[k].owner = p /\ row'[k].live
           /\ row'[k].attempts = row[k].attempts + 1
           /\ \A j \in Keys : j # k => row'[j] = row[j]
BY DEF TypeOK, TakeLease, IntentRows, Statuses

\* The row that completeDelivery writes.
LEMMA CompleteFacts ==
    ASSUME TypeOK, WorkersOK, NEW p \in Workers, Complete(p), HoldsLease(p)
    PROVE  /\ sender[p].key \in Keys
           /\ row' \in [Keys -> IntentRows]
           /\ row'[sender[p].key].status = sender[p].result
           /\ row'[sender[p].key].attempts = row[sender[p].key].attempts
           /\ row'[sender[p].key].owner = NoWorker /\ ~row'[sender[p].key].live
           /\ \A j \in Keys : j # sender[p].key => row'[j] = row[j]
<1> DEFINE k == sender[p].key
<1>1. k \in Keys
  BY DEF WorkersOK, WorkerOK, Complete
<1>2. sender[p].result \in Statuses
  BY DEF TypeOK, Senders, Statuses
<1>3. row' = [row EXCEPT ![k].status = sender[p].result, ![k].live = FALSE, ![k].owner = NoWorker]
  BY DEF Complete
<1>4. row[k] \in IntentRows /\ row \in [Keys -> IntentRows]
  BY <1>1 DEF TypeOK
<1> HIDE DEF k
<1>5. /\ row' \in [Keys -> IntentRows]
      /\ row'[k].status = sender[p].result
      /\ row'[k].attempts = row[k].attempts
      /\ row'[k].owner = NoWorker /\ ~row'[k].live
      /\ \A j \in Keys : j # k => row'[j] = row[j]
  BY <1>1, <1>2, <1>3, <1>4 DEF IntentRows
<1>6. QED BY <1>1, <1>5 DEF k

\* What a step records about one intent.
Recorded(k, acc, los, lap, frc) ==
    /\ past' \in [Keys -> Pasts]
    /\ past'[k].accepted = past[k].accepted + acc /\ past'[k].lost = past[k].lost + los
    /\ past'[k].lapses = past[k].lapses + lap /\ past'[k].forced = past[k].forced + frc
    /\ \A j \in Keys : j # k => past'[j] = past[j]

LEMMA PastFacts ==
    ASSUME TypeOK, NEW k \in Keys
    PROVE  /\ past' = past => Recorded(k, 0, 0, 0, 0)
           /\ past' = [past EXCEPT ![k].accepted = @ + 1] => Recorded(k, 1, 0, 0, 0)
           /\ past' = [past EXCEPT ![k].accepted = @ + 1, ![k].lost = @ + 1] =>
                  Recorded(k, 1, 1, 0, 0)
           /\ past' = [past EXCEPT ![k].lapses = @ + 1] => Recorded(k, 0, 0, 1, 0)
           /\ past' = [past EXCEPT ![k].forced = @ + 1] => Recorded(k, 0, 0, 0, 1)
<1>1. past \in [Keys -> Pasts] /\ past[k] \in Pasts
  BY DEF TypeOK
<1>2. past' = past => Recorded(k, 0, 0, 0, 0)
  BY <1>1 DEF Recorded, Pasts
<1>3. past' = [past EXCEPT ![k].accepted = @ + 1] => Recorded(k, 1, 0, 0, 0)
  BY <1>1 DEF Recorded, Pasts
<1>4. past' = [past EXCEPT ![k].accepted = @ + 1, ![k].lost = @ + 1] => Recorded(k, 1, 1, 0, 0)
  BY <1>1 DEF Recorded, Pasts
<1>5. past' = [past EXCEPT ![k].lapses = @ + 1] => Recorded(k, 0, 0, 1, 0)
  BY <1>1 DEF Recorded, Pasts
<1>6. past' = [past EXCEPT ![k].forced = @ + 1] => Recorded(k, 0, 0, 0, 1)
  BY <1>1 DEF Recorded, Pasts
<1>7. QED BY <1>2, <1>3, <1>4, <1>5, <1>6

LEMMA EnsuredFacts ==
    ASSUME TypeOK, NEW cs
    PROVE  /\ Ensured(cs) \in [Keys -> IntentRows]
           /\ \A k \in Keys : Exists(k) => Ensured(cs)[k] = row[k]
           /\ \A k \in Keys : Ensured(cs)[k] = row[k] \/ Ensured(cs)[k] = Intent
BY RecordTypes DEF TypeOK, Ensured, Missing

LEMMA EnqueuedFacts ==
    ASSUME TypeOK, NEW e, NEW cs
    PROVE  /\ Enqueued(e, cs) \in [Keys -> IntentRows]
           /\ \A k \in Keys : Exists(k) => Enqueued(e, cs)[k] = row[k]
           /\ \A k \in Keys : Enqueued(e, cs)[k] = row[k] \/ Enqueued(e, cs)[k] = Intent
BY RecordTypes DEF TypeOK, Enqueued

-----------------------------------------------------------------------------
(* Types. *)

LEMMA InitType == Init => TypeOK
<1>1. SUFFICES ASSUME Init PROVE TypeOK
  OBVIOUS
<1>2. alert \in AlertRows
  BY <1>1 DEF Init, AlertRows, Decisions
<1>3. past \in [Keys -> Pasts]
  BY <1>1 DEF Init, Pasts
<1>4. QED BY <1>1, <1>2, <1>3, RecordTypes DEF Init, TypeOK

LEMMA RouterTypes ==
    ASSUME TypeOK, NEW p \in Workers, Raise(p) \/ RouterStep(p) \/ RouteError(p)
    PROVE  TypeOK'
<1>0. {"pending", "direct", "suppressed", "escalated", "no_channel", "unknown"} = Decisions
  BY DEF Decisions
<1>1. \A x \in {"read", "history", "resolve"} : [IdleRouter EXCEPT !.pc = x] \in Routers
  BY RecordTypes DEF Routers
<1>2. CASE Raise(p)
  BY <1>1, <1>2, RouteType DEF Raise, TypeOK, AlertRows
<1>3. CASE Replay(p)
  BY <1>1, <1>3, RouteType DEF Replay, TypeOK
<1>4. CASE ReadRows(p)
  BY <1>1, <1>4, RouteType DEF ReadRows, TypeOK
<1>5. CASE ReadHistory(p)
  <2>1. PICK d \in {"unknown", "direct"} : Decide(p, d, {})
    BY <1>5 DEF ReadHistory
  <2>2. QED BY <1>0, <1>5, <2>1, DecideType DEF ReadHistory, TypeOK
<1>6. CASE Resolve(p)
  <2>1. PICK d \in Decisions, cs \in SUBSET Channels : Decide(p, d, cs)
    BY <1>0, <1>6 DEF Resolve
  <2>2. QED BY <1>6, <2>1, DecideType DEF Resolve, TypeOK
<1>7. CASE RouteError(p)
  BY <1>7, RouteType, RecordTypes, FaultType DEF RouteError, TypeOK
<1>8. CASE Commit(p)
  <2>1. router' \in [Workers -> Routers]
    BY <1>8, RouteType, RecordTypes DEF Commit
  <2>2. PICK cs : \/ UNCHANGED <<alert, row>>
                  \/ row' = Ensured(cs) /\ alert' = [alert EXCEPT !.decision = Settled(router[p].decision)]
    BY <1>8 DEF Commit
  <2>3. Settled(router[p].decision) \in Decisions
    BY DEF TypeOK, Routers, AlertRows, Settled
  <2>4. row' \in [Keys -> IntentRows] /\ alert' \in AlertRows
    BY <2>2, <2>3, EnsuredFacts DEF TypeOK, AlertRows
  <2>5. QED BY <1>8, <2>1, <2>4 DEF Commit, TypeOK
<1>9. QED BY <1>2, <1>3, <1>4, <1>5, <1>6, <1>7, <1>8 DEF RouterStep

LEMMA EngineTypes ==
    ASSUME TypeOK, NEW p \in Workers, EngineStep(p) \/ FireError(p)
    PROVE  TypeOK'
<1>1. CASE Evaluate(p)
  BY <1>1 DEF Evaluate, TypeOK, Engines, AlertRows
<1>2. CASE Fire(p)
  <2>1. engine' \in [Workers -> Engines]
    BY <1>2, RecordTypes DEF Fire, TypeOK
  <2>2. NextLevel(p) \in Int
    BY DEF TypeOK, Engines, NextLevel
  <2>3. CASE UNCHANGED <<alert, fired, row>>
    BY <1>2, <2>1, <2>3 DEF Fire, TypeOK
  <2>4. CASE CurrentLevel(p) /\ Unrecorded(NextLevel(p))
    <3>0. /\ alert' = [alert EXCEPT !.level = NextLevel(p)]
          /\ fired' = Append(fired, NextLevel(p))
      BY <1>2, <2>4 DEF Fire
    <3>1. alert' \in AlertRows /\ fired' \in Seq(Int)
      <4>1. alert' \in AlertRows
        BY <2>2, <3>0 DEF TypeOK, AlertRows
      <4>2. fired' \in Seq(Int)
        BY <2>2, <3>0 DEF TypeOK
      <4>3. QED BY <4>1, <4>2
    <3>2. row' \in [Keys -> IntentRows]
      BY <1>2, <2>4, EnqueuedFacts DEF Fire
    <3>3. QED BY <1>2, <2>1, <3>1, <3>2 DEF Fire, TypeOK
  <2>5. QED BY <1>2, <2>3, <2>4 DEF Fire
<1>3. CASE FireError(p)
  BY <1>3, RecordTypes, FaultType DEF FireError, TypeOK
<1>4. QED BY <1>1, <1>2, <1>3 DEF EngineStep

LEMMA SenderTypes ==
    ASSUME TypeOK, WorkersOK, NEW p \in Workers,
           \/ SenderStep(p) \/ LoadError(p) \/ SendLost(p) \/ CompleteError(p)
           \/ \E k \in Keys : Manual(p, k) \/ ManualNew(p, k)
    PROVE  TypeOK'
<1>1. \A k \in Keys, x \in {"forced", "claimed"}, b \in BOOLEAN :
          [pc |-> x, key |-> k, force |-> b, result |-> "none"] \in Senders
  BY DEF Senders
<1>2. \A x \in {"claimed", "loaded"} :
          sender' = [sender EXCEPT ![p].pc = x] => sender' \in [Workers -> Senders]
  <2> SUFFICES ASSUME NEW x \in {"claimed", "loaded"}, sender' = [sender EXCEPT ![p].pc = x]
               PROVE  sender' \in [Workers -> Senders]
    OBVIOUS
  <2> DEFINE rec == [sender[p] EXCEPT !.pc = x]
  <2>1. sender \in [Workers -> Senders]
    BY DEF TypeOK
  <2>2. rec \in Senders
    BY <2>1 DEF Senders
  <2>3. sender' = [sender EXCEPT ![p] = rec]
    BY <2>1
  <2> HIDE DEF rec
  <2> QED BY <2>1, <2>2, <2>3
<1>3. sender[p].force \in BOOLEAN /\ sender[p] \in Senders
  BY DEF TypeOK, Senders
<1>4. sender[p].pc # "idle" => sender[p].key \in Keys
  BY DEF WorkersOK, WorkerOK
<1>5. CASE \E k \in Keys : Claim(p, k)
  BY <1>1, <1>5, LeaseFacts DEF Claim, TypeOK
<1>6. CASE \E k \in Keys : Manual(p, k)
  BY <1>1, <1>6, FaultType DEF Manual, TypeOK
<1>7. CASE \E k \in Keys : ManualNew(p, k)
  <2>1. PICK k \in Keys : ManualNew(p, k)
    BY <1>7
  <2>2. row' \in [Keys -> IntentRows]
    BY <2>1, RecordTypes DEF ManualNew, TypeOK
  <2>3. sender' \in [Workers -> Senders]
    BY <1>1, <2>1 DEF ManualNew, TypeOK
  <2>4. QED BY <2>1, <2>2, <2>3, FaultType DEF ManualNew, TypeOK
<1>8. CASE ForceClaim(p)
  <2>1. sender' \in [Workers -> Senders]
    BY <1>2, <1>8, IdleFacts DEF ForceClaim
  <2>2. row' \in [Keys -> IntentRows]
    BY <1>4, <1>8, LeaseFacts DEF ForceClaim, TypeOK
  <2>3. past' \in [Keys -> Pasts]
    BY <1>4, <1>8, PastFacts DEF ForceClaim, Recorded
  <2>4. QED BY <1>8, <2>1, <2>2, <2>3 DEF ForceClaim, TypeOK
<1>9. CASE Load(p)
  BY <1>2, <1>9, IdleFacts DEF Load, TypeOK
<1>10. CASE LoadError(p)
  BY <1>10, IdleFacts, AnswerFacts, RetryResultType, FaultType DEF LoadError, TypeOK
<1>11. CASE Send(p)
  <2>1. sender' \in [Workers -> Senders]
    BY <1>3, <1>11, AnswerFacts, RetryResultType DEF Send
  <2>2. past' \in [Keys -> Pasts]
    BY <1>4, <1>11, PastFacts DEF Send, Recorded
  <2>3. QED BY <1>11, <2>1, <2>2 DEF Send, TypeOK
<1>12. CASE SendLost(p)
  <2>1. sender' \in [Workers -> Senders]
    BY <1>3, <1>12, AnswerFacts, RetryResultType DEF SendLost
  <2>2. past' \in [Keys -> Pasts]
    BY <1>4, <1>12, PastFacts DEF SendLost, Recorded
  <2>3. QED BY <1>12, <2>1, <2>2, FaultType DEF SendLost, TypeOK
<1>13. CASE Complete(p)
  <2>1. row' \in [Keys -> IntentRows]
    BY <1>13, CompleteFacts DEF Complete, TypeOK
  <2>2. QED BY <1>13, <2>1, IdleFacts DEF Complete, TypeOK
<1>14. CASE CompleteError(p)
  BY <1>14, IdleFacts, FaultType DEF CompleteError, TypeOK
<1>15. QED BY <1>5, <1>6, <1>7, <1>8, <1>9, <1>10, <1>11, <1>12, <1>13, <1>14 DEF SenderStep

LEMMA OtherTypes ==
    ASSUME TypeOK,
           \/ \E k \in Keys : LeaseLapses(k) \/ BackoffElapses(k)
           \/ EditPolicy \/ Close
           \/ \E p \in Workers : Crash(p)
    PROVE  TypeOK'
<1>1. CASE \E k \in Keys : LeaseLapses(k)
  <2>1. PICK k \in Keys : LeaseLapses(k)
    BY <1>1
  <2>2. row' \in [Keys -> IntentRows] /\ past' \in [Keys -> Pasts]
    <3>1. row' \in [Keys -> IntentRows]
      BY <2>1 DEF LeaseLapses, TypeOK, IntentRows
    <3>2. past' \in [Keys -> Pasts]
      BY <2>1, PastFacts DEF LeaseLapses, Recorded
    <3>3. QED BY <3>1, <3>2
  <2>3. faults' \in Nat
    BY <2>1, FaultType DEF LeaseLapses, NoFault, TypeOK
  <2>4. QED BY <2>1, <2>2, <2>3 DEF LeaseLapses, TypeOK
<1>2. CASE \E k \in Keys : BackoffElapses(k)
  <2>1. PICK k \in Keys : BackoffElapses(k)
    BY <1>2
  <2> DEFINE rec == [row[k] EXCEPT !.due = TRUE]
  <2>2. row \in [Keys -> IntentRows]
    BY DEF TypeOK
  <2>3. rec \in IntentRows
    BY <2>2 DEF IntentRows
  <2>4. row' = [row EXCEPT ![k] = rec]
    BY <2>1, <2>2 DEF BackoffElapses
  <2> HIDE DEF rec
  <2>5. row' \in [Keys -> IntentRows]
    BY <2>2, <2>3, <2>4
  <2> QED BY <2>1, <2>5 DEF BackoffElapses, TypeOK
<1>3. CASE EditPolicy
  BY <1>3, FaultType DEF EditPolicy, TypeOK
<1>4. CASE Close
  BY <1>4 DEF Close, TypeOK, AlertRows
<1>5. CASE \E p \in Workers : Crash(p)
  BY <1>5, FaultType, IdleFacts, RecordTypes DEF Crash, TypeOK
<1>6. QED BY <1>1, <1>2, <1>3, <1>4, <1>5

-----------------------------------------------------------------------------
(* The accounts. *)

LEMMA CountType ==
    ASSUME NEW k PROVE IsFiniteSet(PreSend(k)) /\ Count(k) \in Nat
<1>1. PreSend(k) \in SUBSET Workers
  BY DEF PreSend
<1>2. IsFiniteSet(PreSend(k))
  BY <1>1, AlertAssumption, FS_Subset
<1>3. QED BY <1>2, FS_CardinalityType DEF Count

\* Only worker p moves: the count changes by what p does.
OnlyMoves(p) == \A q \in Workers : q # p => sender'[q] = sender[q]

LEMMA CountMove ==
    ASSUME NEW p \in Workers, OnlyMoves(p), NEW k \in Keys
    PROVE  /\ Count(k) \in Nat /\ Count(k)' \in Nat
           /\ Unsent(p, k) /\ ~Unsent(p, k)' => Count(k)' = Count(k) - 1
           /\ ~Unsent(p, k) /\ Unsent(p, k)' => Count(k)' = Count(k) + 1
           /\ (Unsent(p, k) <=> Unsent(p, k)') => Count(k)' = Count(k)
<1>1. \A q \in Workers : q # p => (Unsent(q, k) <=> Unsent(q, k)')
  BY DEF OnlyMoves, Unsent
<1>2. Count(k) \in Nat /\ IsFiniteSet(PreSend(k))
  BY CountType
<1>3. PreSend(k)' \in SUBSET Workers
  BY DEF PreSend
<1>4. IsFiniteSet(PreSend(k)') /\ Count(k)' \in Nat
  BY <1>3, AlertAssumption, FS_Subset, FS_CardinalityType DEF Count
<1>5. ASSUME Unsent(p, k), ~Unsent(p, k)' PROVE Count(k)' = Count(k) - 1
  <2>1. PreSend(k)' = PreSend(k) \ {p} /\ p \in PreSend(k)
    BY <1>1, <1>5 DEF PreSend
  <2>2. QED BY <1>2, <2>1, FS_RemoveElement DEF Count
<1>6. ASSUME ~Unsent(p, k), Unsent(p, k)' PROVE Count(k)' = Count(k) + 1
  <2>1. PreSend(k)' = PreSend(k) \cup {p} /\ p \notin PreSend(k)
    BY <1>1, <1>6 DEF PreSend
  <2>2. QED BY <1>2, <2>1, FS_AddElement DEF Count
<1>7. ASSUME Unsent(p, k) <=> Unsent(p, k)' PROVE Count(k)' = Count(k)
  <2>1. PreSend(k)' = PreSend(k)
    BY <1>1, <1>7 DEF PreSend
  <2>2. QED BY <2>1 DEF Count
<1>8. QED BY <1>2, <1>4, <1>5, <1>6, <1>7

\* An intent that no step touches and that nobody new claims keeps its accounts.
LEMMA RowFrame ==
    ASSUME TypeOK, NEW k \in Keys, RowOK(k), row'[k] = row[k], past'[k] = past[k],
           Count(k) \in Nat, Count(k)' \in Nat, Count(k)' <= Count(k)
    PROVE  RowOK(k)'
<1>1. past[k] \in Pasts
  BY DEF TypeOK
<1>2. /\ Allowed(k)' = Allowed(k) /\ Debt(k)' = Debt(k) /\ (Lapsed(k)' <=> Lapsed(k))
      /\ past[k].accepted \in Nat /\ Debt(k) \in Nat
  BY <1>1 DEF Allowed, Debt, Lapsed, Pasts
<1>3. Pot(k)' <= Pot(k) /\ Pot(k)' \in Nat /\ Pot(k) \in Nat
  BY <1>2 DEF Pot
<1>4. QED BY <1>2, <1>3 DEF RowOK

\* A worker that does not move may rely on what it relied on, unless the step
\* gave it a lease or claimed the intent it holds.
LEMMA WorkerFrame ==
    ASSUME NEW q \in Workers, WorkerOK(q), sender'[q] = sender[q],
           sender[q].key \in Keys =>
               /\ Mine(q)' => Mine(q) /\ row'[sender[q].key].attempts = row[sender[q].key].attempts
               /\ HoldsLease(q)' =>
                      /\ HoldsLease(q)
                      /\ Pot(sender[q].key) <= Debt(sender[q].key) =>
                            (Pot(sender[q].key) <= Debt(sender[q].key))'
    PROVE  WorkerOK(q)'
BY DEF WorkerOK, Mine, HoldsLease

\* Worker p moves and touches intent k only: what remains to be shown is about them.
LEMMA SenderMoves ==
    ASSUME TypeOK, TypeOK', RowsOK, WorkersOK, NEW p \in Workers, OnlyMoves(p), NEW k \in Keys,
           \A j \in Keys : j # k => row'[j] = row[j] /\ past'[j] = past[j] /\ ~Unsent(p, j)',
           RowOK(k)', WorkerOK(p)',
           \A q \in Workers : q # p /\ sender[q].key = k =>
               /\ Mine(q)' => Mine(q) /\ row'[k].attempts = row[k].attempts
               /\ HoldsLease(q)' =>
                      HoldsLease(q) /\ (Pot(k) <= Debt(k) => (Pot(k) <= Debt(k))')
    PROVE  RowsOK' /\ WorkersOK'
<1>1. ASSUME NEW j \in Keys, j # k
      PROVE  /\ Count(j) \in Nat /\ Count(j)' \in Nat /\ Count(j)' <= Count(j)
             /\ row'[j] = row[j] /\ past'[j] = past[j]
  BY <1>1, CountMove
<1>a. \A j \in Keys : j # k => (Pot(j) <= Debt(j) => (Pot(j) <= Debt(j))')
  <2>1. SUFFICES ASSUME NEW j \in Keys, j # k PROVE Pot(j) <= Debt(j) => (Pot(j) <= Debt(j))'
    OBVIOUS
  <2>2. past[j] \in Pasts
    BY DEF TypeOK
  <2>3. QED BY <1>1, <2>1, <2>2 DEF Pot, Debt, Pasts
<1>2. ASSUME NEW j \in Keys PROVE RowOK(j)'
  BY <1>1, <1>2, RowFrame DEF RowsOK
<1>3. ASSUME NEW q \in Workers, q # p PROVE WorkerOK(q)'
  <2>1. sender'[q] = sender[q] /\ WorkerOK(q)
    BY <1>3 DEF OnlyMoves, WorkersOK
  <2>2. CASE sender[q].key = k
    BY <1>3, <2>1, <2>2, WorkerFrame
  <2>3. CASE sender[q].key \in Keys /\ sender[q].key # k
    <3> DEFINE j == sender[q].key
    <3>1. row'[j] = row[j] /\ past'[j] = past[j]
      BY <1>1, <2>3
    <3>2. (Mine(q)' => Mine(q)) /\ (HoldsLease(q)' => HoldsLease(q))
      BY <2>1, <3>1 DEF Mine, HoldsLease
    <3>3. QED BY <1>a, <2>1, <2>3, <3>1, <3>2, WorkerFrame
  <2>4. CASE sender[q].key \notin Keys
    BY <2>1, <2>4, WorkerFrame
  <2>5. QED BY <2>2, <2>3, <2>4
<1>4. QED BY <1>2, <1>3 DEF RowsOK, WorkersOK

\* Worker p moves and touches no intent.
LEMMA SenderLeaves ==
    ASSUME TypeOK, TypeOK', RowsOK, WorkersOK, NEW p \in Workers, OnlyMoves(p),
           UNCHANGED <<row, past>>,
           \A j \in Keys : Unsent(p, j)' => Unsent(p, j),
           WorkerOK(p)'
    PROVE  RowsOK' /\ WorkersOK'
<1>1. \A j \in Keys : Count(j) \in Nat /\ Count(j)' \in Nat /\ Count(j)' <= Count(j)
  BY CountMove
<1>2. RowsOK'
  BY <1>1, RowFrame DEF RowsOK
<1>3. \A j \in Keys : Pot(j) <= Debt(j) => (Pot(j) <= Debt(j))'
  <2>1. SUFFICES ASSUME NEW j \in Keys PROVE Pot(j) <= Debt(j) => (Pot(j) <= Debt(j))'
    OBVIOUS
  <2>2. past[j] \in Pasts
    BY DEF TypeOK
  <2>3. QED BY <1>1, <2>2 DEF Pot, Debt, Pasts
<1>4. ASSUME NEW q \in Workers, q # p PROVE WorkerOK(q)'
  <2>1. sender'[q] = sender[q] /\ WorkerOK(q)
    BY <1>4 DEF OnlyMoves, WorkersOK
  <2>2. (Mine(q)' => Mine(q)) /\ (HoldsLease(q)' => HoldsLease(q))
    BY <2>1 DEF Mine, HoldsLease
  <2>3. QED BY <1>3, <2>1, <2>2, WorkerFrame
<1>5. QED BY <1>2, <1>4 DEF WorkersOK

\* A worker that gives up touches no intent.
LEMMA IdleLeaves ==
    ASSUME TypeOK, TypeOK', RowsOK, WorkersOK, NEW p \in Workers, Idle(p), UNCHANGED <<row, past>>
    PROVE  RowsOK' /\ WorkersOK'
<1>1. OnlyMoves(p) /\ sender'[p].pc = "idle"
  BY IdleFacts, RecordTypes DEF OnlyMoves
<1>2. WorkerOK(p)' /\ \A j \in Keys : Unsent(p, j)' => Unsent(p, j)
  BY <1>1 DEF WorkerOK, Unsent
<1>3. QED BY <1>1, <1>2, SenderLeaves

\* New intents have clean accounts.
LEMMA RowsAdded ==
    ASSUME TypeOK, TypeOK', RowsOK, WorkersOK, UNCHANGED <<sender, past>>,
           \A k \in Keys : row'[k] = row[k] \/ (row[k].status = "none" /\ row'[k] = Intent)
    PROVE  RowsOK' /\ WorkersOK'
<1>1. \A k : PreSend(k)' = PreSend(k)
  BY DEF PreSend, Unsent
<1>2. \A k \in Keys : Count(k)' = Count(k) /\ Count(k) \in Nat
  BY <1>1, CountType DEF Count
<1>3. \A k \in Keys : Pot(k)' = Pot(k) /\ Debt(k)' = Debt(k) /\ Allowed(k)' = Allowed(k)
  BY <1>2 DEF Pot, Debt, Allowed
<1>4. ASSUME NEW k \in Keys PROVE RowOK(k)'
  <2>1. CASE row'[k] = row[k]
    BY <1>2, <2>1, RowFrame DEF RowsOK
  <2>2. CASE row[k].status = "none" /\ row'[k] = Intent
    <3>1. RowOK(k) /\ row[k].attempts = 0 /\ Pot(k) = 0
      BY <2>2 DEF RowsOK, RowOK
    <3>2. row'[k].status = "pending" /\ row'[k].attempts = 0
      BY <2>2, RecordTypes
    <3>3. QED BY <1>3, <3>1, <3>2 DEF RowOK, Lapsed
  <2>3. QED BY <2>1, <2>2
<1>5. ASSUME NEW q \in Workers PROVE WorkerOK(q)'
  <2>1. WorkerOK(q) /\ sender'[q] = sender[q]
    BY DEF WorkersOK
  <2>2. CASE sender[q].key \in Keys
    <3>1. (Mine(q)' => Mine(q) /\ row'[sender[q].key] = row[sender[q].key])
          /\ (HoldsLease(q)' => HoldsLease(q))
      BY <2>1, <2>2, RecordTypes DEF Mine, HoldsLease
    <3>2. QED BY <1>3, <2>1, <2>2, <3>1, WorkerFrame
  <2>3. CASE sender[q].key \notin Keys
    BY <2>1, <2>3, WorkerFrame
  <2>4. QED BY <2>2, <2>3
<1>6. QED BY <1>4, <1>5 DEF RowsOK, WorkersOK

\* A claim, by force (f = 1) or not.
LEMMA ClaimStep ==
    ASSUME TypeOK, TypeOK', RowsOK, WorkersOK, NEW p \in Workers, NEW k \in Keys, NEW f \in {0, 1},
           TakeLease(p, k), OnlyMoves(p), Recorded(k, 0, 0, 0, f),
           \A j \in Keys : ~Unsent(p, j),
           sender'[p].pc = "claimed", sender'[p].key = k,
           \/ row[k].status \in {"pending", "retrying"} \/ Lapsed(k)
           \/ row[k].status = "failed" /\ f = 1
    PROVE  RowsOK' /\ WorkersOK'
<1>1. /\ row'[k].status = "sending" /\ row'[k].owner = p /\ row'[k].live
      /\ row'[k].attempts = row[k].attempts + 1
      /\ \A j \in Keys : j # k => row'[j] = row[j]
  BY LeaseFacts
<1>2. past[k] \in Pasts /\ row[k] \in IntentRows
  BY DEF TypeOK
<1>3. Count(k) \in Nat /\ Count(k)' = Count(k) + 1
  BY CountMove DEF Unsent
<1>4. /\ past[k].accepted \in Nat /\ past[k].lapses \in Nat /\ past[k].lost \in Nat
      /\ past[k].forced \in Nat /\ row[k].attempts \in Nat /\ MaxAttempts \in Nat \ {0}
  BY <1>2, AlertAssumption DEF Pasts, IntentRows
<1>5. Pot(k)' = Pot(k) + 1 /\ Debt(k)' = Debt(k) /\ Allowed(k)' = Allowed(k) + f
  BY <1>3, <1>4 DEF Pot, Debt, Allowed, Recorded
<1>6. Pot(k) \in Nat /\ Debt(k) \in Nat /\ Allowed(k) \in Nat /\ Allowed(k) > 0
  BY <1>3, <1>4 DEF Pot, Debt, Allowed
<1>7. RowOK(k)'
  <2>1. RowOK(k)
    BY DEF RowsOK
  <2>2. Pot(k) <= Debt(k) /\ row[k].attempts + 1 <= Allowed(k) + f
    BY <1>4, <1>6, <2>1 DEF RowOK
  <2>3. ~Lapsed(k)'
    BY <1>1 DEF Lapsed
  <2>4. QED BY <1>1, <1>4, <1>5, <1>6, <2>2, <2>3 DEF RowOK
<1>8. WorkerOK(p)'
  BY DEF WorkerOK
<1>9. \A q \in Workers : q # p /\ sender[q].key = k => ~Mine(q)' /\ ~HoldsLease(q)'
  BY <1>1 DEF OnlyMoves, Mine, HoldsLease
<1>10. \A j \in Keys : j # k => past'[j] = past[j] /\ ~Unsent(p, j)'
  BY DEF Recorded, Unsent
<1>11. QED BY <1>1, <1>7, <1>8, <1>9, <1>10, SenderMoves

\* A send ends, accepted (a = 1) or not, its answer lost (l = 1) or not.
LEMMA SendStep ==
    ASSUME TypeOK, TypeOK', RowsOK, WorkersOK, NEW p \in Workers, NEW a \in {0, 1}, NEW l \in {0, 1},
           sender[p].pc \in {"claimed", "loaded"}, OnlyMoves(p), row' = row,
           Recorded(sender[p].key, a, l, 0, 0),
           sender'[p].pc = "answered", sender'[p].key = sender[p].key,
           sender'[p].result \in {"sent", "retrying", "failed"},
           sender'[p].result = "retrying" => row[sender[p].key].attempts < MaxAttempts,
           sender'[p].result # "sent" => a <= l
    PROVE  RowsOK' /\ WorkersOK'
<1>0. PICK k \in Keys : k = sender[p].key
  BY DEF WorkersOK, WorkerOK
<1>1. Unsent(p, k) /\ ~Unsent(p, k)'
  BY <1>0 DEF Unsent
<1>2. Count(k) \in Nat /\ Count(k)' \in Nat /\ Count(k)' = Count(k) - 1
  BY <1>1, CountMove
<1>3. past[k] \in Pasts /\ row[k] \in IntentRows /\ Recorded(k, a, l, 0, 0)
  BY <1>0 DEF TypeOK
<1>4. /\ past[k].accepted \in Nat /\ past[k].lapses \in Nat /\ past[k].lost \in Nat
      /\ past[k].forced \in Nat /\ row[k].attempts \in Nat /\ MaxAttempts \in Nat
  BY <1>3, AlertAssumption DEF Pasts, IntentRows
<1>5. Pot(k)' = Pot(k) + a - 1 /\ Debt(k)' = Debt(k) + l /\ Allowed(k)' = Allowed(k)
  BY <1>2, <1>3, <1>4 DEF Pot, Debt, Allowed, Recorded
<1>6. Pot(k) \in Nat /\ Debt(k) \in Nat /\ Allowed(k) \in Nat /\ Pot(k) > 0
  BY <1>2, <1>4 DEF Pot, Debt, Allowed
<1>7. RowOK(k)
  BY DEF RowsOK
<1>8. RowOK(k)'
  <2>1. Lapsed(k)' <=> Lapsed(k)
    BY DEF Lapsed
  <2>2. QED BY <1>4, <1>5, <1>6, <1>7, <2>1 DEF RowOK
<1>9. WorkerOK(p)'
  <2>1. sender'[p].result # "sent" => (Pot(k) <= Debt(k))'
    BY <1>5, <1>6, <1>7 DEF RowOK
  <2>2. QED BY <1>0, <2>1 DEF WorkerOK
<1>10. ASSUME NEW q \in Workers, q # p, sender[q].key = k
       PROVE  /\ Mine(q)' => Mine(q) /\ row'[k].attempts = row[k].attempts
              /\ HoldsLease(q)' => HoldsLease(q) /\ (Pot(k) <= Debt(k) => (Pot(k) <= Debt(k))')
  BY <1>5, <1>6, <1>10 DEF OnlyMoves, Mine, HoldsLease
<1>11. \A j \in Keys : j # k => row'[j] = row[j] /\ past'[j] = past[j] /\ ~Unsent(p, j)'
  BY <1>3 DEF Recorded, Unsent
<1>12. QED BY <1>8, <1>9, <1>10, <1>11, SenderMoves

-----------------------------------------------------------------------------
(* Every action keeps the accounts. *)

LEMMA RouterAccounts ==
    ASSUME IInv, TypeOK', NEW p \in Workers,
           Raise(p) \/ RouterStep(p) \/ RouteError(p) \/ EngineStep(p) \/ FireError(p)
    PROVE  RowsOK' /\ WorkersOK'
<1>1. UNCHANGED <<sender, past>>
  BY DEF Raise, RouterStep, RouteError, Replay, ReadRows, ReadHistory, Resolve, Commit,
         EngineStep, FireError, Evaluate, Fire
<1>2. \/ row' = row
      \/ \E cs : row' = Ensured(cs)
      \/ \E e, cs : row' = Enqueued(e, cs)
  BY DEF Raise, RouterStep, RouteError, Replay, ReadRows, ReadHistory, Resolve, Commit,
         EngineStep, FireError, Evaluate, Fire
<1>3. \A k \in Keys : row'[k] = row[k] \/ (row[k].status = "none" /\ row'[k] = Intent)
  BY <1>2, EnsuredFacts, EnqueuedFacts DEF IInv, Exists
<1>4. QED BY <1>1, <1>3, RowsAdded DEF IInv

LEMMA ClaimAccounts ==
    ASSUME IInv, TypeOK', NEW p \in Workers,
           (\E k \in Keys : Claim(p, k)) \/ ForceClaim(p)
    PROVE  RowsOK' /\ WorkersOK'
<1>1. TypeOK /\ RowsOK /\ WorkersOK
  BY DEF IInv
<1>2. CASE \E k \in Keys : Claim(p, k)
  <2>1. PICK k \in Keys : Claim(p, k)
    BY <1>2
  <2>2. Recorded(k, 0, 0, 0, 0) /\ TakeLease(p, k)
    BY <1>1, <2>1, PastFacts DEF Claim
  <2>3. OnlyMoves(p) /\ sender'[p].pc = "claimed" /\ sender'[p].key = k
    BY <1>1, <2>1 DEF Claim, OnlyMoves, TypeOK
  <2>4. \A j \in Keys : ~Unsent(p, j)
    BY <2>1 DEF Claim, Free, Unsent
  <2>5. row[k].status \in {"pending", "retrying"} \/ Lapsed(k)
    BY <2>1 DEF Claim, Claimable, Lapsed
  <2>6. QED BY <1>1, <2>2, <2>3, <2>4, <2>5, ClaimStep
<1>3. CASE ForceClaim(p) /\ Forceable(sender[p].key)
  <2>1. PICK k \in Keys : k = sender[p].key
    BY <1>1, <1>3 DEF ForceClaim, WorkersOK, WorkerOK
  <2>2. Recorded(k, 0, 0, 0, 1) /\ TakeLease(p, k)
    BY <1>1, <1>3, <2>1, PastFacts DEF ForceClaim
  <2>3. sender' = [sender EXCEPT ![p].pc = "claimed"]
    BY <1>3 DEF ForceClaim
  <2>4. OnlyMoves(p) /\ sender'[p].pc = "claimed" /\ sender'[p].key = k
    BY <1>1, <2>1, <2>3 DEF OnlyMoves, TypeOK, Senders
  <2>5. \A j \in Keys : ~Unsent(p, j)
    BY <1>3 DEF ForceClaim, Unsent
  <2>6. row[k].status \in {"pending", "retrying", "failed"} \/ Lapsed(k)
    BY <1>3, <2>1 DEF Forceable, Lapsed
  <2>7. QED BY <1>1, <2>2, <2>4, <2>5, <2>6, ClaimStep
<1>4. CASE ForceClaim(p) /\ ~Forceable(sender[p].key)
  <2>1. Idle(p) /\ UNCHANGED <<row, past>>
    BY <1>4 DEF ForceClaim
  <2>2. QED BY <1>1, <2>1, IdleLeaves
<1>5. QED BY <1>2, <1>3, <1>4

\* A manual retry only announces itself, on a clean intent when it makes one.
LEMMA ManualAccounts ==
    ASSUME IInv, TypeOK', NEW p \in Workers, NEW k \in Keys, Manual(p, k) \/ ManualNew(p, k)
    PROVE  RowsOK' /\ WorkersOK'
<1>1. TypeOK /\ RowsOK /\ WorkersOK
  BY DEF IInv
<1>2. sender' = [sender EXCEPT ![p] = [pc |-> "forced", key |-> k, force |-> TRUE, result |-> "none"]]
  BY DEF Manual, ManualNew
<1>3. OnlyMoves(p) /\ sender'[p].pc = "forced" /\ sender'[p].key = k
  BY <1>1, <1>2 DEF OnlyMoves, TypeOK
<1>4. WorkerOK(p)' /\ \A j \in Keys : ~Unsent(p, j)'
  BY <1>3 DEF WorkerOK, Unsent
<1>5. CASE Manual(p, k)
  <2>1. UNCHANGED <<row, past>>
    BY <1>5 DEF Manual
  <2>2. QED BY <1>1, <1>3, <1>4, <2>1, SenderLeaves
<1>6. CASE ManualNew(p, k)
  <2>1. row[k].status = "none" /\ row' = [row EXCEPT ![k] = Intent] /\ past' = past
    BY <1>6 DEF ManualNew, Exists
  <2>2. row'[k] = Intent /\ \A j \in Keys : j # k => row'[j] = row[j]
    BY <1>1, <2>1 DEF TypeOK
  <2>3. row'[k].status = "pending" /\ row'[k].attempts = 0
    BY <2>2, RecordTypes
  <2>4. ~Unsent(p, k)
    BY <1>6 DEF ManualNew, Free, Unsent
  <2>5. Count(k)' = Count(k) /\ Count(k) \in Nat
    BY <1>3, <1>4, <2>4, CountMove
  <2>6. Pot(k)' = Pot(k) /\ Debt(k)' = Debt(k) /\ Allowed(k)' = Allowed(k)
    BY <2>1, <2>5 DEF Pot, Debt, Allowed
  <2>7. RowOK(k)'
    <3>1. RowOK(k) /\ row[k].attempts = 0 /\ Pot(k) = 0
      BY <1>1, <2>1 DEF RowsOK, RowOK
    <3>2. QED BY <2>3, <2>6, <3>1 DEF RowOK, Lapsed
  <2>8. \A q \in Workers : q # p /\ sender[q].key = k => ~Mine(q)' /\ ~HoldsLease(q)'
    BY <1>3, <2>3 DEF OnlyMoves, Mine, HoldsLease
  <2>9. QED BY <1>1, <1>3, <1>4, <2>1, <2>2, <2>7, <2>8, SenderMoves
<1>7. QED BY <1>5, <1>6

LEMMA SendAccounts ==
    ASSUME IInv, TypeOK', NEW p \in Workers,
           Load(p) \/ LoadError(p) \/ Send(p) \/ SendLost(p) \/ CompleteError(p)
    PROVE  RowsOK' /\ WorkersOK'
<1>1. TypeOK /\ RowsOK /\ WorkersOK
  BY DEF IInv
<1>2. row' = row
  BY DEF Load, LoadError, Send, SendLost, CompleteError
<1>3. sender[p].pc # "idle" => sender[p].key \in Keys
  BY <1>1 DEF WorkersOK, WorkerOK
<1>4. sender[p].force \in BOOLEAN
  BY <1>1 DEF TypeOK, Senders
<1>5. \A t \in BOOLEAN : /\ RetryResult(p, t) \in {"retrying", "failed"}
                         /\ sender[p].key \in Keys /\ RetryResult(p, t) = "retrying" =>
                                row[sender[p].key].attempts < MaxAttempts
  <2>1. SUFFICES ASSUME NEW t \in BOOLEAN, sender[p].key \in Keys, RetryResult(p, t) = "retrying"
                 PROVE  row[sender[p].key].attempts < MaxAttempts
    BY RetryResultType
  <2>2. row[sender[p].key].attempts \in Nat /\ MaxAttempts \in Nat
    BY <1>1, <2>1, AlertAssumption DEF TypeOK, IntentRows
  <2>3. QED BY <2>1, <2>2 DEF RetryResult
<1>6. ASSUME NEW s \in {"sent", "retrying", "failed"}, Answer(p, s)
      PROVE  /\ OnlyMoves(p) /\ sender'[p].pc = "answered" /\ sender'[p].key = sender[p].key
             /\ sender'[p].result = s
  BY <1>1, <1>6, AnswerFacts DEF OnlyMoves
<1>7. CASE Load(p) \/ (LoadError(p) /\ Idle(p)) \/ CompleteError(p)
  <2>1. UNCHANGED past
    BY <1>7 DEF Load, LoadError, CompleteError
  <2>2. CASE Idle(p)
    BY <1>1, <1>2, <2>1, <2>2, IdleLeaves
  <2>3. CASE sender[p].pc = "claimed" /\ sender' = [sender EXCEPT ![p].pc = "loaded"]
    <3>1. OnlyMoves(p) /\ sender'[p].pc = "loaded" /\ sender'[p].key = sender[p].key
      BY <1>1, <2>3 DEF OnlyMoves, TypeOK, Senders
    <3>2. WorkerOK(p)' /\ \A j \in Keys : Unsent(p, j)' => Unsent(p, j)
      BY <1>3, <2>3, <3>1 DEF WorkerOK, Unsent
    <3>3. QED BY <1>1, <1>2, <2>1, <3>1, <3>2, SenderLeaves
  <2>4. QED BY <1>7, <2>2, <2>3 DEF Load, CompleteError
<1>8. CASE LoadError(p) /\ ~Idle(p)
  <2>1. PICK s \in {"retrying", "failed"} :
            Answer(p, s) /\ (s = "retrying" => row[sender[p].key].attempts < MaxAttempts)
    BY <1>3, <1>5, <1>8 DEF LoadError
  <2>2. sender[p].pc = "claimed" /\ Recorded(sender[p].key, 0, 0, 0, 0)
    BY <1>1, <1>3, <1>8, PastFacts DEF LoadError
  <2>3. QED BY <1>1, <1>2, <1>6, <2>1, <2>2, SendStep
<1>9. CASE Send(p)
  <2>1. sender[p].pc = "loaded" /\ sender[p].key \in Keys
    BY <1>3, <1>9 DEF Send
  <2>2. CASE Answer(p, "sent") /\ past' = [past EXCEPT ![sender[p].key].accepted = @ + 1]
    <3>1. Recorded(sender[p].key, 1, 0, 0, 0)
      BY <1>1, <2>1, <2>2, PastFacts
    <3>2. QED BY <1>1, <1>2, <1>6, <2>1, <2>2, <3>1, SendStep
  <2>3. CASE UNCHANGED past /\ Answer(p, RetryResult(p, sender[p].force))
    <3>1. Recorded(sender[p].key, 0, 0, 0, 0)
      BY <1>1, <2>1, <2>3, PastFacts
    <3>2. QED BY <1>1, <1>2, <1>4, <1>5, <1>6, <2>1, <2>3, <3>1, SendStep
  <2>4. CASE UNCHANGED past /\ Answer(p, "failed")
    <3>1. Recorded(sender[p].key, 0, 0, 0, 0)
      BY <1>1, <2>1, <2>4, PastFacts
    <3>2. QED BY <1>1, <1>2, <1>6, <2>1, <2>4, <3>1, SendStep
  <2>5. QED BY <1>9, <2>2, <2>3, <2>4 DEF Send
<1>10. CASE SendLost(p)
  <2>1. sender[p].pc = "loaded" /\ sender[p].key \in Keys
    BY <1>3, <1>10 DEF SendLost
  <2>2. Recorded(sender[p].key, 1, 1, 0, 0) /\ Answer(p, RetryResult(p, sender[p].force))
    BY <1>1, <1>10, <2>1, PastFacts DEF SendLost
  <2>3. QED BY <1>1, <1>2, <1>4, <1>5, <1>6, <2>1, <2>2, SendStep
<1>11. QED BY <1>7, <1>8, <1>9, <1>10

LEMMA CompleteAccounts ==
    ASSUME IInv, TypeOK', NEW p \in Workers, Complete(p)
    PROVE  RowsOK' /\ WorkersOK'
<1>1. TypeOK /\ RowsOK /\ WorkersOK
  BY DEF IInv
<1>2. Idle(p) /\ past' = past /\ sender[p].pc = "answered"
  BY DEF Complete
<1>3. CASE ~HoldsLease(p)
  <2>1. row' = row
    BY <1>3 DEF Complete
  <2>2. QED BY <1>1, <1>2, <2>1, IdleLeaves
<1>4. CASE HoldsLease(p)
  <2>1. PICK k \in Keys : k = sender[p].key
    BY <1>1, <1>2 DEF WorkersOK, WorkerOK
  <2>2. /\ row'[k].status = sender[p].result /\ row'[k].attempts = row[k].attempts
        /\ row'[k].owner = NoWorker
        /\ \A j \in Keys : j # k => row'[j] = row[j]
    BY <1>1, <1>4, <2>1, CompleteFacts
  <2>3. OnlyMoves(p) /\ sender'[p].pc = "idle"
    BY <1>1, <1>2, IdleFacts, RecordTypes DEF OnlyMoves
  <2>4. WorkerOK(p)' /\ \A j \in Keys : ~Unsent(p, j)' /\ ~Unsent(p, j)
    BY <1>2, <2>3 DEF WorkerOK, Unsent
  <2>5. Count(k)' = Count(k) /\ Count(k) \in Nat
    BY <2>3, <2>4, CountMove
  <2>6. Pot(k)' = Pot(k) /\ Debt(k)' = Debt(k) /\ Allowed(k)' = Allowed(k)
    BY <1>2, <2>5 DEF Pot, Debt, Allowed
  <2>7. past[k] \in Pasts /\ row[k] \in IntentRows
    BY <1>1 DEF TypeOK
  <2>8. MaxAttempts <= Allowed(k) /\ MaxAttempts \in Nat /\ Allowed(k) \in Nat /\ row[k].attempts \in Nat
    BY <2>7, AlertAssumption DEF Allowed, Pasts, IntentRows
  <2>9. /\ sender[p].result \in {"sent", "retrying", "failed"}
        /\ sender[p].result = "retrying" => row[k].attempts < MaxAttempts
        /\ sender[p].result # "sent" => Pot(k) <= Debt(k)
    BY <1>1, <1>2, <1>4, <2>1 DEF WorkersOK, WorkerOK, HoldsLease, TypeOK, Senders
  <2>10. RowOK(k)'
    <3>1. RowOK(k)
      BY <1>1 DEF RowsOK
    <3>2. ~Lapsed(k)'
      BY <2>2, <2>9 DEF Lapsed
    <3>3. QED BY <2>2, <2>6, <2>8, <2>9, <3>1, <3>2 DEF RowOK
  <2>11. \A q \in Workers : q # p /\ sender[q].key = k => ~Mine(q)' /\ ~HoldsLease(q)'
    BY <2>2, <2>3, AlertAssumption DEF OnlyMoves, Mine, HoldsLease
  <2>12. QED BY <1>1, <1>2, <2>2, <2>3, <2>4, <2>10, <2>11, SenderMoves
<1>5. QED BY <1>3, <1>4

LEMMA ClockAccounts ==
    ASSUME IInv, TypeOK', NEW k \in Keys, LeaseLapses(k) \/ BackoffElapses(k)
    PROVE  RowsOK' /\ WorkersOK'
<1>1. TypeOK /\ RowsOK /\ WorkersOK /\ sender' = sender
  BY DEF IInv, LeaseLapses, BackoffElapses
<1>2. PICK l \in {0, 1} : Recorded(k, 0, 0, l, 0) /\ (l = 1 <=> row'[k].status = "sending")
  <2>1. CASE LeaseLapses(k)
    <3>1. row'[k].status = "sending" /\ Recorded(k, 0, 0, 1, 0)
      BY <1>1, <2>1, PastFacts DEF LeaseLapses, TypeOK, IntentRows
    <3>2. QED BY <3>1
  <2>2. CASE BackoffElapses(k)
    <3>1. row'[k].status = "retrying" /\ Recorded(k, 0, 0, 0, 0)
      BY <1>1, <2>2, PastFacts DEF BackoffElapses, TypeOK, IntentRows
    <3>2. QED BY <3>1
  <2>3. QED BY <2>1, <2>2
<1>3. /\ row'[k].attempts = row[k].attempts /\ row'[k].status = row[k].status
      /\ row'[k].owner = row[k].owner
      /\ row[k].status \in {"sending", "retrying"}
      /\ \A j \in Keys : j # k => row'[j] = row[j]
      /\ row[k].status = "sending" => ~row'[k].live
  <2>1. row[k] \in IntentRows
    BY <1>1 DEF TypeOK
  <2>2. QED BY <1>1, <2>1 DEF LeaseLapses, BackoffElapses, TypeOK, IntentRows
<1>4. \A j : PreSend(j)' = PreSend(j)
  BY <1>1 DEF PreSend, Unsent
<1>5. \A j \in Keys : Count(j)' = Count(j) /\ Count(j) \in Nat
  BY <1>4, CountType DEF Count
<1>6. past[k] \in Pasts /\ row[k] \in IntentRows
  BY <1>1 DEF TypeOK
<1>7. /\ past[k].accepted \in Nat /\ past[k].lapses \in Nat /\ past[k].lost \in Nat
      /\ past[k].forced \in Nat /\ row[k].attempts \in Nat /\ MaxAttempts \in Nat
  BY <1>6, AlertAssumption DEF Pasts, IntentRows
<1>8. Pot(k)' = Pot(k) /\ Debt(k)' = Debt(k) + l /\ Allowed(k)' = Allowed(k) + l
  BY <1>2, <1>5, <1>7 DEF Pot, Debt, Allowed, Recorded
<1>9. Pot(k) \in Nat /\ Debt(k) \in Nat /\ Allowed(k) \in Nat
  BY <1>5, <1>7 DEF Pot, Debt, Allowed
<1>10. RowOK(k)'
  <2>1. RowOK(k)
    BY <1>1 DEF RowsOK
  <2>2. CASE l = 1
    BY <1>2, <1>3, <1>7, <1>8, <1>9, <2>1, <2>2 DEF RowOK
  <2>3. CASE l = 0
    BY <1>2, <1>3, <1>7, <1>8, <1>9, <2>1, <2>3 DEF RowOK
  <2>4. QED BY <2>2, <2>3
<1>11. ASSUME NEW j \in Keys PROVE RowOK(j)'
  <2>1. CASE j = k
    BY <1>10, <2>1
  <2>2. CASE j # k
    BY <1>1, <1>2, <1>3, <1>5, <2>2, RowFrame DEF RowsOK, Recorded
  <2>3. QED BY <2>1, <2>2
<1>12. \A j \in Keys : j # k => Pot(j)' = Pot(j) /\ Debt(j)' = Debt(j)
  BY <1>2, <1>5 DEF Pot, Debt, Recorded
<1>13. Pot(k) <= Debt(k) => (Pot(k) <= Debt(k))'
  BY <1>8, <1>9
<1>14. ASSUME NEW q \in Workers PROVE WorkerOK(q)'
  <2>1. WorkerOK(q) /\ sender'[q] = sender[q]
    BY <1>1 DEF WorkersOK
  <2>2. CASE sender[q].key = k
    <3>1. (Mine(q)' => Mine(q)) /\ ~HoldsLease(q)'
      BY <1>3, <2>1, <2>2 DEF Mine, HoldsLease
    <3>2. QED BY <1>3, <2>1, <2>2, <3>1, WorkerFrame
  <2>3. CASE sender[q].key \in Keys /\ sender[q].key # k
    <3>1. (Mine(q)' => Mine(q)) /\ (HoldsLease(q)' => HoldsLease(q))
      BY <1>3, <2>1, <2>3 DEF Mine, HoldsLease
    <3>2. QED BY <1>3, <1>12, <2>1, <2>3, <3>1, WorkerFrame
  <2>4. CASE sender[q].key \notin Keys
    BY <2>1, <2>4, WorkerFrame
  <2>5. QED BY <2>2, <2>3, <2>4
<1>15. QED BY <1>11, <1>14 DEF RowsOK, WorkersOK

-----------------------------------------------------------------------------
(* The levels, and the inductive invariant. *)

LEMMA LevelsStep ==
    ASSUME IInv, [Next]_vars PROVE LevelsFireOnce'
<1>1. TypeOK /\ LevelsFireOnce
  BY DEF IInv
<1>2. CASE \E p \in Workers : Fire(p) /\ CurrentLevel(p) /\ Unrecorded(NextLevel(p))
  <2>1. PICK p \in Workers : Fire(p) /\ CurrentLevel(p) /\ Unrecorded(NextLevel(p))
    BY <1>2
  <2>2. alert' = [alert EXCEPT !.level = alert.level + 1] /\ fired' = Append(fired, alert.level + 1)
    BY <2>1 DEF Fire, CurrentLevel, NextLevel
  <2>3. alert.level = Len(fired) - 1 /\ fired \in Seq(Int) /\ Len(fired) \in Nat
    BY <1>1 DEF LevelsFireOnce, TypeOK
  <2>4. alert'.level = Len(fired) /\ fired' = Append(fired, Len(fired))
    BY <1>1, <2>2, <2>3 DEF TypeOK, AlertRows
  <2>5. Len(fired') = Len(fired) + 1
    BY <2>3, <2>4
  <2>6. \A e \in 1..Len(fired') : fired'[e] = e - 1
    BY <1>1, <2>3, <2>4, <2>5 DEF LevelsFireOnce
  <2>7. QED BY <2>3, <2>4, <2>5, <2>6 DEF LevelsFireOnce
<1>3. CASE ~\E p \in Workers : Fire(p) /\ CurrentLevel(p) /\ Unrecorded(NextLevel(p))
  <2>1. fired' = fired /\ alert'.level = alert.level
    <3>1. alert \in AlertRows
      BY <1>1 DEF TypeOK
    <3>2. CASE UNCHANGED vars
      BY <3>2 DEF vars
    <3>3. ASSUME NEW p \in Workers, Raise(p) \/ RouterStep(p) \/ RouteError(p)
          PROVE  fired' = fired /\ alert'.level = alert.level
      BY <3>1, <3>3 DEF Raise, RouterStep, RouteError, Replay, ReadRows, ReadHistory, Resolve,
                        Commit, AlertRows
    <3>4. ASSUME NEW p \in Workers, EngineStep(p) \/ FireError(p)
          PROVE  fired' = fired /\ alert'.level = alert.level
      BY <1>3, <3>4 DEF EngineStep, Evaluate, Fire, FireError
    <3>5. ASSUME NEW p \in Workers,
                 \/ SenderStep(p) \/ LoadError(p) \/ SendLost(p) \/ CompleteError(p) \/ Crash(p)
                 \/ \E k \in Keys : Manual(p, k) \/ ManualNew(p, k)
          PROVE  fired' = fired /\ alert'.level = alert.level
      BY <3>5 DEF SenderStep, LoadError, SendLost, CompleteError, Crash, Manual, ManualNew,
                  Claim, ForceClaim, Load, Send, Complete
    <3>6. ASSUME (\E k \in Keys : LeaseLapses(k) \/ BackoffElapses(k)) \/ EditPolicy \/ Close
          PROVE  fired' = fired /\ alert'.level = alert.level
      BY <3>1, <3>6 DEF LeaseLapses, BackoffElapses, EditPolicy, Close, AlertRows
    <3>7. QED BY <3>2, <3>3, <3>4, <3>5, <3>6 DEF Next
  <2>2. QED BY <1>1, <2>1 DEF LevelsFireOnce
<1>4. QED BY <1>2, <1>3

LEMMA InitIInv == Init => IInv
<1>1. SUFFICES ASSUME Init PROVE IInv
  OBVIOUS
<1>2. TypeOK
  BY <1>1, InitType
<1>3. \A p \in Workers : sender[p].pc = "idle"
  BY <1>1, RecordTypes DEF Init
<1>4. WorkersOK
  BY <1>3 DEF WorkersOK, WorkerOK
<1>5. ASSUME NEW k \in Keys PROVE RowOK(k)
  <2>1. PreSend(k) = {}
    BY <1>3 DEF PreSend, Unsent
  <2>2. Count(k) = 0
    BY <2>1, FS_EmptySet DEF Count
  <2>3. /\ past[k].accepted = 0 /\ past[k].lost = 0 /\ past[k].lapses = 0 /\ past[k].forced = 0
        /\ row[k].status = "none" /\ row[k].attempts = 0
    BY <1>1, RecordTypes DEF Init
  <2>4. QED BY <2>2, <2>3, AlertAssumption DEF RowOK, Pot, Debt, Allowed, Lapsed
<1>6. LevelsFireOnce
  BY <1>1 DEF Init, LevelsFireOnce
<1>7. QED BY <1>2, <1>4, <1>5, <1>6 DEF IInv, RowsOK

LEMMA NextIInv == IInv /\ [Next]_vars => IInv'
<1>1. SUFFICES ASSUME IInv, [Next]_vars PROVE IInv'
  OBVIOUS
<1>2. TypeOK /\ RowsOK /\ WorkersOK
  BY <1>1 DEF IInv
<1>3. LevelsFireOnce'
  BY <1>1, LevelsStep
<1>4. CASE UNCHANGED vars
  BY <1>1, <1>4, RowsAdded, <1>3 DEF IInv, vars, TypeOK
<1>5. ASSUME NEW p \in Workers,
             Raise(p) \/ RouterStep(p) \/ RouteError(p) \/ EngineStep(p) \/ FireError(p)
      PROVE  IInv'
  <2>1. TypeOK'
    BY <1>2, <1>5, RouterTypes, EngineTypes
  <2>2. QED BY <1>1, <1>3, <1>5, <2>1, RouterAccounts DEF IInv
<1>6. ASSUME NEW p \in Workers,
             \/ SenderStep(p) \/ LoadError(p) \/ SendLost(p) \/ CompleteError(p)
             \/ \E k \in Keys : Manual(p, k) \/ ManualNew(p, k)
      PROVE  IInv'
  <2>1. TypeOK'
    BY <1>2, <1>6, SenderTypes
  <2>2. RowsOK' /\ WorkersOK'
    BY <1>1, <1>6, <2>1, ClaimAccounts, SendAccounts, CompleteAccounts, ManualAccounts DEF SenderStep
  <2>3. QED BY <1>3, <2>1, <2>2 DEF IInv
<1>7. ASSUME NEW p \in Workers, Crash(p) PROVE IInv'
  <2>1. TypeOK'
    BY <1>2, <1>7, OtherTypes
  <2>2. RowsOK' /\ WorkersOK'
    BY <1>2, <1>7, <2>1, IdleLeaves DEF Crash
  <2>3. QED BY <1>3, <2>1, <2>2 DEF IInv
<1>8. ASSUME NEW k \in Keys, LeaseLapses(k) \/ BackoffElapses(k) PROVE IInv'
  <2>1. TypeOK'
    BY <1>2, <1>8, OtherTypes
  <2>2. QED BY <1>1, <1>3, <1>8, <2>1, ClockAccounts DEF IInv
<1>9. ASSUME EditPolicy \/ Close PROVE IInv'
  <2>1. TypeOK'
    BY <1>2, <1>9, OtherTypes
  <2>2. UNCHANGED <<row, sender, past>>
    BY <1>9 DEF EditPolicy, Close
  <2>3. QED BY <1>2, <1>3, <2>1, <2>2, RowsAdded DEF IInv
<1>10. QED BY <1>1, <1>4, <1>5, <1>6, <1>7, <1>8, <1>9 DEF Next

LEMMA AlertInvariant == Spec => []IInv
<1>1. QED BY InitIInv, NextIInv, PTL DEF Spec

-----------------------------------------------------------------------------
(* The results. *)

\* Every row and every goroutine of alert delivery stays well formed.
THEOREM AlertTypes == Spec => []TypeOK
<1>1. IInv => TypeOK
  BY DEF IInv
<1>2. QED BY <1>1, AlertInvariant, PTL

\* A channel accepts an intent once, plus once for every lapsed lease or lost answer
\* of runDeliveryAttempt, however many workers claim and complete it.
THEOREM AlertDuplicates == Spec => []DuplicateIsPaid
<1>1. ASSUME IInv PROVE DuplicateIsPaid
  <2>1. SUFFICES ASSUME NEW k \in Keys PROVE past[k].accepted <= 1 + past[k].lapses + past[k].lost
    BY DEF DuplicateIsPaid
  <2>2. past[k] \in Pasts /\ Count(k) \in Nat /\ Pot(k) <= 1 + Debt(k)
    BY <1>1, CountType DEF IInv, TypeOK, RowsOK, RowOK
  <2>3. QED BY <2>2 DEF Pot, Debt, Pasts
<1>2. QED BY <1>1, AlertInvariant, PTL

\* retryResultForFailure keeps an intent within its attempts, plus one for every
\* lapsed lease and every forced claim.
THEOREM AlertBudget == Spec => []AttemptBudget
<1>1. IInv => AttemptBudget
  BY DEF IInv, RowsOK, RowOK, Allowed, AttemptBudget
<1>2. QED BY <1>1, AlertInvariant, PTL

\* The optimistic lock of Engine.fire: each level fires once and in order, for any
\* number of engines.
THEOREM AlertLevels == Spec => []LevelsFireOnce
<1>1. IInv => LevelsFireOnce
  BY DEF IInv
<1>2. QED BY <1>1, AlertInvariant, PTL

\* What a step may do to the row of an intent.
RowSteps(k) ==
    \/ row'[k] = row[k]
    \/ row[k].status = "none" /\ row'[k] = Intent
    \/ row[k].status \in {"pending", "sending", "retrying", "failed"} /\ row'[k].status # "none"

LEMMA RowMoves ==
    ASSUME IInv, [Next]_vars PROVE \A k \in Keys : RowSteps(k)
<1>1. TypeOK /\ WorkersOK /\ row \in [Keys -> IntentRows]
  BY DEF IInv, TypeOK
<1>2. CASE UNCHANGED row
  BY <1>2 DEF RowSteps
<1>3. ASSUME NEW p \in Workers, Commit(p) \/ Fire(p) PROVE \A k \in Keys : RowSteps(k)
  <2>1. row' = row \/ (\E cs : row' = Ensured(cs)) \/ (\E e, cs : row' = Enqueued(e, cs))
    BY <1>3 DEF Commit, Fire
  <2>2. QED BY <1>1, <2>1, EnsuredFacts, EnqueuedFacts DEF RowSteps, Exists
<1>4. ASSUME NEW p \in Workers, NEW j \in Keys, TakeLease(p, j), Claimable(j) \/ Forceable(j)
      PROVE  \A k \in Keys : RowSteps(k)
  BY <1>1, <1>4, LeaseFacts DEF RowSteps, Claimable, Forceable
<1>5. ASSUME NEW p \in Workers, (\E j \in Keys : Claim(p, j)) \/ ForceClaim(p)
      PROVE  \A k \in Keys : RowSteps(k)
  <2>1. ForceClaim(p) => sender[p].key \in Keys
    BY <1>1 DEF ForceClaim, WorkersOK, WorkerOK
  <2>2. QED BY <1>2, <1>4, <1>5, <2>1 DEF Claim, ForceClaim
<1>6. ASSUME NEW p \in Workers, Complete(p) PROVE \A k \in Keys : RowSteps(k)
  <2>1. CASE HoldsLease(p)
    <3>1. row[sender[p].key].status = "sending" /\ sender[p].result # "none"
      BY <1>1, <1>6, <2>1 DEF HoldsLease, Mine, WorkersOK, WorkerOK, Complete
    <3>2. QED BY <1>1, <1>6, <2>1, <3>1, CompleteFacts DEF RowSteps
  <2>2. QED BY <1>2, <1>6, <2>1 DEF Complete
<1>7. ASSUME NEW j \in Keys, LeaseLapses(j) \/ BackoffElapses(j) PROVE \A k \in Keys : RowSteps(k)
  <2>1. /\ row[j].status \in {"sending", "retrying"} /\ row'[j].status = row[j].status
        /\ \A k \in Keys : k # j => row'[k] = row[k]
    BY <1>1, <1>7 DEF LeaseLapses, BackoffElapses, IntentRows
  <2>2. QED BY <2>1 DEF RowSteps
<1>8. ASSUME NEW p \in Workers, NEW j \in Keys, ManualNew(p, j) PROVE \A k \in Keys : RowSteps(k)
  <2>1. row[j].status = "none" /\ row' = [row EXCEPT ![j] = Intent]
    BY <1>8 DEF ManualNew, Exists
  <2>2. QED BY <1>1, <2>1 DEF RowSteps
<1>9. CASE Next
  <2>1. \/ UNCHANGED row
        \/ \E p \in Workers : \/ Commit(p) \/ Fire(p) \/ ForceClaim(p) \/ Complete(p)
                              \/ \E j \in Keys : Claim(p, j) \/ ManualNew(p, j)
        \/ \E j \in Keys : LeaseLapses(j) \/ BackoffElapses(j)
    BY <1>9 DEF Next, Raise, RouterStep, Replay, ReadRows, ReadHistory, Resolve, RouteError,
                EngineStep, Evaluate, FireError, SenderStep, Load, LoadError, Send, SendLost,
                CompleteError, Crash, Manual, EditPolicy, Close
  <2>2. QED BY <1>2, <1>3, <1>5, <1>6, <1>7, <1>8, <2>1
<1>10. QED BY <1>2, <1>9 DEF vars

\* No late result and no retry replaces a confirmed delivery (completeDelivery,
\* claimDelivery).
THEOREM AlertSent == Spec => SentIsFinal
<1>1. ASSUME IInv, [Next]_vars PROVE \A k \in Keys : row[k].status = "sent" => row'[k].status = "sent"
  BY <1>1, RowMoves DEF RowSteps
<1>2. ASSUME IInv, [Next]_vars
      PROVE  [\A k \in Keys : row[k].status = "sent" => row'[k].status = "sent"]_vars
  BY <1>1, <1>2
<1>3. QED BY <1>2, AlertInvariant, PTL DEF Spec, SentIsFinal

\* commitDeliveryDecision never overrules a decision.
THEOREM AlertDecision == Spec => DecisionIsFinal
<1>1. ASSUME IInv, [Next]_vars
      PROVE  [alert.decision # "pending" => alert'.decision = alert.decision]_vars
  <2>1. alert \in AlertRows
    BY <1>1 DEF IInv, TypeOK
  <2>2. CASE UNCHANGED vars
    BY <2>2
  <2>3. CASE UNCHANGED alert
    BY <2>3
  <2>4. ASSUME NEW p \in Workers, Raise(p) \/ Commit(p) \/ Fire(p)
        PROVE  alert.decision # "pending" => alert'.decision = alert.decision
    BY <2>1, <2>4 DEF Raise, Commit, Fire, Settled, AlertRows
  <2>5. CASE Close
    BY <2>1, <2>5 DEF Close, AlertRows
  <2>6. CASE Next
    <3>1. UNCHANGED alert \/ Close \/ \E p \in Workers : Raise(p) \/ Commit(p) \/ Fire(p)
      BY <2>6 DEF Next, RouterStep, Replay, ReadRows, ReadHistory, Resolve, RouteError,
                  EngineStep, Evaluate, FireError, SenderStep, Claim, ForceClaim, Load, LoadError,
                  Send, SendLost, Complete, CompleteError, Crash, Manual, ManualNew, LeaseLapses,
                  BackoffElapses, EditPolicy
    <3>2. QED BY <2>3, <2>4, <2>5, <3>1
  <2>7. QED BY <1>1, <2>2, <2>6
<1>2. QED BY <1>1, AlertInvariant, PTL DEF Spec, DecisionIsFinal

\* Neither a router that decided before the first level fired nor an operator adds a
\* direct intent afterwards (ensureDeliveryIntentWithKeyTx).
THEOREM AlertRoutes == Spec => NoDirectAfterEscalation
<1>1. ASSUME IInv, [Next]_vars,
             NEW k \in Keys, Event(k) = 0, History, ~Exists(k)
      PROVE  row'[k].status = "none"
  <2>1. TypeOK /\ row[k].status = "none" /\ RowSteps(k)
    BY <1>1, RowMoves DEF IInv, Exists
  <2>2. SUFFICES ASSUME row'[k] = Intent, row'[k] # row[k] PROVE FALSE
    BY <2>1 DEF RowSteps
  <2>3. ASSUME NEW p \in Workers, Commit(p) PROVE FALSE
    <3>1. PICK cs : ~Blocked(cs) /\ row' = Ensured(cs)
      BY <2>2, <2>3 DEF Commit
    <3>2. Missing(cs) = {}
      BY <1>1, <3>1 DEF Blocked
    <3>3. QED BY <2>2, <3>1, <3>2 DEF Ensured
  <2>4. ASSUME NEW p \in Workers, Fire(p) PROVE FALSE
    <3>1. PICK cs : row' = Enqueued(Len(fired) + 1, cs)
      BY <2>2, <2>4 DEF Fire
    <3>2. Len(fired) + 1 # 0
      BY <2>1 DEF TypeOK
    <3>3. QED BY <1>1, <2>2, <3>1, <3>2 DEF Enqueued
  <2>5. ASSUME NEW p \in Workers, NEW j \in Keys, ManualNew(p, j) PROVE FALSE
    BY <1>1, <2>5 DEF ManualNew
  <2>6. ASSUME NEW p \in Workers, NEW j \in Keys, TakeLease(p, j), Claimable(j) \/ Forceable(j)
        PROVE  FALSE
    <3>1. j # k
      BY <2>1, <2>6 DEF Claimable, Forceable
    <3>2. QED BY <2>1, <2>2, <2>6, <3>1, LeaseFacts
  <2>7. ASSUME NEW p \in Workers, ForceClaim(p) \/ Complete(p) PROVE FALSE
    <3>1. sender[p].key \in Keys
      BY <1>1, <2>7 DEF IInv, WorkersOK, WorkerOK, ForceClaim, Complete
    <3>2. CASE ForceClaim(p)
      BY <2>2, <2>6, <3>1, <3>2 DEF ForceClaim
    <3>3. CASE Complete(p)
      <4>1. HoldsLease(p)
        BY <2>2, <3>3 DEF Complete
      <4>2. sender[p].key # k
        BY <2>1, <4>1 DEF HoldsLease, Mine
      <4>3. QED BY <1>1, <2>2, <3>3, <4>1, <4>2, CompleteFacts DEF IInv
    <3>4. QED BY <2>7, <3>2, <3>3
  <2>8. ASSUME NEW j \in Keys, LeaseLapses(j) \/ BackoffElapses(j) PROVE FALSE
    BY <2>1, <2>2, <2>8 DEF LeaseLapses, BackoffElapses, TypeOK
  <2>9. CASE Next
    <3>1. \/ UNCHANGED row
          \/ \E p \in Workers : \/ Commit(p) \/ Fire(p) \/ ForceClaim(p) \/ Complete(p)
                                \/ \E j \in Keys : Claim(p, j) \/ ManualNew(p, j)
          \/ \E j \in Keys : LeaseLapses(j) \/ BackoffElapses(j)
      BY <2>9 DEF Next, Raise, RouterStep, Replay, ReadRows, ReadHistory, Resolve, RouteError,
                  EngineStep, Evaluate, FireError, SenderStep, Load, LoadError, Send, SendLost,
                  CompleteError, Crash, Manual, EditPolicy, Close
    <3>2. QED BY <2>2, <2>3, <2>4, <2>5, <2>6, <2>7, <2>8, <3>1 DEF Claim
  <2>10. QED BY <1>1, <2>2, <2>9 DEF vars
<1>2. ASSUME IInv, [Next]_vars
      PROVE  [\A k \in Keys : Event(k) = 0 /\ History /\ ~Exists(k) => row'[k].status = "none"]_vars
  BY <1>1, <1>2
<1>3. QED BY <1>2, AlertInvariant, PTL DEF Spec, NoDirectAfterEscalation

-----------------------------------------------------------------------------
(* The refinement of Notification. *)

\* What the refinement rests on besides IInv: only a raised alert is routed, an
\* attempt has an intent, and one that is about to report success was accepted.
NoteInv ==
    \A p \in Workers :
         /\ router[p].pc # "idle" => alert.status # "none"
         /\ sender[p].pc # "idle" => Exists(sender[p].key)
         /\ sender[p].pc = "answered" /\ sender[p].result = "sent" => past[sender[p].key].accepted > 0

\* What Notification sees of rows and of the past.
SeenRows == [k \in Keys |-> Seen(k)]
Copies == [k \in Keys |-> past[k].accepted]
Mishaps == [k \in Keys |-> past[k].lapses + past[k].lost]

\* One row changes.
LEMMA OneRowSeen ==
    ASSUME NEW k \in Keys, \A j \in Keys : j # k => row'[j] = row[j], NEW s, Seen(k)' = s
    PROVE  SeenRows' = [SeenRows EXCEPT ![k] = s]
<1>1. \A j \in Keys : j # k => Seen(j)' = Seen(j)
  BY DEF Seen
<1>2. QED BY <1>1 DEF SeenRows

\* What a step records is seen as copies and mishaps.
LEMMA PastSeen ==
    ASSUME TypeOK, NEW k \in Keys, NEW a \in Nat, NEW lo \in Nat, NEW la \in Nat, NEW f \in Nat,
           Recorded(k, a, lo, la, f)
    PROVE  /\ Copies' = [Copies EXCEPT ![k] = @ + a]
           /\ Mishaps' = [Mishaps EXCEPT ![k] = @ + (la + lo)]
           /\ a = 0 => Copies' = Copies
           /\ la + lo = 0 => Mishaps' = Mishaps
<1>1. \A j \in Keys : /\ past[j].accepted \in Nat /\ past[j].lapses \in Nat /\ past[j].lost \in Nat
  BY DEF TypeOK, Pasts
<1>2. /\ past'[k].accepted = past[k].accepted + a
      /\ past'[k].lapses + past'[k].lost = past[k].lapses + past[k].lost + (la + lo)
      /\ \A j \in Keys : j # k => past'[j] = past[j]
  BY <1>1 DEF Recorded
<1>3. Copies' = [Copies EXCEPT ![k] = @ + a]
  BY <1>2 DEF Copies
<1>4. Mishaps' = [Mishaps EXCEPT ![k] = @ + (la + lo)]
  BY <1>2 DEF Mishaps
<1>5. a = 0 => Copies' = Copies
  BY <1>1, <1>2 DEF Copies
<1>6. la + lo = 0 => Mishaps' = Mishaps
  BY <1>1, <1>2 DEF Mishaps
<1>7. QED BY <1>3, <1>4, <1>5, <1>6

\* A step of Notification, or none.
Told == N!NotificationNext \/ UNCHANGED N!notificationVars

LEMMA ToldNothing ==
    ASSUME UNCHANGED <<alert, fired>>, SeenRows' = SeenRows, Copies' = Copies, Mishaps' = Mishaps
    PROVE  Told
BY DEF Told, N!notificationVars, SeenRows, Copies, Mishaps

LEMMA PastStill == ASSUME UNCHANGED past PROVE Copies' = Copies /\ Mishaps' = Mishaps
BY DEF Copies, Mishaps

LEMMA RowsStill == ASSUME UNCHANGED row PROVE SeenRows' = SeenRows
BY DEF SeenRows, Seen

LEMMA RowSeenStill ==
    ASSUME NEW k \in Keys, \A j \in Keys : j # k => row'[j] = row[j], Seen(k)' = Seen(k)
    PROVE  SeenRows' = SeenRows
<1>1. \A j \in Keys : Seen(j)' = Seen(j)
  BY DEF Seen
<1>2. QED BY <1>1 DEF SeenRows

\* Routing.
LEMMA RouterTold ==
    ASSUME IInv, NoteInv, NEW p \in Workers, Raise(p) \/ RouterStep(p) \/ RouteError(p) PROVE Told
<1>1. alert \in AlertRows /\ TypeOK
  BY DEF IInv, TypeOK
<1>2. CASE Replay(p) \/ ReadRows(p) \/ ReadHistory(p) \/ Resolve(p) \/ RouteError(p)
  <2>1. UNCHANGED <<alert, fired, row, past>>
    BY <1>2 DEF Replay, ReadRows, ReadHistory, Resolve, RouteError
  <2>2. QED BY <2>1, ToldNothing, PastStill, RowsStill
<1>3. CASE Raise(p)
  <2>1. /\ alert.status = "none" /\ alert' = [alert EXCEPT !.status = "open"]
        /\ UNCHANGED <<fired, row, past>>
    BY <1>3 DEF Raise
  <2>2. alert'.status = "open" /\ alert'.decision = alert.decision
    BY <1>1, <2>1 DEF AlertRows
  <2>3. N!Raise
    BY <2>1, <2>2, PastStill, RowsStill DEF N!Raise, SeenRows, Copies, Mishaps
  <2>4. QED BY <2>3 DEF Told, N!NotificationNext
<1>4. CASE Commit(p)
  <2>1. alert.status # "none" /\ UNCHANGED <<fired, past>>
    BY <1>4 DEF Commit, NoteInv
  <2>2. CASE UNCHANGED <<alert, row>>
    BY <2>1, <2>2, ToldNothing, PastStill, RowsStill
  <2>3. CASE ~UNCHANGED <<alert, row>>
    <3> DEFINE d == router[p].decision
               cs == IF d = "direct" /\ alert.decision \in {"pending", "direct"}
                         THEN router[p].channels ELSE {}
    <3>1. /\ ~Blocked(cs) /\ row' = Ensured(cs)
          /\ alert' = [alert EXCEPT !.decision = Settled(d)]
      BY <1>4, <2>3 DEF Commit
    <3>2. alert'.status = alert.status /\ alert'.decision = Settled(d)
      BY <1>1, <3>1 DEF AlertRows
    <3>3. alert.decision = "pending" \/ alert'.decision = alert.decision
      BY <3>2 DEF Settled
    <3>4. cs # {} => alert'.decision = "direct"
      BY <3>2 DEF Settled
    <3> HIDE DEF cs
    <3>5. Missing(cs) # {} => cs # {} /\ Len(fired) = 0
      BY <1>1, <3>1 DEF Missing, Blocked, History, TypeOK
    <3>6. Missing(cs) \in SUBSET {k \in Keys : k[1] = 0 /\ SeenRows[k] = "none"}
      BY DEF Missing, Event, Exists, SeenRows, Seen
    <3>7. SeenRows' = [k \in Keys |-> IF k \in Missing(cs) THEN "open" ELSE SeenRows[k]]
      <4>1. \A k \in Keys : row'[k] = IF k \in Missing(cs) THEN Intent ELSE row[k]
        BY <3>1 DEF Ensured
      <4>2. \A k \in Keys : Seen(k)' = IF k \in Missing(cs) THEN "open" ELSE Seen(k)
        BY <4>1, RecordTypes DEF Seen
      <4>3. QED BY <4>2 DEF SeenRows
    <3>8. N!Decide
      BY <2>1, <3>2, <3>3, <3>4, <3>5, <3>6, <3>7, PastStill
      DEF N!Decide, N!Unmade, N!Make, SeenRows, Copies, Mishaps
    <3>9. QED BY <3>8 DEF Told, N!NotificationNext
  <2>4. QED BY <2>2, <2>3
<1>5. QED BY <1>2, <1>3, <1>4 DEF RouterStep

\* Escalation.
LEMMA EngineTold ==
    ASSUME IInv, NoteInv, NEW p \in Workers, EngineStep(p) \/ FireError(p) PROVE Told
<1>1. alert \in AlertRows /\ fired \in Seq(Int) /\ TypeOK
  BY DEF IInv, TypeOK
<1>2. CASE Evaluate(p) \/ FireError(p)
  <2>1. UNCHANGED <<alert, fired, row, past>>
    BY <1>2 DEF Evaluate, FireError
  <2>2. QED BY <2>1, ToldNothing, PastStill, RowsStill
<1>3. CASE Fire(p)
  <2>1. CASE UNCHANGED <<alert, fired, row>>
    BY <1>3, <2>1, ToldNothing, PastStill, RowsStill DEF Fire
  <2>2. CASE ~UNCHANGED <<alert, fired, row>>
    <3>1. /\ alert.status = "open" /\ alert' = [alert EXCEPT !.level = NextLevel(p)]
          /\ fired' = Append(fired, NextLevel(p)) /\ UNCHANGED past
          /\ \E cs \in SUBSET Channels : row' = Enqueued(Len(fired) + 1, cs)
      BY <1>3, <2>2 DEF Fire, CurrentLevel
    <3>2. alert'.status = alert.status /\ alert'.decision = alert.decision
      BY <1>1, <3>1 DEF AlertRows
    <3>3. Len(fired') = Len(fired) + 1
      BY <1>1, <3>1
    <3>4. PICK cs \in SUBSET Channels : row' = Enqueued(Len(fired) + 1, cs)
      BY <3>1
    <3> DEFINE M == {k \in Keys : Event(k) = Len(fired) + 1 /\ Channel(k) \in cs /\ ~Exists(k)}
    <3>5. M \in SUBSET {k \in Keys : k[1] = Len(fired) + 1 /\ SeenRows[k] = "none"}
      BY DEF Event, Exists, SeenRows, Seen
    <3>6. SeenRows' = [k \in Keys |-> IF k \in M THEN "open" ELSE SeenRows[k]]
      <4>1. \A k \in Keys : row'[k] = IF k \in M THEN Intent ELSE row[k]
        BY <3>4 DEF Enqueued
      <4> HIDE DEF M
      <4>2. \A k \in Keys : Seen(k)' = IF k \in M THEN "open" ELSE Seen(k)
        BY <4>1, RecordTypes DEF Seen
      <4>3. QED BY <4>2 DEF SeenRows
    <3> HIDE DEF M
    <3>7. N!FireLevel
      BY <3>1, <3>2, <3>3, <3>5, <3>6, PastStill
      DEF N!FireLevel, N!Unmade, N!Make, SeenRows, Copies, Mishaps
    <3>8. QED BY <3>7 DEF Told, N!NotificationNext
  <2>3. QED BY <2>1, <2>2
<1>4. QED BY <1>2, <1>3 DEF EngineStep

\* A claim leaves an intent open, or opens a failed one again.
LEMMA ClaimTold ==
    ASSUME IInv, NEW p \in Workers, NEW k \in Keys, TakeLease(p, k), Claimable(k) \/ Forceable(k),
           UNCHANGED <<alert, fired>>, Copies' = Copies, Mishaps' = Mishaps
    PROVE  Told
<1>1. /\ row'[k].status = "sending"
      /\ \A j \in Keys : j # k => row'[j] = row[j]
  BY LeaseFacts DEF IInv
<1>2. Seen(k)' = "open"
  BY <1>1 DEF Seen
<1>3. CASE Seen(k) = "open"
  BY <1>1, <1>2, <1>3, RowSeenStill, ToldNothing
<1>4. CASE row[k].status = "failed"
  <2>1. SeenRows[k] = "failed" /\ SeenRows' = [SeenRows EXCEPT ![k] = "open"]
    BY <1>1, <1>2, <1>4, OneRowSeen DEF SeenRows, Seen
  <2>2. N!Report(k)
    BY <2>1 DEF N!Report, SeenRows, Copies, Mishaps
  <2>3. QED BY <2>2 DEF Told, N!NotificationNext
<1>5. QED BY <1>3, <1>4 DEF Claimable, Forceable, Seen

\* The channel takes a copy.
LEMMA TakeTold ==
    ASSUME IInv, DuplicateIsPaid', NEW k \in Keys, Exists(k), NEW lo \in {0, 1}, Recorded(k, 1, lo, 0, 0),
           UNCHANGED <<alert, fired, row>>
    PROVE  Told
<1>1. /\ Copies' = [Copies EXCEPT ![k] = @ + 1] /\ Mishaps' \in {Mishaps, [Mishaps EXCEPT ![k] = @ + 1]}
  <2>1. /\ Copies' = [Copies EXCEPT ![k] = @ + 1] /\ Mishaps' = [Mishaps EXCEPT ![k] = @ + (0 + lo)]
        /\ 0 + lo = 0 => Mishaps' = Mishaps
    BY PastSeen DEF IInv
  <2>2. CASE lo = 0
    BY <2>1, <2>2
  <2>3. CASE lo = 1
    BY <2>1, <2>3
  <2>4. QED BY <2>1, <2>2, <2>3
<1>2. Copies'[k] <= 1 + Mishaps'[k]
  <2>1. past'[k].accepted <= 1 + past'[k].lapses + past'[k].lost /\ past'[k] \in Pasts
    BY DEF DuplicateIsPaid, Recorded
  <2>2. past'[k].accepted <= 1 + (past'[k].lapses + past'[k].lost)
    BY <2>1 DEF Pasts
  <2>3. QED BY <2>2 DEF Copies, Mishaps
<1>3. SeenRows[k] # "none" /\ SeenRows' = SeenRows
  BY RowsStill DEF Exists, Seen, SeenRows
<1>4. N!Take(k)
  BY <1>1, <1>2, <1>3 DEF N!Take, SeenRows, Copies, Mishaps
<1>5. QED BY <1>4 DEF Told, N!NotificationNext

\* Delivery, by the ticker or by hand.
LEMMA SenderTold ==
    ASSUME IInv, DuplicateIsPaid', NoteInv, NEW p \in Workers,
           \/ SenderStep(p) \/ LoadError(p) \/ SendLost(p) \/ CompleteError(p)
           \/ \E k \in Keys : Manual(p, k) \/ ManualNew(p, k)
    PROVE  Told
<1>1. TypeOK /\ WorkersOK
  BY DEF IInv
<1> DEFINE k == sender[p].key
<1>2. ASSUME sender[p].pc # "idle" PROVE k \in Keys /\ Exists(k)
  BY <1>1, <1>2 DEF WorkersOK, WorkerOK, NoteInv
<1>3. CASE Load(p) \/ LoadError(p) \/ CompleteError(p) \/ \E j \in Keys : Manual(p, j)
  <2>1. UNCHANGED <<alert, fired, row, past>>
    BY <1>3 DEF Load, LoadError, CompleteError, Manual
  <2>2. QED BY <2>1, ToldNothing, PastStill, RowsStill
<1>4. CASE \E j \in Keys : Claim(p, j)
  BY <1>4, ClaimTold, PastStill DEF Claim
<1>5. CASE ForceClaim(p)
  <2>1. k \in Keys /\ UNCHANGED <<alert, fired>>
    BY <1>2, <1>5 DEF ForceClaim
  <2>2. CASE Forceable(k)
    <3>1. TakeLease(p, k) /\ past' = [past EXCEPT ![k].forced = @ + 1]
      BY <1>5, <2>2 DEF ForceClaim
    <3>2. Recorded(k, 0, 0, 0, 1)
      BY <1>1, <2>1, <3>1, PastFacts
    <3>3. Copies' = Copies /\ Mishaps' = Mishaps
      BY <1>1, <2>1, <3>2, PastSeen
    <3>4. QED BY <2>1, <2>2, <3>1, <3>3, ClaimTold
  <2>3. CASE ~Forceable(k)
    BY <1>5, <2>1, <2>3, ToldNothing, PastStill, RowsStill DEF ForceClaim
  <2>4. QED BY <2>2, <2>3
<1>6. CASE Send(p)
  <2>1. k \in Keys /\ Exists(k) /\ UNCHANGED <<alert, fired, row>>
    BY <1>2, <1>6 DEF Send
  <2>2. CASE past' = [past EXCEPT ![k].accepted = @ + 1]
    <3>1. Recorded(k, 1, 0, 0, 0)
      BY <1>1, <2>1, <2>2, PastFacts
    <3>2. QED BY <2>1, <3>1, TakeTold
  <2>3. CASE UNCHANGED past
    BY <2>1, <2>3, ToldNothing, PastStill, RowsStill
  <2>4. QED BY <1>6, <2>2, <2>3 DEF Send
<1>7. CASE SendLost(p)
  <2>1. /\ k \in Keys /\ Exists(k) /\ UNCHANGED <<alert, fired, row>>
        /\ past' = [past EXCEPT ![k].accepted = @ + 1, ![k].lost = @ + 1]
    BY <1>2, <1>7 DEF SendLost
  <2>2. Recorded(k, 1, 1, 0, 0)
    BY <1>1, <2>1, PastFacts
  <2>3. QED BY <2>1, <2>2, TakeTold
<1>8. CASE Complete(p)
  <2>0. PICK i \in Keys : i = sender[p].key
    BY <1>2, <1>8 DEF Complete
  <2>1. UNCHANGED <<alert, fired, past>>
    BY <1>8 DEF Complete
  <2>2. CASE HoldsLease(p)
    <3>1. /\ row'[i].status = sender[p].result
          /\ \A j \in Keys : j # i => row'[j] = row[j]
      BY <1>1, <1>8, <2>0, <2>2, CompleteFacts
    <3>2. SeenRows[i] = "open" /\ row[i].status = "sending"
      BY <2>0, <2>2 DEF HoldsLease, Mine, SeenRows, Seen
    <3>3. sender[p].result \in {"sent", "retrying", "failed"}
      BY <1>1, <1>8 DEF Complete, WorkersOK, WorkerOK, TypeOK, Senders
    <3>4. CASE sender[p].result = "retrying"
      <4>1. Seen(i)' = Seen(i)
        BY <3>1, <3>2, <3>4 DEF Seen
      <4>2. QED BY <2>1, <3>1, <4>1, RowSeenStill, ToldNothing, PastStill
    <3>5. CASE sender[p].result \in {"sent", "failed"}
      <4>1. Seen(i)' = sender[p].result
        BY <3>1, <3>5 DEF Seen
      <4>2. SeenRows' = [SeenRows EXCEPT ![i] = sender[p].result]
        BY <2>1, <3>1, <4>1, OneRowSeen
      <4>3. sender[p].result = "sent" => Copies[i] > 0
        BY <1>8, <2>0 DEF Complete, NoteInv, Copies
      <4>4. N!Report(i)
        BY <2>1, <3>2, <3>5, <4>2, <4>3, PastStill DEF N!Report, SeenRows, Copies, Mishaps
      <4>5. QED BY <2>1, <4>4 DEF Told, N!NotificationNext
    <3>6. QED BY <3>3, <3>4, <3>5
  <2>3. CASE ~HoldsLease(p)
    BY <1>8, <2>1, <2>3, ToldNothing, PastStill, RowsStill DEF Complete
  <2>4. QED BY <2>2, <2>3
<1>9. CASE \E j \in Keys : ManualNew(p, j)
  <2>1. PICK j \in Keys : ManualNew(p, j)
    BY <1>9
  <2>2. /\ alert.status # "none" /\ alert.decision \in {"pending", "direct"}
        /\ j[1] = 0 /\ ~Exists(j) /\ row' = [row EXCEPT ![j] = Intent]
        /\ UNCHANGED <<alert, fired, past>>
    BY <2>1 DEF ManualNew, Event
  <2>3. Len(fired) = 0
    BY <2>1 DEF ManualNew, History
  <2>4. row'[j] = Intent /\ \A i \in Keys : i # j => row'[i] = row[i]
    BY <1>1, <2>2 DEF TypeOK
  <2>5. Seen(j)' = "open" /\ SeenRows[j] = "none"
    BY <2>2, <2>4, RecordTypes DEF Seen, SeenRows, Exists
  <2>6. SeenRows' = [SeenRows EXCEPT ![j] = "open"]
    BY <2>4, <2>5, OneRowSeen
  <2>7. SeenRows' = [i \in Keys |-> IF i \in {j} THEN "open" ELSE SeenRows[i]]
    BY <2>6 DEF SeenRows
  <2>8. N!Ask(j)
    BY <2>2, <2>3, <2>5, <2>7, PastStill DEF N!Ask, N!Unmade, N!Make, SeenRows, Copies, Mishaps
  <2>9. QED BY <2>8 DEF Told, N!NotificationNext
<1>10. QED BY <1>3, <1>4, <1>5, <1>6, <1>7, <1>8, <1>9 DEF SenderStep

\* Time, operators and crashes.
LEMMA OtherTold ==
    ASSUME IInv,
           \/ \E p \in Workers : Crash(p)
           \/ \E k \in Keys : LeaseLapses(k) \/ BackoffElapses(k)
           \/ EditPolicy \/ Close
    PROVE  Told
<1>1. TypeOK /\ alert \in AlertRows /\ row \in [Keys -> IntentRows]
  BY DEF IInv, TypeOK
<1>2. CASE EditPolicy \/ \E p \in Workers : Crash(p)
  <2>1. UNCHANGED <<alert, fired, row, past>>
    BY <1>2 DEF EditPolicy, Crash
  <2>2. QED BY <2>1, ToldNothing, PastStill, RowsStill
<1>3. CASE Close
  <2>1. /\ alert.status = "open" /\ alert' = [alert EXCEPT !.status = "closed"]
        /\ UNCHANGED <<fired, row, past>>
    BY <1>3 DEF Close
  <2>2. alert'.status = "closed" /\ alert'.decision = alert.decision
    BY <1>1, <2>1 DEF AlertRows
  <2>3. N!Close
    BY <2>1, <2>2, PastStill, RowsStill DEF N!Close, SeenRows, Copies, Mishaps
  <2>4. QED BY <2>3 DEF Told, N!NotificationNext
<1>4. CASE \E k \in Keys : LeaseLapses(k)
  <2>1. PICK k \in Keys : LeaseLapses(k)
    BY <1>4
  <2>2. /\ row[k].status = "sending" /\ row' = [row EXCEPT ![k].live = FALSE]
        /\ past' = [past EXCEPT ![k].lapses = @ + 1] /\ UNCHANGED <<alert, fired>>
    BY <2>1 DEF LeaseLapses
  <2>3. row'[k].status = "sending" /\ \A j \in Keys : j # k => row'[j] = row[j]
    BY <1>1, <2>2 DEF IntentRows
  <2>4. SeenRows[k] = "open" /\ SeenRows' = SeenRows
    BY <2>2, <2>3, RowSeenStill DEF Seen, SeenRows
  <2>5. Recorded(k, 0, 0, 1, 0)
    BY <1>1, <2>2, PastFacts
  <2>6. Copies' = Copies /\ Mishaps' = [Mishaps EXCEPT ![k] = @ + 1]
    BY <1>1, <2>5, PastSeen
  <2>7. N!RunOut(k)
    BY <2>2, <2>4, <2>6 DEF N!RunOut, SeenRows, Copies, Mishaps
  <2>8. QED BY <2>7 DEF Told, N!NotificationNext
<1>5. CASE \E k \in Keys : BackoffElapses(k)
  <2>1. PICK k \in Keys : BackoffElapses(k)
    BY <1>5
  <2>2. row' = [row EXCEPT ![k].due = TRUE] /\ UNCHANGED <<alert, fired, past>>
    BY <2>1 DEF BackoffElapses
  <2>3. row'[k].status = row[k].status /\ \A j \in Keys : j # k => row'[j] = row[j]
    BY <1>1, <2>2 DEF IntentRows
  <2>4. SeenRows' = SeenRows
    BY <2>3, RowSeenStill DEF Seen
  <2>5. QED BY <2>2, <2>4, ToldNothing, PastStill
<1>6. QED BY <1>2, <1>3, <1>4, <1>5

\* The past only grows.
LEMMA PastGrows ==
    ASSUME IInv, [Next]_vars, NEW k \in Keys PROVE past'[k].accepted >= past[k].accepted
<1>1. TypeOK /\ WorkersOK /\ past[k].accepted \in Nat
  BY DEF IInv, TypeOK, Pasts
<1>2. CASE UNCHANGED past
  BY <1>1, <1>2
<1>3. ASSUME NEW j \in Keys, NEW a \in {0, 1}, NEW lo, NEW la, NEW f, Recorded(j, a, lo, la, f)
      PROVE  past'[k].accepted >= past[k].accepted
  <2>1. CASE j = k
    BY <1>1, <1>3, <2>1 DEF Recorded
  <2>2. CASE j # k
    BY <1>1, <1>3, <2>2 DEF Recorded
  <2>3. QED BY <2>1, <2>2
<1>4. ASSUME NEW p \in Workers, ForceClaim(p) \/ Send(p) \/ SendLost(p)
      PROVE  past'[k].accepted >= past[k].accepted
  <2>1. PICK j \in Keys : j = sender[p].key
    BY <1>1, <1>4 DEF ForceClaim, Send, SendLost, WorkersOK, WorkerOK
  <2>2. \/ UNCHANGED past
        \/ past' = [past EXCEPT ![j].forced = @ + 1]
        \/ past' = [past EXCEPT ![j].accepted = @ + 1]
        \/ past' = [past EXCEPT ![j].accepted = @ + 1, ![j].lost = @ + 1]
    BY <1>4, <2>1 DEF ForceClaim, Send, SendLost
  <2>3. UNCHANGED past \/ Recorded(j, 0, 0, 0, 1) \/ Recorded(j, 1, 0, 0, 0) \/ Recorded(j, 1, 1, 0, 0)
    BY <1>1, <2>2, PastFacts
  <2>4. QED BY <1>2, <1>3, <2>3
<1>5. ASSUME NEW j \in Keys, LeaseLapses(j) PROVE past'[k].accepted >= past[k].accepted
  <2>1. past' = [past EXCEPT ![j].lapses = @ + 1]
    BY <1>5 DEF LeaseLapses
  <2>2. Recorded(j, 0, 0, 1, 0)
    BY <1>1, <2>1, PastFacts
  <2>3. QED BY <1>3, <2>2
<1>6. \/ UNCHANGED past
      \/ \E p \in Workers : ForceClaim(p) \/ Send(p) \/ SendLost(p)
      \/ \E j \in Keys : LeaseLapses(j)
  BY DEF vars, Next, Raise, RouterStep, Replay, ReadRows, ReadHistory, Resolve, Commit, RouteError,
         EngineStep, Evaluate, Fire, FireError, SenderStep, Claim, Load, LoadError, Complete,
         CompleteError, Crash, Manual, ManualNew, BackoffElapses, EditPolicy, Close
<1>7. QED BY <1>2, <1>4, <1>5, <1>6

\* How a worker comes to have an intent, and to report success.
WorkerMove(q) ==
    \/ sender'[q] = sender[q]
    \/ sender'[q].pc = "idle"
    \/ /\ ~(sender'[q].pc = "answered" /\ sender'[q].result = "sent")
       /\ sender'[q].key \in Keys
       /\ Exists(sender'[q].key) \/ row'[sender'[q].key].status # "none"
    \/ /\ sender'[q].key = sender[q].key /\ sender[q].pc # "idle"
       /\ past'[sender[q].key].accepted > 0

LEMMA WorkersMove ==
    ASSUME IInv, NoteInv, [Next]_vars, NEW q \in Workers PROVE WorkerMove(q)
<1>1. TypeOK /\ WorkersOK /\ sender \in [Workers -> Senders] /\ sender[q] \in Senders
  BY DEF IInv, TypeOK
<1>2. CASE UNCHANGED sender
  BY <1>2 DEF WorkerMove
<1>3. ASSUME NEW p \in Workers, Idle(p) PROVE WorkerMove(q)
  BY <1>1, <1>3, IdleFacts, RecordTypes DEF WorkerMove
<1>4. ASSUME NEW p \in Workers, sender[p].pc # "idle", NEW s \in {"retrying", "failed"}, Answer(p, s)
      PROVE  WorkerMove(q)
  <2>1. sender[p].key \in Keys /\ Exists(sender[p].key)
    BY <1>1, <1>4 DEF WorkersOK, WorkerOK, NoteInv
  <2>2. QED BY <1>1, <1>4, <2>1, AnswerFacts DEF WorkerMove
<1>5. ASSUME NEW p \in Workers, sender[p].pc # "idle", NEW pc \in {"claimed", "loaded"},
             sender' = [sender EXCEPT ![p].pc = pc]
      PROVE  WorkerMove(q)
  <2>1. sender[p].key \in Keys /\ Exists(sender[p].key)
    BY <1>1, <1>5 DEF WorkersOK, WorkerOK, NoteInv
  <2>2. CASE p = q
    <3>1. sender'[q].pc = pc /\ sender'[q].key = sender[q].key
      BY <1>1, <1>5, <2>2 DEF Senders
    <3>2. QED BY <2>1, <2>2, <3>1 DEF WorkerMove
  <2>3. CASE p # q
    BY <1>1, <1>5, <2>3 DEF WorkerMove
  <2>4. QED BY <2>2, <2>3
<1>6. ASSUME NEW p \in Workers, NEW k \in Keys, NEW v, sender' = [sender EXCEPT ![p] = v],
             v.key = k, v.pc # "answered", Exists(k) \/ row'[k].status # "none"
      PROVE  WorkerMove(q)
  <2>1. sender'[q] = sender[q] \/ sender'[q] = v
    BY <1>1, <1>6
  <2>2. QED BY <1>6, <2>1 DEF WorkerMove
<1>7. ASSUME NEW p \in Workers, NEW k \in Keys, Claim(p, k) \/ Manual(p, k) \/ ManualNew(p, k)
      PROVE  WorkerMove(q)
  <2>1. Exists(k) \/ row'[k].status # "none"
    <3>1. Claim(p, k) => Exists(k)
      BY DEF Claim, Claimable, Exists
    <3>2. ManualNew(p, k) => row'[k] = Intent
      BY <1>1 DEF ManualNew, TypeOK
    <3>3. QED BY <1>7, <3>1, <3>2, RecordTypes DEF Manual
  <2>2. PICK pc \in {"claimed", "forced"}, b \in BOOLEAN :
          sender' = [sender EXCEPT ![p] = [pc |-> pc, key |-> k, force |-> b, result |-> "none"]]
    BY <1>7 DEF Claim, Manual, ManualNew
  <2>3. PICK v : /\ v = [pc |-> pc, key |-> k, force |-> b, result |-> "none"]
                 /\ sender' = [sender EXCEPT ![p] = v]
    BY <2>2
  <2>4. v.key = k /\ v.pc # "answered"
    BY <2>3
  <2>5. QED BY <1>6, <2>1, <2>3, <2>4
<1>8. ASSUME NEW p \in Workers, Load(p) \/ ForceClaim(p) PROVE WorkerMove(q)
  <2>1. sender[p].pc # "idle" /\ (Idle(p) \/ \E pc \in {"claimed", "loaded"} : sender' = [sender EXCEPT ![p].pc = pc])
    BY <1>8 DEF Load, ForceClaim
  <2>2. QED BY <1>3, <1>5, <2>1
<1>9. ASSUME NEW p \in Workers, LoadError(p) \/ SendLost(p) PROVE WorkerMove(q)
  <2>1. \A b \in BOOLEAN : RetryResult(p, b) \in {"failed", "retrying"}
    BY RetryResultType
  <2>2. sender[p].pc # "idle" /\ sender[p].force \in BOOLEAN
    BY <1>1, <1>9 DEF LoadError, SendLost, Senders
  <2>3. Idle(p) \/ \E s \in {"retrying", "failed"} : Answer(p, s)
    BY <1>9, <2>1, <2>2 DEF LoadError, SendLost
  <2>4. QED BY <1>3, <1>4, <2>2, <2>3
<1>10. ASSUME NEW p \in Workers, Send(p) PROVE WorkerMove(q)
  <2>1. /\ sender[p].pc # "idle" /\ sender[p].force \in BOOLEAN /\ sender[p].key \in Keys
        /\ RetryResult(p, sender[p].force) \in {"failed", "retrying"}
    BY <1>1, <1>10, RetryResultType DEF Send, Senders, WorkersOK, WorkerOK
  <2>2. CASE Answer(p, "sent") /\ past' = [past EXCEPT ![sender[p].key].accepted = @ + 1]
    <3>1. past'[sender[p].key].accepted > 0
      <4>1. PICK k \in Keys : k = sender[p].key
        BY <2>1
      <4>2. Recorded(k, 1, 0, 0, 0) /\ past[k].accepted \in Nat
        BY <1>1, <2>2, <4>1, PastFacts DEF TypeOK, Pasts
      <4>3. QED BY <4>1, <4>2 DEF Recorded
    <3>2. QED BY <1>1, <2>1, <2>2, <3>1, AnswerFacts DEF WorkerMove
  <2>3. CASE \E s \in {"retrying", "failed"} : Answer(p, s)
    BY <1>4, <2>1, <2>3
  <2>4. QED BY <1>10, <2>1, <2>2, <2>3 DEF Send
<1>11. \/ UNCHANGED sender
       \/ \E p \in Workers :
             \/ Idle(p) \/ Load(p) \/ ForceClaim(p) \/ LoadError(p) \/ SendLost(p) \/ Send(p)
             \/ \E k \in Keys : Claim(p, k) \/ Manual(p, k) \/ ManualNew(p, k)
  BY DEF vars, Next, Raise, RouterStep, Replay, ReadRows, ReadHistory, Resolve, Commit, RouteError,
         EngineStep, Evaluate, Fire, FireError, SenderStep, Complete,
         CompleteError, Crash, LeaseLapses, BackoffElapses, EditPolicy, Close
<1>12. QED BY <1>2, <1>3, <1>7, <1>8, <1>9, <1>10, <1>11

\* Only a raised alert is routed, and it stays raised.
LEMMA RoutersMove ==
    ASSUME IInv, NoteInv, [Next]_vars, NEW q \in Workers, router'[q].pc # "idle"
    PROVE  alert'.status # "none"
<1>1. alert \in AlertRows /\ router \in [Workers -> Routers] /\ IdleRouter.pc = "idle"
  BY DEF IInv, TypeOK, IdleRouter
<1>2. alert.status # "none" => alert'.status # "none"
  <2>1. UNCHANGED alert \/ Close \/ \E p \in Workers : Raise(p) \/ Commit(p) \/ Fire(p)
    BY DEF vars, Next, RouterStep, Replay, ReadRows, ReadHistory, Resolve, RouteError,
           EngineStep, Evaluate, FireError, SenderStep, Claim, ForceClaim, Load, LoadError,
           Send, SendLost, Complete, CompleteError, Crash, Manual, ManualNew, LeaseLapses,
           BackoffElapses, EditPolicy
  <2>2. QED BY <1>1, <2>1 DEF Close, Raise, Commit, Fire, AlertRows
<1>3. ASSUME NEW p \in Workers, Raise(p) PROVE alert'.status # "none"
  BY <1>1, <1>3 DEF Raise, AlertRows
<1>4. ASSUME NEW p \in Workers, NEW v, Route(p, v), v.pc = "idle" \/ alert.status # "none"
      PROVE  alert'.status # "none"
  <2>1. router'[q] = router[q] \/ router'[q] = v
    BY <1>1, <1>4 DEF Route
  <2>2. QED BY <1>2, <1>4, <2>1 DEF NoteInv
<1>5. ASSUME NEW p \in Workers, Replay(p) PROVE alert'.status # "none"
  BY <1>2, <1>5 DEF Replay
<1>6. ASSUME NEW p \in Workers, ReadRows(p) \/ ReadHistory(p) \/ Resolve(p)
      PROVE  alert'.status # "none"
  <2>1. router[p].pc # "idle"
    BY <1>6 DEF ReadRows, ReadHistory, Resolve
  <2>2. QED BY <1>2, <2>1 DEF NoteInv
<1>7. ASSUME NEW p \in Workers, Commit(p) \/ RouteError(p) \/ Crash(p) PROVE alert'.status # "none"
  <2>1. Route(p, IdleRouter)
    BY <1>7 DEF Commit, RouteError, Crash, Route
  <2>2. QED BY <1>1, <1>4, <2>1
<1>8. \/ UNCHANGED router
      \/ \E p \in Workers : \/ Raise(p) \/ Replay(p) \/ ReadRows(p) \/ ReadHistory(p) \/ Resolve(p)
                            \/ Commit(p) \/ RouteError(p) \/ Crash(p)
  BY DEF vars, Next, RouterStep, EngineStep, Evaluate, Fire, FireError, SenderStep, Claim, ForceClaim,
         Load, LoadError, Send, SendLost, Complete, CompleteError, Manual, ManualNew, LeaseLapses,
         BackoffElapses, EditPolicy, Close
<1>9. QED BY <1>2, <1>3, <1>5, <1>6, <1>7, <1>8 DEF NoteInv

LEMMA NoteNext == IInv /\ NoteInv /\ [Next]_vars => NoteInv'
<1> SUFFICES ASSUME IInv, NoteInv, [Next]_vars, NEW q \in Workers
             PROVE  /\ router'[q].pc # "idle" => alert'.status # "none"
                    /\ sender'[q].pc # "idle" => row'[sender'[q].key].status # "none"
                    /\ sender'[q].pc = "answered" /\ sender'[q].result = "sent" =>
                           past'[sender'[q].key].accepted > 0
  BY DEF NoteInv, Exists
<1>2. \A k \in Keys : Exists(k) => row'[k].status # "none"
  BY RowMoves, RecordTypes DEF RowSteps, Exists
<1>3. WorkerMove(q)
  BY WorkersMove
<1>4. sender[q].pc # "idle" => sender[q].key \in Keys /\ Exists(sender[q].key)
  BY DEF IInv, WorkersOK, WorkerOK, NoteInv
<1>5. sender'[q].pc # "idle" => row'[sender'[q].key].status # "none"
  BY <1>2, <1>3, <1>4 DEF WorkerMove
<1>6. ASSUME sender'[q].pc = "answered", sender'[q].result = "sent"
      PROVE  past'[sender'[q].key].accepted > 0
  <2>1. CASE sender'[q] = sender[q]
    <3>1. PICK k \in Keys : k = sender[q].key
      BY <1>4, <1>6, <2>1
    <3>2. past[k].accepted > 0 /\ past[k].accepted \in Nat
      BY <1>6, <2>1, <3>1 DEF NoteInv, IInv, TypeOK, Pasts
    <3>3. past'[k].accepted >= past[k].accepted /\ past'[k].accepted \in Nat
      BY PastGrows, NextIInv DEF IInv, TypeOK, Pasts
    <3>4. QED BY <2>1, <3>1, <3>2, <3>3
  <2>2. QED BY <1>3, <1>6, <2>1 DEF WorkerMove
<1>7. QED BY <1>5, <1>6, RoutersMove

LEMMA NoteInit == Init => NoteInv
BY DEF Init, NoteInv, IdleRouter, IdleSender

\* The alert pipeline, with any number of workers, channels and levels and under
\* any faults, implements the abstract Notification: one decision, levels in order
\* with intents of their own, nothing marked sent (completeDelivery) that its
\* channel never accepted, and no copy too many.
THEOREM AlertRefinement == Spec => RefinesNotification
<1>1. Init => N!NotificationInit
  <2>1. SUFFICES ASSUME Init PROVE N!NotificationInit
    OBVIOUS
  <2>2. /\ alert.status = "none" /\ alert.decision = "pending" /\ Len(fired) = 0
        /\ SeenRows = [k \in Keys |-> "none"]
        /\ Copies = [k \in Keys |-> 0] /\ Mishaps = [k \in Keys |-> 0]
    BY <2>1, RecordTypes DEF Init, SeenRows, Seen, Copies, Mishaps
  <2>3. QED BY <2>2 DEF N!NotificationInit, SeenRows, Copies, Mishaps
<1>2. ASSUME IInv, NoteInv, DuplicateIsPaid', [Next]_vars
      PROVE  [N!NotificationNext]_(N!notificationVars)
  <2>1. CASE UNCHANGED vars
    BY <2>1, ToldNothing, PastStill, RowsStill DEF vars, Told
  <2>2. CASE Next
    BY <1>2, <2>2, RouterTold, EngineTold, SenderTold, OtherTold DEF Next, Told
  <2>3. QED BY <1>2, <2>1, <2>2
<1>3. Spec => [](IInv /\ NoteInv)
  BY InitIInv, NextIInv, NoteInit, NoteNext, PTL DEF Spec
<1>4. QED BY <1>1, <1>2, <1>3, AlertDuplicates, PTL DEF Spec, RefinesNotification, N!NotificationSpec
=============================================================================
