----------------------- MODULE PointLifecycle_proofs -----------------------
(***************************************************************************)
(* PointLifecycle, for any sets of workers and readers and any number of   *)
(* faults: the safety invariants hold, and the specification implements    *)
(* RecoveryPoint.                                                          *)
(*                                                                         *)
(* The argument: a reader or a hold is only admitted while the point is    *)
(* readable and no attempt is incomplete, and once an attempt started that *)
(* never holds again, because an attempt only ends by deleting or retiring *)
(* the point.  So "no leases" is stable from the drain on, and every path  *)
(* to the provider (a phase, a resumed block, the stale program counter of *)
(* a slow worker) starts behind it.                                        *)
(***************************************************************************)
EXTENDS PointLifecycle, TLAPS

Quiet == \A r \in Readers : lease[r] = "none"

\* What the attempt's phase says about the point.
PhaseInv ==
    /\ att.phase = "none" => point.state = "readable" /\ tomb = {} /\ Deletes
    /\ att.phase = "complete" => IF Deletes THEN point.state = "expired" /\ Proven
                                            ELSE point.state = "retired"
    /\ Active /\ Deletes => point.state \in {"expiring", "purge_blocked"}
    /\ Active /\ ~Deletes => point.state = "readable"
    /\ ~Deletes => att.phase # "provider_delete" /\ att.reason \notin ProviderReasons
    /\ att.phase = "blocked" /\ Deletes => point.state = "purge_blocked"
    /\ Active /\ Deletes /\ att.phase \notin {"blocked", "tombstoning"} /\ ~Claimed =>
           point.state = "expiring"

\* When readers must be gone: the ordinary ones from the drain on, and all of
\* them from the cleanup on.
QuietInv ==
    /\ att.phase = "cleaning" => \A r \in Ordinary : lease[r] = "none"
    /\ att.phase \in {"provider_delete", "tombstoning"} => Quiet
    /\ att.phase = "blocked" /\ att.reason \in ProviderReasons => Quiet
    /\ sent \/ "mutable_retire" \in tomb => Quiet /\ att.phase # "none"

\* What was sent to the provider, and what is known of it.
SentInv ==
    /\ Claimed => sent
    /\ gone => sent
    /\ sent => ~point.held /\ Deletes
    /\ (\E op \in tomb : op # "mutable_retire") => gone
    /\ claim.state = "in_flight" /\ claim.rev =>
           att.phase = "provider_delete" /\ point.state = "expiring"

\* What a worker relies on from earlier transactions when it stands at pc value k.
Entitled(k) ==
    /\ k # "idle" => att.phase # "none"
    /\ k \in {"delete", "audit_c", "prepare"} => Deletes /\ Quiet
    /\ k \in {"calling", "receipt", "uncertain"} => sent
    /\ k = "receipt" => gone
    /\ k = "retry" => Deletes
    /\ k \in {"prove", "confirm", "proof"} => Proven /\ Deletes
PcInv == \A w \in Workers : Entitled(pc[w])

IInv == TypeOK /\ PhaseInv /\ QuietInv /\ SentInv /\ PcInv

\* What no step inside an attempt takes back.
Keeps ==
    /\ att'.op = att.op
    /\ att.phase # "none" => att'.phase # "none"
    /\ Quiet => Quiet'
    /\ sent => sent'
    /\ gone => gone'
    /\ tomb \subseteq tomb'

-----------------------------------------------------------------------------
(* What the shared operators do. *)

LEMMA Names ==
    /\ {"selected", "revoking", "draining", "cleaning", "provider_delete", "tombstoning",
        "blocked", "complete"} \subseteq Phases
    /\ {"none", "active_hold", "lease_live", "owner_cleanup_unproven", "fence_lost"} \subseteq Reasons
    /\ ProviderReasons \subseteq Reasons
    /\ {"expiring", "purge_blocked", "expired", "retired"} \subseteq PointStates
    /\ {"none", "live", "lapsed", "over"} = LeaseStates
    /\ {"live", "lapsed", "over", "expired", "released"} \subseteq OwnStates
BY DEF Phases, Reasons, ProviderReasons, PointStates, LeaseStates, OwnStates

LEMMA BlockFacts ==
    ASSUME TypeOK, NEW rs \in Reasons, Block(rs)
    PROVE  /\ att' \in AttemptRows /\ point' \in PointRows /\ auth' \subseteq Workers
           /\ att'.op = att.op /\ att'.phase = "blocked" /\ att'.reason = rs
           /\ point'.held = point.held
           /\ Deletes => point'.state = "purge_blocked"
           /\ ~Deletes => point'.state = point.state
BY Names DEF TypeOK, Block, PointRows, AttemptRows

LEMMA MoveFacts ==
    ASSUME TypeOK, NEW ph \in Phases, Move(ph)
    PROVE  /\ att' \in AttemptRows /\ auth' \subseteq Workers
           /\ att'.op = att.op /\ att'.phase = ph /\ att'.reason = "none"
BY Names DEF TypeOK, Move, AttemptRows

LEMMA OutdatedFacts ==
    ASSUME TypeOK, NEW rot \in BOOLEAN
    PROVE  /\ Outdated(rot) \in ClaimRows
           /\ Outdated(rot).state = claim.state /\ Outdated(rot).rev = FALSE
BY DEF TypeOK, Outdated, ClaimRows

LEMMA ClaimFacts ==
    ASSUME TypeOK, NEW w \in Workers
    PROVE  /\ InFlight(w) \in ClaimRows /\ InFlight(w).state = "in_flight"
           /\ Uncertain \in ClaimRows /\ Uncertain.state = "uncertain"
           /\ [Uncertain EXCEPT !.rev = FALSE] \in ClaimRows
           /\ [Uncertain EXCEPT !.rev = FALSE].state = "uncertain"
           /\ NoClaim \in ClaimRows /\ NoClaim.state = "none"
BY DEF TypeOK, InFlight, Uncertain, NoClaim, ClaimRows

LEMMA SettledFacts ==
    ASSUME TypeOK PROVE Settled \in OwnStates
BY Names DEF TypeOK, Settled

LEMMA FaultFacts ==
    ASSUME TypeOK, NEW f, Fault(f) PROVE faults' \in 0..MaxFaults
BY LifecycleAssumption DEF TypeOK, Fault

LEMMA GotoFacts ==
    ASSUME TypeOK, NEW w \in Workers, NEW k \in Pcs, Goto(w, k)
    PROVE  /\ pc' \in [Workers -> Pcs]
           /\ pc'[w] = k
           /\ \A v \in Workers : v # w => pc'[v] = pc[v]
BY DEF TypeOK, Goto

\* A worker moves on to where it is entitled to be; the others stay entitled.
LEMMA PcStep ==
    ASSUME TypeOK, PcInv, Keeps, NEW w \in Workers, NEW k \in Pcs, Goto(w, k), Entitled(pc[w])'
    PROVE  PcInv'
BY GotoFacts DEF PcInv, Entitled, Keeps, Proven, Deletes

\* Blocking an incomplete attempt.
LEMMA BlockStep ==
    ASSUME IInv, Active, NEW rs \in Reasons, Block(rs),
           rs \in ProviderReasons => Deletes /\ Quiet,
           Quiet => Quiet', tomb' = tomb, sent' = sent, gone' = gone,
           claim'.state \in {"none", claim.state, "uncertain"},
           Claimed' => sent, claim'.state = "in_flight" => ~claim'.rev
    PROVE  PhaseInv' /\ QuietInv' /\ SentInv' /\ Keeps
<1>1. /\ att'.op = att.op /\ att'.phase = "blocked" /\ att'.reason = rs
      /\ point'.held = point.held
      /\ Deletes => point'.state = "purge_blocked"
      /\ ~Deletes => point'.state = point.state
  BY BlockFacts DEF IInv
<1>2. Active' /\ (Deletes' <=> Deletes)
  BY <1>1 DEF Active, Deletes
<1>3. Keeps
  BY <1>1, SMT DEF Keeps
<1>4. PhaseInv'
  BY <1>1, <1>2 DEF IInv, PhaseInv
<1>5. QuietInv'
  BY <1>1, <1>2 DEF IInv, QuietInv, Active
<1>6. SentInv'
  BY <1>1, <1>2 DEF IInv, SentInv, Claimed
<1> QED BY <1>3, <1>4, <1>5, <1>6

\* Moving an incomplete attempt on.
LEMMA MoveStep ==
    ASSUME IInv, Active, NEW ph \in Phases \ {"none", "blocked", "complete"}, Move(ph),
           ph = "cleaning" => \A r \in Ordinary : lease'[r] = "none",
           ph \in {"provider_delete", "tombstoning"} => Quiet',
           ph = "provider_delete" => Deletes,
           point'.held = point.held,
           point'.state = point.state \/ (Deletes /\ point'.state = "expiring"),
           ph # "tombstoning" /\ Deletes => \/ att.phase \notin {"blocked", "tombstoning"}
                                            \/ point'.state = "expiring",
           Quiet => Quiet', sent' = sent, gone' = gone,
           tomb' = tomb \/ (tomb' = tomb \cup {"mutable_retire"} /\ Quiet'),
           claim'.state = claim.state, ~claim'.rev
    PROVE  PhaseInv' /\ QuietInv' /\ SentInv' /\ Keeps
<1>1. att'.op = att.op /\ att'.phase = ph /\ att'.reason = "none"
  BY MoveFacts DEF IInv
<1>2. Active' /\ (Deletes' <=> Deletes)
  BY <1>1 DEF Active, Deletes
<1>3. Keeps
  BY <1>1, SMT DEF Keeps
<1>4. PhaseInv'
  BY <1>1, <1>2 DEF IInv, PhaseInv, ProviderReasons, Claimed
<1>5. QuietInv'
  BY <1>1, <1>2 DEF IInv, QuietInv, Active, ProviderReasons
<1>6. SentInv'
  BY <1>1, <1>2 DEF IInv, SentInv, Claimed
<1> QED BY <1>3, <1>4, <1>5, <1>6

\* A step that leaves the rows alone, apart from the audit and leases.
LEMMA RowsKept ==
    ASSUME IInv, UNCHANGED <<point, att, claim, tomb, sent, gone>>,
           Quiet => Quiet',
           \A r \in Readers : lease[r] = "none" => lease'[r] = "none"
    PROVE  PhaseInv' /\ QuietInv' /\ SentInv' /\ Keeps
<1>1. PhaseInv' BY DEF IInv, PhaseInv, Active, Deletes, Proven, Claimed
<1>2. QuietInv' BY DEF IInv, QuietInv, Ordinary
<1>3. SentInv' BY DEF IInv, SentInv, Claimed, Deletes
<1>4. Keeps BY DEF Keeps
<1> QED BY <1>1, <1>2, <1>3, <1>4

-----------------------------------------------------------------------------
(* One lemma per action of a worker. *)

\* The audit transactions only move the worker and fill a slot.
LEMMA AuditStep ==
    ASSUME IInv, NEW w \in Workers, NEW next, WriteAudit(w, next),
           next.none \in Pcs, next.pending \in Pcs, next.terminal \in Pcs,
           Entitled(next.none), Entitled(next.pending), att.phase # "none",
           Deletes /\ Proven => Entitled(next.terminal)
    PROVE  IInv'
<1>1. PICK k \in Pcs : Goto(w, k) /\ Entitled(k)
  <2>1. "sched" \in Pcs /\ Entitled("sched") BY DEF Pcs, Entitled
  <2>2. CASE Goto(w, "sched") BY <2>1, <2>2
  <2>3. CASE Goto(w, next.pending) BY <2>3
  <2>4. CASE Goto(w, next.none) BY <2>4
  <2>5. CASE AuditStatus = "deleted" /\ Goto(w, next.terminal)
    BY <2>5 DEF AuditStatus
  <2> QED BY <2>2, <2>3, <2>4, <2>5 DEF WriteAudit
<1>2. /\ UNCHANGED <<point, att, own, claim, tomb, lease, auth, sent, gone>>
      /\ slots' = slots \/ (slots' = slots \cup {AuditStatus} /\ AuditStatus # "none")
      /\ faults' = faults \/ Fault("audit")
  BY DEF WriteAudit, AuditDue
<1>3. AuditStatus \in {"none", "deleted", "identity_conflict", "blocked"}
  BY DEF AuditStatus
<1>4. TypeOK'
  <2>1. slots' \subseteq {"blocked", "identity_conflict", "deleted"} BY <1>2, <1>3 DEF IInv, TypeOK
  <2>2. faults' \in 0..MaxFaults BY <1>2, FaultFacts DEF IInv, TypeOK
  <2>3. pc' \in [Workers -> Pcs] BY <1>1, GotoFacts DEF IInv
  <2> QED BY <1>2, <2>1, <2>2, <2>3 DEF IInv, TypeOK
<1>5. Quiet => Quiet' BY <1>2 DEF Quiet
<1>6. PhaseInv' /\ QuietInv' /\ SentInv' /\ Keeps
  BY <1>2, <1>5, RowsKept
<1>7. Entitled(pc[w])'
  BY <1>1, <1>2, <1>5, GotoFacts DEF Entitled, IInv, Deletes, Proven
<1> QED BY <1>1, <1>4, <1>6, <1>7, PcStep DEF IInv

LEMMA AuditActions ==
    ASSUME IInv, NEW w \in Workers,
           Flush(w) \/ AuditAfterProof(w) \/ AuditAfterBlock(w) \/ AuditBeforeRetry(w)
    PROVE  IInv'
<1>0. Entitled(pc[w]) BY DEF IInv, PcInv
<1>1. CASE Flush(w)
  <2> DEFINE n == [none |-> "beat", pending |-> "idle", terminal |-> "prove"]
  <2>1. WriteAudit(w, n) /\ att.phase # "none" BY <1>1 DEF Flush, Active
  <2>2. /\ n.none \in Pcs /\ n.pending \in Pcs /\ n.terminal \in Pcs
        /\ Entitled(n.none) /\ Entitled(n.pending) /\ (Deletes /\ Proven => Entitled(n.terminal))
    BY <2>1 DEF Entitled, Pcs
  <2> HIDE DEF n
  <2> QED BY <2>1, <2>2, AuditStep
<1>2. CASE AuditAfterProof(w)
  <2> DEFINE on == IF att.phase \in {"blocked", "complete"} THEN "idle" ELSE "advance"
             n == [none |-> on, pending |-> on, terminal |-> on]
  <2>1. WriteAudit(w, n) /\ att.phase # "none" BY <1>0, <1>2 DEF AuditAfterProof, Entitled
  <2>2. /\ n.none \in Pcs /\ n.pending \in Pcs /\ n.terminal \in Pcs
        /\ Entitled(n.none) /\ Entitled(n.pending) /\ (Deletes /\ Proven => Entitled(n.terminal))
    BY <2>1 DEF Entitled, Pcs
  <2> HIDE DEF n
  <2> QED BY <2>1, <2>2, AuditStep
<1>3. CASE AuditAfterBlock(w)
  <2> DEFINE n == [none |-> "idle", pending |-> "idle", terminal |-> "idle"]
  <2>1. WriteAudit(w, n) /\ att.phase # "none" BY <1>0, <1>3 DEF AuditAfterBlock, Entitled
  <2>2. /\ n.none \in Pcs /\ n.pending \in Pcs /\ n.terminal \in Pcs
        /\ Entitled(n.none) /\ Entitled(n.pending) /\ (Deletes /\ Proven => Entitled(n.terminal))
    BY <2>1 DEF Entitled, Pcs
  <2> HIDE DEF n
  <2> QED BY <2>1, <2>2, AuditStep
<1>4. CASE AuditBeforeRetry(w)
  <2> DEFINE on == IF pc[w] = "audit_c" THEN "prepare" ELSE "resume"
             n == [none |-> on, pending |-> "idle", terminal |-> on]
  <2>1. WriteAudit(w, n) /\ att.phase # "none" BY <1>0, <1>4 DEF AuditBeforeRetry, Entitled
  <2>2. /\ n.none \in Pcs /\ n.pending \in Pcs /\ n.terminal \in Pcs
        /\ Entitled(n.none) /\ Entitled(n.pending) /\ (Deletes /\ Proven => Entitled(n.terminal))
    BY <1>0, <2>1 DEF Entitled, Pcs
  <2> HIDE DEF n
  <2> QED BY <2>1, <2>2, AuditStep
<1> QED BY <1>1, <1>2, <1>3, <1>4

\* Transactions that only decide where the worker goes on.
LEMMA PcOnlyActions ==
    ASSUME IInv, NEW w \in Workers,
           Dispatch(w) \/ PrepareNothing(w) \/ RetryBlocked(w)
    PROVE  IInv'
<1>0. Entitled(pc[w]) BY DEF IInv, PcInv
<1>1. UNCHANGED <<point, att, own, claim, tomb, slots, lease, auth, sent, gone, faults>>
  BY DEF Dispatch, PrepareNothing, RetryBlocked
<1>2. PICK k \in Pcs : Goto(w, k) /\ Entitled(k)
  <2>1. CASE Dispatch(w)
    BY <1>0, <2>1 DEF Dispatch, Entitled, Pcs, IInv, QuietInv, PhaseInv
  <2>2. CASE PrepareNothing(w)
    <3> DEFINE k == IF ~Proven THEN "idle" ELSE IF pc[w] = "delete" THEN "confirm" ELSE "proof"
    <3>1. Goto(w, k) /\ pc[w] \in {"delete", "prepare"} BY <2>2 DEF PrepareNothing
    <3>2. k \in Pcs BY DEF Pcs
    <3>3. Entitled(k) BY <1>0, <3>1 DEF Entitled
    <3> QED BY <3>1, <3>2, <3>3
  <2>3. CASE RetryBlocked(w)
    <3> DEFINE k == IF ~Coherent THEN "idle" ELSE IF Proven THEN "confirm"
                    ELSE IF Claimed THEN "audit_c" ELSE "audit_u"
    <3>1. Goto(w, k) /\ pc[w] = "retry" BY <2>3 DEF RetryBlocked
    <3>2. k \in Pcs BY DEF Pcs
    <3>3. Entitled(k) BY <1>0, <3>1 DEF Entitled, IInv, SentInv, QuietInv
    <3> QED BY <3>1, <3>2, <3>3
  <2> QED BY <2>1, <2>2, <2>3
<1>3. TypeOK' BY <1>1, <1>2, GotoFacts DEF IInv, TypeOK
<1>4. Quiet => Quiet' BY <1>1 DEF Quiet
<1>5. PhaseInv' /\ QuietInv' /\ SentInv' /\ Keeps
  BY <1>1, <1>4, RowsKept
<1>6. Entitled(pc[w])'
  BY <1>1, <1>2, <1>4, GotoFacts DEF Entitled, IInv, Deletes, Proven
<1> QED BY <1>2, <1>3, <1>5, <1>6, PcStep DEF IInv

LEMMA ScheduleAuditRetryStep ==
    ASSUME IInv, NEW w \in Workers, ScheduleAuditRetry(w) PROVE IInv'
<1> DEFINE g == att.gate \/ (Coherent /\ AuditDue)
<1>1. /\ att' = [att EXCEPT !.gate = g] /\ Goto(w, "idle")
      /\ UNCHANGED <<point, own, claim, tomb, slots, lease, auth, sent, gone, faults>>
  BY DEF ScheduleAuditRetry
<1> HIDE DEF g
<1>2. att'.op = att.op /\ att'.phase = att.phase /\ att'.reason = att.reason
  BY <1>1 DEF IInv, TypeOK, AttemptRows
<1>3. TypeOK'
  <2>1. att' \in AttemptRows BY DEF IInv, TypeOK, AttemptRows, ScheduleAuditRetry
  <2>2. pc' \in [Workers -> Pcs] BY <1>1, GotoFacts DEF IInv, Pcs
  <2> QED BY <1>1, <2>1, <2>2 DEF IInv, TypeOK
<1>4. Quiet' <=> Quiet BY <1>1 DEF Quiet
<1>5. PhaseInv' BY <1>1, <1>2 DEF IInv, PhaseInv, Active, Deletes, Proven, Claimed
<1>6. QuietInv' BY <1>1, <1>2, <1>4 DEF IInv, QuietInv, Ordinary
<1>7. SentInv' BY <1>1, <1>2 DEF IInv, SentInv, Claimed, Deletes
<1>8. Keeps BY <1>1, <1>2, <1>4 DEF Keeps
<1>9. Entitled(pc[w])' BY <1>1, GotoFacts DEF IInv, Entitled, Pcs
<1> QED BY <1>1, <1>3, <1>5, <1>6, <1>7, <1>8, <1>9, PcStep DEF IInv, Pcs

\* An attempt with a claim or a proof is a deletion that has been sent.
LEMMA SentFacts ==
    ASSUME IInv
    PROVE  /\ sent => Quiet /\ Deletes /\ ~point.held /\ att.phase # "none"
           /\ Claimed => sent
           /\ Deletes /\ Proven => gone /\ sent
           /\ Deletes /\ ~Proven /\ att.phase # "none" => Active
           /\ Proven => Quiet /\ att.phase # "none"
           /\ Active /\ ~Deletes => ~Claimed
<1>1. Deletes /\ Proven => gone /\ sent
  BY DEF IInv, SentInv, Deletes, Proven
<1>2. ~Deletes /\ Proven => Quiet /\ att.phase # "none"
  BY DEF IInv, QuietInv, Deletes, Proven, TypeOK, AttemptRows, Operations
<1> QED BY <1>1, <1>2 DEF IInv, QuietInv, SentInv, PhaseInv, Active

LEMMA ProgressProofStep ==
    ASSUME IInv, NEW w \in Workers, ProgressProof(w) PROVE IInv'
<1>0. Proven /\ Deletes /\ sent /\ gone /\ Quiet /\ ~point.held
  <2>1. Proven /\ Deletes BY DEF IInv, PcInv, Entitled, ProgressProof
  <2> QED BY <2>1, SentFacts
<1> DEFINE k == CASE pc[w] = "prove" -> "beat"
                  [] pc[w] = "confirm" -> "audit"
                  [] OTHER -> IF point.held THEN "idle" ELSE "advance"
<1>1. /\ Goto(w, k) /\ own' = Settled
      /\ UNCHANGED <<tomb, slots, lease, sent, gone, faults>>
  BY DEF ProgressProof
<1>2. k \in Pcs /\ k \in {"beat", "audit", "advance"}
  BY <1>0 DEF Pcs
<1> HIDE DEF k
<1>3. Quiet' BY <1>0, <1>1 DEF Quiet
<1>4. own' \in OwnStates /\ pc' \in [Workers -> Pcs]
  BY <1>1, <1>2, SettledFacts, GotoFacts DEF IInv
<1>5. CASE att.phase \in {"blocked", "provider_delete"}
  <2>1. Active /\ claim' = Outdated(FALSE) /\ Move("tombstoning") /\ point' = point
    BY <1>0, <1>5 DEF ProgressProof, Active
  <2>2. claim' \in ClaimRows /\ claim'.state = claim.state /\ ~claim'.rev
    BY <2>1, OutdatedFacts DEF IInv
  <2>3. "tombstoning" \in Phases \ {"none", "blocked", "complete"}
    BY Names
  <2>4. att' \in AttemptRows /\ auth' \subseteq Workers /\ att'.phase # "none"
    BY <2>1, <2>3, MoveFacts DEF IInv
  <2>5. PhaseInv' /\ QuietInv' /\ SentInv' /\ Keeps
    BY <1>0, <1>1, <1>3, <2>1, <2>2, <2>3, MoveStep
  <2>6. TypeOK' BY <1>1, <1>4, <2>1, <2>2, <2>4 DEF IInv, TypeOK
  <2>7. Entitled(pc[w])' BY <1>1, <1>2, <2>4, GotoFacts DEF Entitled, IInv
  <2> QED BY <1>1, <1>2, <2>5, <2>6, <2>7, PcStep DEF IInv
<1>6. CASE att.phase \notin {"blocked", "provider_delete"}
  <2>1. UNCHANGED <<point, att, claim, auth>> BY <1>6 DEF ProgressProof
  <2>2. TypeOK' BY <1>1, <1>4, <2>1 DEF IInv, TypeOK
  <2>3. PhaseInv' /\ QuietInv' /\ SentInv' /\ Keeps
    BY <1>1, <1>3, <2>1, RowsKept
  <2>4. Entitled(pc[w])' BY <1>0, <1>1, <1>2, <2>1, GotoFacts, SentFacts DEF Entitled, IInv
  <2> QED BY <1>1, <1>2, <2>2, <2>3, <2>4, PcStep DEF IInv
<1> QED BY <1>5, <1>6

LEMMA FenceLostFacts ==
    ASSUME IInv
    PROVE  /\ FenceLostReason \in Reasons
           /\ FenceLostReason \in ProviderReasons => Deletes /\ Quiet
BY Names DEF FenceLostReason, ProviderReasons, IInv, PhaseInv, QuietInv

LEMMA HeartbeatStep ==
    ASSUME IInv, NEW w \in Workers, Heartbeat(w) PROVE IInv'
<1>1. /\ Goto(w, "advance") /\ pc[w] = "beat"
      /\ UNCHANGED <<tomb, slots, lease, sent, gone, faults>>
  BY DEF Heartbeat
<1>2. "advance" \in Pcs BY DEF Pcs
<1>3. Quiet => Quiet' BY <1>1 DEF Quiet
<1>4. pc' \in [Workers -> Pcs] /\ pc'[w] = "advance" /\ att.phase # "none"
  BY <1>1, <1>2, GotoFacts DEF IInv, PcInv, Entitled
<1>5. CASE UNCHANGED <<point, att, claim>> /\ own' \in OwnStates /\ auth' \subseteq Workers
  <2>1. TypeOK' BY <1>1, <1>4, <1>5 DEF IInv, TypeOK
  <2>2. PhaseInv' /\ QuietInv' /\ SentInv' /\ Keeps
    BY <1>1, <1>3, <1>5, RowsKept
  <2>3. Entitled(pc[w])' BY <1>4, <1>5 DEF Entitled
  <2> QED BY <1>1, <1>2, <2>1, <2>2, <2>3, PcStep DEF IInv
<1>6. CASE Active /\ ~(Deletes /\ (Proven \/ Claimed)) /\ Block(FenceLostReason) /\ UNCHANGED <<own, claim>>
  <2>1. ~Claimed BY <1>6, SentFacts
  <2>2. PhaseInv' /\ QuietInv' /\ SentInv' /\ Keeps
    BY <1>1, <1>3, <1>6, <2>1, FenceLostFacts, BlockStep DEF Claimed
  <2>3. /\ att' \in AttemptRows /\ point' \in PointRows /\ auth' \subseteq Workers
        /\ att'.phase = "blocked"
    BY <1>6, FenceLostFacts, BlockFacts DEF IInv
  <2>4. TypeOK' BY <1>1, <1>4, <1>6, <2>3 DEF IInv, TypeOK
  <2>5. Entitled(pc[w])' BY <1>4, <2>3 DEF Entitled
  <2> QED BY <1>1, <1>2, <2>2, <2>4, <2>5, PcStep DEF IInv
<1> QED BY <1>5, <1>6, Names DEF Heartbeat, IInv, TypeOK

\* The whole step of a worker that blocks the attempt and ends its pass.
LEMMA BlockedPass ==
    ASSUME IInv, Active, NEW w \in Workers, NEW rs \in Reasons, Block(rs),
           rs \in ProviderReasons => Deletes /\ Quiet,
           NEW k \in {"idle", "audit_end"}, Goto(w, k),
           UNCHANGED <<tomb, slots, sent, gone>>,
           lease' \in [Readers -> LeaseStates], Quiet => Quiet',
           own' \in OwnStates, faults' \in 0..MaxFaults,
           claim' \in ClaimRows, claim'.state \in {claim.state, "uncertain"}, Claimed' => sent,
           claim'.state = "in_flight" => ~claim'.rev
    PROVE  IInv'
<1>1. k \in Pcs BY DEF Pcs
<1>2. PhaseInv' /\ QuietInv' /\ SentInv' /\ Keeps BY BlockStep
<1>3. /\ att' \in AttemptRows /\ point' \in PointRows /\ auth' \subseteq Workers
      /\ att'.phase = "blocked"
  BY BlockFacts DEF IInv
<1>4. pc' \in [Workers -> Pcs] /\ pc'[w] = k BY <1>1, GotoFacts DEF IInv
<1>5. TypeOK' BY <1>3, <1>4 DEF IInv, TypeOK
<1>6. Entitled(pc[w])' BY <1>3, <1>4 DEF Entitled
<1> QED BY <1>1, <1>2, <1>5, <1>6, PcStep DEF IInv

\* The whole step of a worker that moves the attempt on and goes on with it.
LEMMA MovedPass ==
    ASSUME IInv, Active, NEW w \in Workers,
           NEW ph \in Phases \ {"none", "blocked", "complete"}, Move(ph), Goto(w, "advance"),
           ph = "cleaning" => \A r \in Ordinary : lease'[r] = "none",
           ph \in {"provider_delete", "tombstoning"} => Quiet',
           ph = "provider_delete" => Deletes,
           point' \in PointRows, point'.held = point.held,
           point'.state = point.state \/ (Deletes /\ point'.state = "expiring"),
           ph # "tombstoning" /\ Deletes => \/ att.phase \notin {"blocked", "tombstoning"}
                                            \/ point'.state = "expiring",
           lease' \in [Readers -> LeaseStates], Quiet => Quiet',
           UNCHANGED <<slots, sent, gone, faults>>,
           tomb' = tomb \/ (tomb' = tomb \cup {"mutable_retire"} /\ Quiet'),
           own' \in OwnStates,
           claim' \in ClaimRows, claim'.state = claim.state, ~claim'.rev
    PROVE  IInv'
<1>1. "advance" \in Pcs /\ "mutable_retire" \in Operations BY DEF Pcs, Operations
<1>2. PhaseInv' /\ QuietInv' /\ SentInv' /\ Keeps BY MoveStep
<1>3. att' \in AttemptRows /\ auth' \subseteq Workers /\ att'.phase = ph
  BY MoveFacts DEF IInv
<1>4. pc' \in [Workers -> Pcs] /\ pc'[w] = "advance" BY <1>1, GotoFacts DEF IInv
<1>5. TypeOK' BY <1>1, <1>3, <1>4 DEF IInv, TypeOK
<1>6. Entitled(pc[w])' BY <1>3, <1>4 DEF Entitled
<1> QED BY <1>1, <1>2, <1>5, <1>6, PcStep DEF IInv

LEMMA RefuseStep ==
    ASSUME IInv, Active, NEW w \in Workers, Refuse(w),
           UNCHANGED <<tomb, slots, sent, gone, faults>>
    PROVE  IInv'
<1>1. Quiet => Quiet' BY DEF Refuse, Quiet
<1>2. /\ claim' \in ClaimRows /\ claim'.state = claim.state /\ ~claim'.rev
      /\ own' \in OwnStates /\ lease' \in [Readers -> LeaseStates]
  BY OutdatedFacts, Names DEF Refuse, Refence, IInv, TypeOK
<1>3. Claimed' => sent BY <1>2, SentFacts DEF Claimed
<1>4. PICK rs \in Reasons : Block(rs) /\ (rs \in ProviderReasons => Deletes /\ Quiet)
  BY FenceLostFacts, Names DEF Refuse, ProviderReasons
<1>5. Goto(w, "idle") /\ faults' \in 0..MaxFaults BY DEF Refuse, IInv, TypeOK
<1> QED BY <1>1, <1>2, <1>3, <1>4, <1>5, BlockedPass

LEMMA RefenceFacts ==
    ASSUME IInv, Refence
    PROVE  /\ claim' \in ClaimRows /\ claim'.state = claim.state /\ ~claim'.rev
           /\ own' \in OwnStates
BY OutdatedFacts, Names DEF Refence, IInv

LEMMA SelectStep ==
    ASSUME IInv, NEW w \in Workers, Select(w) PROVE IInv'
<1>0. Active /\ att.phase = "selected" /\ UNCHANGED <<tomb, slots, sent, gone, faults>>
  BY DEF Select, Active
<1>1. CASE Refuse(w) BY <1>0, <1>1, RefuseStep
<1>2. CASE Refence /\ Move("revoking") /\ Goto(w, "advance") /\ UNCHANGED <<point, lease>>
  <2>1. "revoking" \in Phases \ {"none", "blocked", "complete"} BY Names
  <2>2. Quiet => Quiet' BY <1>2 DEF Quiet
  <2>3. point' \in PointRows /\ lease' \in [Readers -> LeaseStates] BY <1>2 DEF IInv, TypeOK
  <2> QED BY <1>0, <1>2, <2>1, <2>2, <2>3, RefenceFacts, MovedPass
<1> QED BY <1>1, <1>2 DEF Select

LEMMA PrepareEffectStep ==
    ASSUME IInv, NEW w \in Workers, PrepareEffect(w) PROVE IInv'
<1>0. Active /\ UNCHANGED <<tomb, slots, sent, gone, faults>> BY DEF PrepareEffect, Active
<1>1. CASE Refuse(w) BY <1>0, <1>1, RefuseStep
<1>2. CASE ~Refuse(w)
  <2> DEFINE k == IF att.phase = "revoking" THEN "revoke" ELSE "clean"
  <2>1. /\ own' = "live" /\ UNCHANGED <<point, att, lease>> /\ Goto(w, k)
        /\ auth' = (IF own = "lapsed" THEN {} ELSE auth) \cup {w}
        /\ claim' = claim \/ claim' = Outdated(TRUE)
    BY <1>2 DEF PrepareEffect
  <2>2. k \in Pcs /\ k \in {"revoke", "clean"} BY DEF Pcs
  <2> HIDE DEF k
  <2>3. /\ claim' \in ClaimRows /\ claim'.state = claim.state
        /\ claim' = claim \/ ~claim'.rev
    BY <2>1, OutdatedFacts DEF IInv, TypeOK
  <2>4. Quiet' <=> Quiet BY <2>1 DEF Quiet
  <2>5. pc' \in [Workers -> Pcs] /\ pc'[w] = k BY <2>1, <2>2, GotoFacts DEF IInv
  <2>6. TypeOK' BY <1>0, <2>1, <2>3, <2>5, Names DEF IInv, TypeOK
  <2>7. PhaseInv' BY <1>0, <2>1, <2>3 DEF IInv, PhaseInv, Active, Deletes, Proven, Claimed
  <2>8. QuietInv' BY <1>0, <2>1, <2>4 DEF IInv, QuietInv
  <2>9. SentInv' BY <1>0, <2>1, <2>3 DEF IInv, SentInv, Claimed, Deletes
  <2>10. Keeps BY <1>0, <2>1, <2>4 DEF Keeps
  <2>11. Entitled(pc[w])' BY <1>0, <2>1, <2>2, <2>5 DEF Entitled, Active
  <2> QED BY <2>1, <2>2, <2>6, <2>7, <2>8, <2>9, <2>10, <2>11, PcStep DEF IInv
<1> QED BY <1>1, <1>2

LEMMA SettleContentStep ==
    ASSUME IInv, NEW w \in Workers, NEW r \in Readers, SettleContent(w, r) PROVE IInv'
<1>1. /\ lease' = [lease EXCEPT ![r] = "none"]
      /\ UNCHANGED <<point, att, own, claim, tomb, slots, pc, auth, sent, gone, faults>>
  BY DEF SettleContent
<1>2. \A q \in Readers : lease[q] = "none" => lease'[q] = "none"
  BY <1>1 DEF IInv, TypeOK
<1>3. Quiet => Quiet' BY <1>2 DEF Quiet
<1>4. PhaseInv' /\ QuietInv' /\ SentInv' /\ Keeps BY <1>1, <1>2, <1>3, RowsKept
<1>5. TypeOK' BY <1>1, Names DEF IInv, TypeOK
<1>6. PcInv' BY <1>1, <1>3 DEF IInv, PcInv, Entitled, Deletes, Proven
<1> QED BY <1>4, <1>5, <1>6 DEF IInv

LEMMA EffectDoneStep ==
    ASSUME IInv, NEW w \in Workers, EffectDone(w) PROVE IInv'
<1>1. /\ att.phase = EffectPhase(w) /\ pc[w] \in {"revoke", "clean"} /\ OwnersLetGo
      /\ claim' = Outdated(FALSE) /\ UNCHANGED <<own, slots, lease, sent, gone, faults>>
  BY DEF EffectDone
<1>2. Active /\ att.phase \notin {"blocked", "tombstoning"} BY <1>1 DEF EffectPhase, Active
<1>3. Quiet' <=> Quiet BY <1>1 DEF Quiet
<1>4. /\ claim' \in ClaimRows /\ claim'.state = claim.state /\ ~claim'.rev
      /\ own' \in OwnStates /\ lease' \in [Readers -> LeaseStates] /\ faults' \in 0..MaxFaults
  BY <1>1, OutdatedFacts DEF IInv, TypeOK
<1>5. Claimed' => sent BY <1>4, SentFacts DEF Claimed
<1>6. CASE point.held
  <2>1. Block("active_hold") /\ Goto(w, "idle") /\ tomb' = tomb BY <1>6 DEF EffectDone
  <2>2. "active_hold" \in Reasons \ ProviderReasons BY Names DEF ProviderReasons
  <2> QED BY <1>1, <1>2, <1>3, <1>4, <1>5, <2>1, <2>2, BlockedPass
<1>7. CASE ~point.held
  <2>1. Goto(w, "advance") /\ point' = point BY <1>7 DEF EffectDone
  <2>2. point' \in PointRows BY <2>1 DEF IInv, TypeOK
  <2>3. CASE pc[w] = "revoke"
    <3>1. Move("draining") /\ tomb' = tomb BY <1>7, <2>3 DEF EffectDone
    <3>2. "draining" \in Phases \ {"none", "blocked", "complete"} BY Names
    <3> QED BY <1>1, <1>2, <1>3, <1>4, <2>1, <2>2, <3>1, <3>2, MovedPass
  <2>4. CASE pc[w] = "clean"
    <3>1. Quiet
      BY <1>1, <2>4 DEF EffectPhase, OwnersLetGo, Quiet, IInv, QuietInv, Ordinary
    <3>2. CASE Deletes
      <4>1. Move("provider_delete") /\ tomb' = tomb BY <1>7, <2>4, <3>2 DEF EffectDone
      <4>2. "provider_delete" \in Phases \ {"none", "blocked", "complete"} BY Names
      <4> QED BY <1>1, <1>2, <1>3, <1>4, <2>1, <2>2, <3>1, <3>2, <4>1, <4>2, MovedPass
    <3>3. CASE ~Deletes
      <4>1. Move("tombstoning") /\ tomb' = tomb \cup {att.op} BY <1>7, <2>4, <3>3 DEF EffectDone
      <4>2. "tombstoning" \in Phases \ {"none", "blocked", "complete"} BY Names
      <4>3. att.op = "mutable_retire" BY <3>3 DEF Deletes
      <4> QED BY <1>1, <1>2, <1>3, <1>4, <2>1, <2>2, <3>1, <4>1, <4>2, <4>3, MovedPass
    <3> QED BY <3>2, <3>3
  <2> QED BY <1>1, <2>3, <2>4
<1> QED BY <1>6, <1>7

LEMMA EffectFailedStep ==
    ASSUME IInv, NEW w \in Workers, EffectFailed(w) PROVE IInv'
<1>1. /\ att.phase = EffectPhase(w) /\ pc[w] \in {"revoke", "clean"}
      /\ claim' = Outdated(FALSE) /\ UNCHANGED <<own, tomb, slots, lease, sent, gone>>
      /\ Goto(w, "idle")
      /\ \E rs \in {"active_hold", "owner_cleanup_unproven"} : Block(rs)
      /\ faults' = faults \/ Fault("owner")
  BY DEF EffectFailed
<1>2. Active BY <1>1 DEF EffectPhase, Active
<1>3. Quiet' <=> Quiet BY <1>1 DEF Quiet
<1>4. /\ claim' \in ClaimRows /\ claim'.state = claim.state /\ ~claim'.rev
      /\ own' \in OwnStates /\ lease' \in [Readers -> LeaseStates]
  BY <1>1, OutdatedFacts DEF IInv, TypeOK
<1>5. faults' \in 0..MaxFaults BY <1>1, FaultFacts DEF IInv, TypeOK
<1>6. Claimed' => sent BY <1>4, SentFacts DEF Claimed
<1>7. PICK rs \in Reasons \ ProviderReasons : Block(rs) BY <1>1, Names DEF ProviderReasons
<1> QED BY <1>1, <1>2, <1>3, <1>4, <1>5, <1>6, <1>7, BlockedPass

LEMMA EffectOutlivedStep ==
    ASSUME IInv, NEW w \in Workers, EffectOutlived(w) PROVE IInv'
<1>1. /\ Goto(w, "idle") /\ UNCHANGED <<own, tomb, slots, lease, sent, gone, faults>>
  BY DEF EffectOutlived
<1>2. Quiet' <=> Quiet BY <1>1 DEF Quiet
<1>3. CASE att.phase = EffectPhase(w) /\ Block("fence_lost") /\ claim' = Outdated(FALSE)
  <2>1. Active BY <1>3 DEF EffectPhase, Active
  <2>2. /\ claim' \in ClaimRows /\ claim'.state = claim.state /\ ~claim'.rev
        /\ own' \in OwnStates /\ lease' \in [Readers -> LeaseStates] /\ faults' \in 0..MaxFaults
    BY <1>1, <1>3, OutdatedFacts DEF IInv, TypeOK
  <2>3. Claimed' => sent BY <2>2, SentFacts DEF Claimed
  <2>4. "fence_lost" \in Reasons \ ProviderReasons BY Names DEF ProviderReasons
  <2> QED BY <1>1, <1>2, <1>3, <2>1, <2>2, <2>3, <2>4, BlockedPass
<1>4. CASE auth' = auth \ {w} /\ UNCHANGED <<point, att, claim>>
  <2>1. "idle" \in Pcs BY DEF Pcs
  <2>2. pc' \in [Workers -> Pcs] /\ pc'[w] = "idle" BY <1>1, <2>1, GotoFacts DEF IInv
  <2>3. TypeOK' BY <1>1, <1>4, <2>2 DEF IInv, TypeOK
  <2>4. PhaseInv' /\ QuietInv' /\ SentInv' /\ Keeps BY <1>1, <1>2, <1>4, RowsKept
  <2>5. Entitled(pc[w])' BY <2>2 DEF Entitled
  <2> QED BY <1>1, <2>1, <2>3, <2>4, <2>5, PcStep DEF IInv
<1> QED BY <1>3, <1>4 DEF EffectOutlived

LEMMA DrainStep ==
    ASSUME IInv, NEW w \in Workers, Drain(w) PROVE IInv'
<1>0. Active /\ att.phase = "draining" /\ UNCHANGED <<tomb, slots, sent, gone, faults>>
  BY DEF Drain, Active
<1>1. CASE Refuse(w) BY <1>0, <1>1, RefuseStep
<1>2. CASE ~Refuse(w)
  <2>1. PICK R \in SUBSET Readers : lease' = SettledLeases(R)
    BY <1>2 DEF Drain, Ordinary
  <2>2. lease' \in [Readers -> LeaseStates]
    BY <2>1, Names DEF SettledLeases, IInv, TypeOK
  <2>3. Quiet => Quiet' BY <2>1 DEF SettledLeases, Quiet
  <2>4. Refence BY <1>2 DEF Drain
  <2>5. CASE Move("cleaning") /\ Goto(w, "advance") /\ point' = point /\ lease' = SettledLeases(Ordinary)
    <3>1. \A r \in Ordinary : lease'[r] = "none" BY <2>5 DEF SettledLeases, Ordinary
    <3>2. "cleaning" \in Phases \ {"none", "blocked", "complete"} BY Names
    <3>3. point' \in PointRows BY <2>5 DEF IInv, TypeOK
    <3> QED BY <1>0, <2>2, <2>3, <2>4, <2>5, <3>1, <3>2, <3>3, RefenceFacts, MovedPass
  <2>6. CASE Block("lease_live") /\ Goto(w, "idle")
    <3>1. "lease_live" \in Reasons \ ProviderReasons BY Names DEF ProviderReasons
    <3>2. Claimed' => sent BY <2>4, RefenceFacts, SentFacts DEF Claimed
    <3>3. faults' \in 0..MaxFaults BY <1>0 DEF IInv, TypeOK
    <3> QED BY <1>0, <2>2, <2>3, <2>4, <2>6, <3>1, <3>2, <3>3, RefenceFacts, BlockedPass
  <2> QED BY <1>2, <2>5, <2>6 DEF Drain
<1> QED BY <1>1, <1>2

LEMMA PrepareUnclaimedStep ==
    ASSUME IInv, NEW w \in Workers, PrepareUnclaimed(w) PROVE IInv'
<1>1. /\ pc[w] \in {"delete", "prepare"} /\ ~Proven /\ ~Claimed
      /\ UNCHANGED <<tomb, slots, lease, gone>>
  BY DEF PrepareUnclaimed
<1>2. Deletes /\ Quiet /\ Active
  <2>1. Entitled(pc[w]) BY DEF IInv, PcInv
  <2> QED BY <1>1, <2>1, SentFacts DEF Entitled
<1>3. Quiet' BY <1>1, <1>2 DEF Quiet
<1>4. CASE (\E rs \in ProviderReasons \cup {"active_hold"} : Block(rs)) /\ Goto(w, "audit_end")
           /\ UNCHANGED <<claim, sent>> /\ own' \in {own, "live"} /\ (faults' = faults \/ Fault("provider"))
  <2>1. PICK rs \in Reasons : Block(rs) BY <1>4, Names
  <2>2. /\ claim' \in ClaimRows /\ own' \in OwnStates /\ lease' \in [Readers -> LeaseStates]
        /\ claim'.state = "none" /\ claim.state = "none"
    BY <1>1, <1>4, Names DEF IInv, TypeOK, Claimed
  <2>3. faults' \in 0..MaxFaults BY <1>4, FaultFacts DEF IInv, TypeOK
  <2>4. ~Claimed' BY <2>2 DEF Claimed
  <2> QED BY <1>1, <1>2, <1>3, <1>4, <2>1, <2>2, <2>3, <2>4, BlockedPass
<1>5. CASE /\ att.phase = "provider_delete" /\ Cleared
           /\ own' = "live" /\ auth' = IF own = "lapsed" THEN {} ELSE auth
           /\ claim' = InFlight(w) /\ sent' = TRUE
           /\ Goto(w, "calling") /\ UNCHANGED <<point, att, faults>>
  <2>1. "calling" \in Pcs BY DEF Pcs
  <2>2. pc' \in [Workers -> Pcs] /\ pc'[w] = "calling" BY <1>5, <2>1, GotoFacts DEF IInv
  <2>3. claim' \in ClaimRows BY <1>5, ClaimFacts DEF IInv
  <2>4. TypeOK' BY <1>1, <1>5, <2>2, <2>3, Names DEF IInv, TypeOK
  <2>5. PhaseInv' BY <1>1, <1>5 DEF IInv, PhaseInv, Active, Deletes, Proven, Claimed
  <2>6. QuietInv' BY <1>1, <1>3, <1>5 DEF IInv, QuietInv
  <2>7. SentInv'
    <3>1. point.state = "expiring" BY <1>1, <1>2, <1>5 DEF IInv, PhaseInv
    <3> QED BY <1>1, <1>2, <1>5, <3>1 DEF IInv, SentInv, Deletes, Cleared
  <2>8. Keeps BY <1>1, <1>3, <1>5 DEF Keeps
  <2>9. Entitled(pc[w])' BY <1>5, <2>2 DEF Entitled
  <2> QED BY <1>5, <2>1, <2>4, <2>5, <2>6, <2>7, <2>8, <2>9, PcStep DEF IInv
<1> QED BY <1>4, <1>5 DEF PrepareUnclaimed, ProviderReasons

LEMMA PrepareClaimedStep ==
    ASSUME IInv, NEW w \in Workers, PrepareClaimed(w) PROVE IInv'
<1>1. /\ pc[w] \in {"delete", "prepare"} /\ Claimed /\ ~Proven
      /\ UNCHANGED <<tomb, slots, lease, gone>>
  BY DEF PrepareClaimed, TakeoverAllowed
<1>2. sent /\ Deletes /\ Quiet /\ Active /\ ~point.held
  BY <1>1, SentFacts
<1>3. att.phase \in {"provider_delete", "blocked"}
  BY <1>1, <1>2 DEF PrepareClaimed, TakeoverAllowed, Coherent, ClaimFits
<1>4. Quiet' BY <1>1, <1>2 DEF Quiet
<1>5. lease' \in [Readers -> LeaseStates] BY <1>1 DEF IInv, TypeOK
<1>6. CASE att.gate /\ claim' = Uncertain /\ Goto(w, "idle") /\ UNCHANGED <<point, att, own, auth, sent, faults>>
  <2>1. "idle" \in Pcs BY DEF Pcs
  <2>2. pc' \in [Workers -> Pcs] /\ pc'[w] = "idle" BY <1>6, <2>1, GotoFacts DEF IInv
  <2>3. claim' \in ClaimRows /\ claim'.state = "uncertain" BY <1>6, ClaimFacts DEF IInv
  <2>4. TypeOK' BY <1>1, <1>6, <2>2, <2>3 DEF IInv, TypeOK
  <2>5. PhaseInv' BY <1>1, <1>6, <2>3 DEF IInv, PhaseInv, Active, Deletes, Proven, Claimed
  <2>6. QuietInv' BY <1>1, <1>4, <1>6 DEF IInv, QuietInv
  <2>7. SentInv' BY <1>1, <1>2, <1>6, <2>3 DEF IInv, SentInv, Deletes
  <2>8. Keeps BY <1>1, <1>4, <1>6 DEF Keeps
  <2>9. Entitled(pc[w])' BY <2>2 DEF Entitled
  <2> QED BY <1>6, <2>1, <2>4, <2>5, <2>6, <2>7, <2>8, <2>9, PcStep DEF IInv
<1>7. CASE /\ Fault("provider") /\ Block("provider_identity_conflict") /\ Goto(w, "audit_end")
           /\ claim' = [Uncertain EXCEPT !.rev = FALSE] /\ UNCHANGED <<own, sent>>
  <2>1. "provider_identity_conflict" \in Reasons BY Names DEF ProviderReasons
  <2>2. claim' \in ClaimRows /\ claim'.state = "uncertain" BY <1>7, ClaimFacts DEF IInv
  <2>3. faults' \in 0..MaxFaults /\ own' \in OwnStates BY <1>7, FaultFacts DEF IInv, TypeOK
  <2>4. Claimed' => sent BY <1>2
  <2> QED BY <1>1, <1>2, <1>4, <1>5, <1>7, <2>1, <2>2, <2>3, <2>4, BlockedPass
<1>8. CASE /\ Fault("provider")
           /\ att' = [att EXCEPT !.phase = "provider_delete", !.reason = "none", !.gate = TRUE]
           /\ claim' = [Uncertain EXCEPT !.rev = claim.rev /\ att.phase # "blocked"]
           /\ auth' = IF att.phase = "blocked" THEN {} ELSE auth
           /\ Goto(w, "idle") /\ UNCHANGED <<point, own, sent>>
  <2>1. "idle" \in Pcs BY DEF Pcs
  <2>2. pc' \in [Workers -> Pcs] /\ pc'[w] = "idle" BY <1>8, <2>1, GotoFacts DEF IInv
  <2>3. claim' \in ClaimRows /\ claim'.state = "uncertain"
    BY <1>8 DEF IInv, TypeOK, Uncertain, ClaimRows
  <2>4. /\ att' \in AttemptRows /\ att'.op = att.op
        /\ att'.phase = "provider_delete" /\ att'.reason = "none"
    BY <1>8, Names DEF IInv, TypeOK, AttemptRows
  <2>5. faults' \in 0..MaxFaults BY <1>8, FaultFacts DEF IInv
  <2>6. TypeOK' BY <1>1, <1>8, <2>2, <2>3, <2>4, <2>5 DEF IInv, TypeOK
  <2>7. Active' /\ Deletes' /\ Claimed' BY <1>2, <2>3, <2>4 DEF Active, Deletes, Claimed
  <2>8. PhaseInv' BY <1>2, <1>8, <2>4, <2>7 DEF IInv, PhaseInv
  <2>9. QuietInv' BY <1>1, <1>4, <1>8, <2>4 DEF IInv, QuietInv
  <2>10. SentInv' BY <1>1, <1>2, <1>8, <2>3, <2>7 DEF IInv, SentInv
  <2>11. Keeps BY <1>1, <1>4, <1>8, <2>4 DEF Keeps
  <2>12. Entitled(pc[w])' BY <2>2 DEF Entitled
  <2> QED BY <1>8, <2>1, <2>6, <2>8, <2>9, <2>10, <2>11, <2>12, PcStep DEF IInv
<1>9. CASE Fault("provider") /\ Goto(w, "idle") /\ UNCHANGED <<point, att, claim, auth, own, sent>>
  <2>1. "idle" \in Pcs BY DEF Pcs
  <2>2. pc' \in [Workers -> Pcs] /\ pc'[w] = "idle" BY <1>9, <2>1, GotoFacts DEF IInv
  <2>3. faults' \in 0..MaxFaults BY <1>9, FaultFacts DEF IInv
  <2>4. TypeOK' BY <1>1, <1>9, <2>2, <2>3 DEF IInv, TypeOK
  <2>5. PhaseInv' /\ QuietInv' /\ SentInv' /\ Keeps BY <1>1, <1>4, <1>9, RowsKept
  <2>6. Entitled(pc[w])' BY <2>2 DEF Entitled
  <2> QED BY <1>9, <2>1, <2>4, <2>5, <2>6, PcStep DEF IInv
<1>10. CASE /\ att' = [att EXCEPT !.phase = "provider_delete", !.reason = "none"]
            /\ point' = [point EXCEPT !.state = "expiring"]
            /\ own' = "live"
            /\ auth' = IF own # "live" \/ att.phase = "blocked" THEN {} ELSE auth
            /\ claim' = InFlight(w) /\ sent' = TRUE
            /\ Goto(w, "calling") /\ UNCHANGED faults
  <2>1. "calling" \in Pcs BY DEF Pcs
  <2>2. pc' \in [Workers -> Pcs] /\ pc'[w] = "calling" BY <1>10, <2>1, GotoFacts DEF IInv
  <2>3. claim' \in ClaimRows /\ claim'.state = "in_flight" BY <1>10, ClaimFacts DEF IInv
  <2>4. /\ att' \in AttemptRows /\ att'.op = att.op
        /\ att'.phase = "provider_delete" /\ att'.reason = "none"
    BY <1>10, Names DEF IInv, TypeOK, AttemptRows
  <2>5. point' \in PointRows /\ point'.state = "expiring" /\ point'.held = point.held
    BY <1>10, Names DEF IInv, TypeOK, PointRows
  <2>6. TypeOK' BY <1>1, <1>10, <2>2, <2>3, <2>4, <2>5, Names DEF IInv, TypeOK
  <2>7. Active' /\ Deletes' /\ Claimed' BY <1>2, <2>3, <2>4 DEF Active, Deletes, Claimed
  <2>8. PhaseInv' BY <2>4, <2>5, <2>7 DEF PhaseInv
  <2>9. QuietInv' BY <1>1, <1>4, <1>10, <2>4 DEF IInv, QuietInv
  <2>10. SentInv' BY <1>1, <1>2, <1>10, <2>3, <2>4, <2>5, <2>7 DEF IInv, SentInv
  <2>11. Keeps BY <1>1, <1>4, <1>10, <2>4 DEF Keeps
  <2>12. Entitled(pc[w])' BY <1>10, <2>2, <2>4 DEF Entitled
  <2> QED BY <1>10, <2>1, <2>6, <2>8, <2>9, <2>10, <2>11, <2>12, PcStep DEF IInv
<1> QED BY <1>2, <1>6, <1>7, <1>8, <1>9, <1>10 DEF PrepareClaimed, Uncertain

LEMMA ProviderSteps ==
    ASSUME IInv, NEW w \in Workers, ProviderReturns(w) \/ ProviderFails(w) PROVE IInv'
<1>1. pc[w] = "calling" /\ sent /\ Quiet /\ Deletes /\ att.phase # "none"
  BY SentFacts DEF ProviderReturns, ProviderFails, IInv, PcInv, Entitled
<1>2. PICK k \in {"receipt", "uncertain"} : Goto(w, k) /\ (k = "receipt" => gone' = TRUE)
  BY DEF ProviderReturns, ProviderFails
<1>3. /\ UNCHANGED <<point, att, own, claim, tomb, slots, lease, auth, sent>>
      /\ gone' = gone \/ gone' = TRUE
      /\ faults' = faults \/ Fault("provider")
  BY DEF ProviderReturns, ProviderFails
<1>4. k \in Pcs BY DEF Pcs
<1>5. pc' \in [Workers -> Pcs] /\ pc'[w] = k BY <1>2, <1>4, GotoFacts DEF IInv
<1>6. faults' \in 0..MaxFaults BY <1>3, FaultFacts DEF IInv, TypeOK
<1>7. Quiet' BY <1>1, <1>3 DEF Quiet
<1>8. TypeOK' BY <1>3, <1>5, <1>6 DEF IInv, TypeOK
<1>9. PhaseInv' BY <1>3 DEF IInv, PhaseInv, Active, Deletes, Proven, Claimed
<1>10. QuietInv' BY <1>3, <1>7 DEF IInv, QuietInv
<1>11. SentInv' BY <1>1, <1>3 DEF IInv, SentInv, Claimed, Deletes
<1>12. Keeps BY <1>3, <1>7 DEF Keeps
<1>13. Entitled(pc[w])' BY <1>1, <1>2, <1>3, <1>5 DEF Entitled
<1> QED BY <1>2, <1>4, <1>8, <1>9, <1>10, <1>11, <1>12, <1>13, PcStep DEF IInv

LEMMA ReceiptStep ==
    ASSUME IInv, NEW w \in Workers, Receipt(w) PROVE IInv'
<1>1. gone /\ sent /\ Quiet /\ Deletes /\ ~point.held /\ att.phase # "none"
  BY SentFacts DEF Receipt, IInv, PcInv, Entitled
<1>2. UNCHANGED <<slots, lease, sent, gone>> BY DEF Receipt
<1>3. Quiet' BY <1>1, <1>2 DEF Quiet
<1>4. CASE /\ ~Proven /\ ReceiptAccepted(w)
           /\ tomb' = tomb \cup {att.op} /\ claim' = [claim EXCEPT !.state = "proven"]
           /\ Goto(w, "confirm") /\ UNCHANGED <<point, att, own, auth, faults>>
  <2>1. "confirm" \in Pcs BY DEF Pcs
  <2>2. pc' \in [Workers -> Pcs] /\ pc'[w] = "confirm" BY <1>4, <2>1, GotoFacts DEF IInv
  <2>3. claim' \in ClaimRows /\ claim'.state = "proven" /\ Claimed'
    BY <1>4 DEF IInv, TypeOK, ClaimRows, Claimed
  <2>4. att.op \in Operations BY DEF IInv, TypeOK, AttemptRows
  <2>5. TypeOK' BY <1>2, <1>4, <2>2, <2>3, <2>4 DEF IInv, TypeOK
  <2>6. PhaseInv' BY <1>1, <1>4, <2>3 DEF IInv, PhaseInv, Active, Deletes, Proven
  <2>7. QuietInv' BY <1>1, <1>2, <1>3, <1>4 DEF IInv, QuietInv
  <2>8. SentInv' BY <1>1, <1>2, <1>4, <2>3 DEF IInv, SentInv, Deletes
  <2>9. Keeps BY <1>2, <1>3, <1>4 DEF Keeps
  <2>10. Entitled(pc[w])' BY <1>1, <1>4, <2>2 DEF Entitled, Proven, Deletes
  <2> QED BY <1>4, <2>1, <2>5, <2>6, <2>7, <2>8, <2>9, <2>10, PcStep DEF IInv
<1>5. CASE /\ (\E k \in {"confirm", "uncertain"} : Goto(w, k) /\ (k = "confirm" => Proven))
           /\ UNCHANGED <<point, att, own, claim, tomb, auth>>
           /\ faults' = faults \/ Fault("provider")
  <2>1. PICK k \in {"confirm", "uncertain"} : Goto(w, k) /\ (k = "confirm" => Proven) BY <1>5
  <2>2. k \in Pcs BY DEF Pcs
  <2>3. pc' \in [Workers -> Pcs] /\ pc'[w] = k BY <2>1, <2>2, GotoFacts DEF IInv
  <2>4. faults' \in 0..MaxFaults BY <1>5, FaultFacts DEF IInv, TypeOK
  <2>5. TypeOK' BY <1>2, <1>5, <2>3, <2>4 DEF IInv, TypeOK
  <2>6. PhaseInv' /\ QuietInv' /\ SentInv' /\ Keeps BY <1>2, <1>3, <1>5, RowsKept
  <2>7. Entitled(pc[w])' BY <1>1, <1>2, <1>5, <2>1, <2>3 DEF Entitled, Proven, Deletes
  <2> QED BY <2>1, <2>2, <2>5, <2>6, <2>7, PcStep DEF IInv
<1> QED BY <1>1, <1>4, <1>5 DEF Receipt

LEMMA MarkUncertainStep ==
    ASSUME IInv, NEW w \in Workers, MarkUncertain(w) PROVE IInv'
<1> DEFINE g == att.gate \/ att.phase = "provider_delete"
<1>1. /\ Goto(w, "idle") /\ UNCHANGED <<point, own, tomb, slots, lease, auth, sent, gone, faults>>
      /\ \/ Claimed /\ claim' = Uncertain /\ att' = [att EXCEPT !.gate = g]
         \/ UNCHANGED <<att, claim>>
  BY DEF MarkUncertain
<1>2. /\ att' \in AttemptRows
      /\ att'.op = att.op /\ att'.phase = att.phase /\ att'.reason = att.reason
  <2>1. g \in BOOLEAN BY DEF IInv, TypeOK, AttemptRows
  <2> HIDE DEF g
  <2> QED BY <1>1, <2>1 DEF IInv, TypeOK, AttemptRows
<1>3. claim' \in ClaimRows /\ ((claim'.state = "uncertain" /\ Claimed) \/ claim' = claim)
  BY <1>1, ClaimFacts DEF IInv, TypeOK
<1> HIDE DEF g
<1>4. "idle" \in Pcs BY DEF Pcs
<1>5. pc' \in [Workers -> Pcs] /\ pc'[w] = "idle" BY <1>1, <1>4, GotoFacts DEF IInv
<1>6. Quiet' <=> Quiet BY <1>1 DEF Quiet
<1>7. TypeOK' BY <1>1, <1>2, <1>3, <1>5 DEF IInv, TypeOK
<1>8. Claimed' <=> Claimed BY <1>3 DEF Claimed
<1>9. PhaseInv' BY <1>1, <1>2, <1>8 DEF IInv, PhaseInv, Active, Deletes, Proven
<1>10. QuietInv' BY <1>1, <1>2, <1>6 DEF IInv, QuietInv, Ordinary
<1>11. SentInv' BY <1>1, <1>2, <1>3, <1>8 DEF IInv, SentInv, Deletes
<1>12. Keeps BY <1>1, <1>2, <1>6 DEF Keeps
<1>13. Entitled(pc[w])' BY <1>5 DEF Entitled
<1> QED BY <1>1, <1>4, <1>7, <1>9, <1>10, <1>11, <1>12, <1>13, PcStep DEF IInv

LEMMA ResumeStep ==
    ASSUME IInv, NEW w \in Workers, Resume(w) PROVE IInv'
<1>1. UNCHANGED <<tomb, slots, lease, sent, gone, faults>> BY DEF Resume
<1>2. Quiet' <=> Quiet BY <1>1 DEF Quiet
<1>3. lease' \in [Readers -> LeaseStates] /\ faults' \in 0..MaxFaults
  BY <1>1 DEF IInv, TypeOK
<1>4. \A rot \in BOOLEAN : claim' = Outdated(rot) =>
         claim' \in ClaimRows /\ claim'.state = claim.state /\ ~claim'.rev
  BY OutdatedFacts DEF IInv
<1>5. claim'.state = claim.state => (Claimed' => sent) BY SentFacts DEF Claimed
<1>6. CASE Goto(w, "idle") /\ UNCHANGED <<point, att>> /\ own' \in OwnStates /\ auth' \in {auth, {}}
           /\ (claim' = claim \/ claim' = Outdated(TRUE))
  <2>1. "idle" \in Pcs BY DEF Pcs
  <2>2. pc' \in [Workers -> Pcs] /\ pc'[w] = "idle" BY <1>6, <2>1, GotoFacts DEF IInv
  <2>3. /\ claim' \in ClaimRows /\ claim'.state = claim.state
        /\ claim' = claim \/ ~claim'.rev
    BY <1>4, <1>6 DEF IInv, TypeOK
  <2>4. TypeOK' BY <1>1, <1>3, <1>6, <2>2, <2>3 DEF IInv, TypeOK
  <2>5. PhaseInv' BY <1>1, <1>6, <2>3 DEF IInv, PhaseInv, Active, Deletes, Proven, Claimed
  <2>6. QuietInv' BY <1>1, <1>2, <1>6 DEF IInv, QuietInv
  <2>7. SentInv' BY <1>1, <1>6, <2>3 DEF IInv, SentInv, Claimed, Deletes
  <2>8. Keeps BY <1>1, <1>2, <1>6 DEF Keeps
  <2>9. Entitled(pc[w])' BY <2>2 DEF Entitled
  <2> QED BY <1>6, <2>1, <2>4, <2>5, <2>6, <2>7, <2>8, <2>9, PcStep DEF IInv
<1>7. CASE /\ att.phase = "blocked" /\ Goto(w, "idle") /\ own' \in OwnStates
           /\ \E rs \in {"fence_lost", "active_hold"} : Block(rs)
           /\ \E rot \in BOOLEAN : claim' = Outdated(rot)
  <2>1. Active BY <1>7 DEF Active
  <2>2. PICK rs \in Reasons \ ProviderReasons : Block(rs) BY <1>7, Names DEF ProviderReasons
  <2> QED BY <1>1, <1>2, <1>3, <1>4, <1>5, <1>7, <2>1, <2>2, BlockedPass
<1>8. CASE /\ att.phase = "blocked" /\ own' = "live" /\ Move(ResumePhase) /\ Goto(w, "advance")
           /\ \E rot \in BOOLEAN : claim' = Outdated(rot)
           /\ point' = IF Deletes /\ ResumePhase # "tombstoning"
                       THEN [point EXCEPT !.state = "expiring"] ELSE point
  <2>1. Active BY <1>8 DEF Active
  <2>2. ResumePhase \in {"tombstoning", "provider_delete", "draining", "revoking"}
    BY DEF ResumePhase
  <2>3. ResumePhase \in Phases \ {"none", "blocked", "complete"}
    BY <2>2, Names
  <2>4. ResumePhase = "tombstoning" => Quiet
    <3>1. ResumePhase = "tombstoning" => Proven BY DEF ResumePhase
    <3> QED BY <3>1, SentFacts
  <2>5. ResumePhase = "provider_delete" => Quiet /\ Deletes
    <3>1. ResumePhase = "provider_delete" => att.reason \in ProviderReasons BY DEF ResumePhase
    <3> QED BY <1>8, <3>1 DEF IInv, QuietInv, PhaseInv
  <2>6. /\ point' \in PointRows /\ point'.held = point.held
        /\ Deletes /\ ResumePhase # "tombstoning" => point'.state = "expiring"
        /\ point'.state = point.state \/ (Deletes /\ point'.state = "expiring")
    BY <1>8, Names DEF IInv, TypeOK, PointRows
  <2>7. own' \in OwnStates BY <1>8, Names
  <2>8. ResumePhase # "cleaning" BY <2>2
  <2> HIDE DEF ResumePhase
  <2> QED BY <1>1, <1>2, <1>3, <1>4, <1>8, <2>1, <2>3, <2>4, <2>5, <2>6, <2>7, <2>8, MovedPass
<1>9. own \in OwnStates /\ "live" \in OwnStates BY Names DEF IInv, TypeOK
<1> QED BY <1>6, <1>7, <1>8, <1>9 DEF Resume

\* The attempt ends: its point is expired, or retired.
LEMMA CompleteSteps ==
    ASSUME IInv, NEW w \in Workers, CompleteDelete(w) \/ CompleteRetire(w) PROVE IInv'
<1>0. Active /\ att.phase = "tombstoning" BY DEF CompleteDelete, CompleteRetire, Active
<1>1. CASE Refuse(w) /\ UNCHANGED <<tomb, slots, sent, gone, faults>>
  BY <1>0, <1>1, RefuseStep
<1>2. CASE /\ att' = [att EXCEPT !.phase = "complete"] /\ auth' = {}
           /\ \E s \in {"expired", "retired"} :
                 /\ s = "expired" => Deletes /\ Proven
                 /\ s = "retired" => ~Deletes
                 /\ point' = [point EXCEPT !.state = s]
           /\ own' \in OwnStates /\ claim' = Outdated(FALSE)
           /\ Goto(w, "idle") /\ UNCHANGED <<tomb, slots, lease, sent, gone, faults>>
  <2>1. "idle" \in Pcs BY DEF Pcs
  <2>2. pc' \in [Workers -> Pcs] /\ pc'[w] = "idle" BY <1>2, <2>1, GotoFacts DEF IInv
  <2>3. claim' \in ClaimRows /\ claim'.state = claim.state /\ ~claim'.rev
    BY <1>2, OutdatedFacts DEF IInv
  <2>4. att' \in AttemptRows /\ att'.op = att.op /\ att'.phase = "complete" /\ att'.reason = att.reason
    BY <1>2, Names DEF IInv, TypeOK, AttemptRows
  <2>5. /\ point' \in PointRows /\ point'.held = point.held
        /\ IF Deletes THEN point'.state = "expired" /\ Proven ELSE point'.state = "retired"
    BY <1>2, Names DEF IInv, TypeOK, PointRows
  <2>6. Quiet' <=> Quiet BY <1>2 DEF Quiet
  <2>7. ~Active' /\ (Deletes' <=> Deletes) /\ (Proven' <=> Proven)
    BY <1>2, <2>4 DEF Active, Deletes, Proven
  <2>8. TypeOK' BY <1>2, <2>2, <2>3, <2>4, <2>5 DEF IInv, TypeOK
  <2>9. PhaseInv' BY <2>4, <2>5, <2>7 DEF IInv, PhaseInv
  <2>10. QuietInv' BY <1>0, <1>2, <2>4, <2>6 DEF IInv, QuietInv
  <2>11. SentInv' BY <1>2, <2>3, <2>5, <2>7 DEF IInv, SentInv, Claimed
  <2>12. Keeps BY <1>2, <2>4, <2>6 DEF Keeps
  <2>13. Entitled(pc[w])' BY <2>2 DEF Entitled
  <2> QED BY <1>2, <2>1, <2>8, <2>9, <2>10, <2>11, <2>12, <2>13, PcStep DEF IInv
<1>3. CASE CompleteDelete(w)
  <2>1. ~point.held BY <1>3, SentFacts DEF CompleteDelete
  <2> QED BY <1>2, <1>3, <2>1, SettledFacts DEF CompleteDelete, IInv
<1>4. CASE CompleteRetire(w)
  BY <1>1, <1>2, <1>4, Names DEF CompleteRetire
<1> QED BY <1>3, <1>4

LEMMA CrashStep ==
    ASSUME IInv, NEW w \in Workers, Crash(w) PROVE IInv'
<1>1. /\ Goto(w, "idle") /\ auth' = auth \ {w} /\ Fault("crash")
      /\ UNCHANGED <<point, att, own, claim, tomb, slots, lease, sent, gone>>
  BY DEF Crash
<1>2. "idle" \in Pcs BY DEF Pcs
<1>3. pc' \in [Workers -> Pcs] /\ pc'[w] = "idle" BY <1>1, <1>2, GotoFacts DEF IInv
<1>4. faults' \in 0..MaxFaults BY <1>1, FaultFacts DEF IInv
<1>5. TypeOK' BY <1>1, <1>3, <1>4 DEF IInv, TypeOK
<1>6. Quiet => Quiet' BY <1>1 DEF Quiet
<1>7. PhaseInv' /\ QuietInv' /\ SentInv' /\ Keeps BY <1>1, <1>6, RowsKept
<1>8. Entitled(pc[w])' BY <1>3 DEF Entitled
<1> QED BY <1>1, <1>2, <1>5, <1>7, <1>8, PcStep DEF IInv

LEMMA WorkerSteps ==
    ASSUME IInv, NEW w \in Workers, WorkerStep(w) PROVE IInv'
BY AuditActions, PcOnlyActions, ScheduleAuditRetryStep, ProgressProofStep, HeartbeatStep, SelectStep,
   PrepareEffectStep, SettleContentStep, EffectDoneStep, EffectFailedStep, EffectOutlivedStep, DrainStep,
   PrepareUnclaimedStep, PrepareClaimedStep, ProviderSteps, ReceiptStep, MarkUncertainStep, ResumeStep,
   CompleteSteps
   DEF WorkerStep

-----------------------------------------------------------------------------
(* Readers, holds, time, and the start of an attempt. *)

\* Steps that leave the attempt and the workers alone and take no "none" back.
LEMMA LeaseOnly ==
    ASSUME IInv, lease' \in [Readers -> LeaseStates],
           \A r \in Readers : lease[r] = "none" => lease'[r] = "none",
           own' \in OwnStates, faults' \in 0..MaxFaults,
           UNCHANGED <<point, att, claim, tomb, slots, pc, auth, sent, gone>>
    PROVE  IInv'
<1>1. Quiet => Quiet' BY DEF Quiet
<1>2. PhaseInv' /\ QuietInv' /\ SentInv' BY <1>1, RowsKept
<1>3. TypeOK' BY DEF IInv, TypeOK
<1>4. PcInv' BY <1>1 DEF IInv, PcInv, Entitled, Deletes, Proven
<1> QED BY <1>2, <1>3, <1>4 DEF IInv

LEMMA ReaderSteps ==
    ASSUME IInv, NEW r \in Readers, ReaderStep(r) PROVE IInv'
<1>1. CASE Acquire(r)
  <2>1. /\ Admitted /\ lease' = [lease EXCEPT ![r] = "live"]
        /\ UNCHANGED <<point, att, own, claim, tomb, slots, pc, auth, sent, gone, faults>>
    BY <1>1 DEF Acquire
  <2>2. point.state = "readable" /\ att.phase = "none"
    BY <2>1 DEF Admitted, Active, IInv, PhaseInv
  <2>3. ~sent /\ "mutable_retire" \notin tomb BY <2>2 DEF IInv, QuietInv
  <2>4. TypeOK' BY <2>1, Names DEF IInv, TypeOK
  <2>5. PhaseInv' BY <2>1 DEF IInv, PhaseInv, Active, Deletes, Proven, Claimed
  <2>6. QuietInv' BY <2>1, <2>2, <2>3 DEF QuietInv
  <2>7. SentInv' BY <2>1 DEF IInv, SentInv, Claimed, Deletes
  <2>8. PcInv' BY <2>1, <2>2 DEF IInv, PcInv, Entitled
  <2> QED BY <2>4, <2>5, <2>6, <2>7, <2>8 DEF IInv
<1>2. CASE ReleaseLease(r) \/ LapseLease(r) \/ TakeoverLease(r) \/ EndLease(r)
  <2>1. PICK s \in LeaseStates : lease' = [lease EXCEPT ![r] = s] /\ lease[r] # "none"
    BY <1>2, Names DEF ReleaseLease, LapseLease, TakeoverLease, EndLease
  <2>2. UNCHANGED <<point, att, own, claim, tomb, slots, pc, auth, sent, gone, faults>>
    BY <1>2 DEF ReleaseLease, LapseLease, TakeoverLease, EndLease
  <2>3. lease' \in [Readers -> LeaseStates] /\ \A q \in Readers : lease[q] = "none" => lease'[q] = "none"
    BY <2>1 DEF IInv, TypeOK
  <2>4. own' \in OwnStates /\ faults' \in 0..MaxFaults BY <2>2 DEF IInv, TypeOK
  <2> QED BY <2>2, <2>3, <2>4, LeaseOnly
<1> QED BY <1>1, <1>2 DEF ReaderStep

LEMMA ReconcileStep ==
    ASSUME IInv, ReconcileExpired PROVE IInv'
<1>1. /\ lease' \in [Readers -> LeaseStates] /\ own' \in OwnStates /\ faults' \in 0..MaxFaults
      /\ \A r \in Readers : lease[r] = "none" => lease'[r] = "none"
  BY Names DEF ReconcileExpired, IInv, TypeOK
<1> QED BY <1>1, LeaseOnly DEF ReconcileExpired

LEMMA HoldSteps ==
    ASSUME IInv, CreateHold \/ ReleaseHold PROVE IInv'
<1>1. PICK h \in BOOLEAN : point' = [point EXCEPT !.held = h] /\ (h => Admitted)
  BY DEF CreateHold, ReleaseHold
<1>2. UNCHANGED <<att, own, claim, tomb, slots, lease, pc, auth, sent, gone, faults>>
  BY DEF CreateHold, ReleaseHold
<1>3. point' \in PointRows /\ point'.state = point.state /\ point'.held = h
  BY <1>1 DEF IInv, TypeOK, PointRows
<1>4. sent => ~h
  <2>1. h => att.phase = "none" BY <1>1 DEF Admitted, Active, IInv, PhaseInv
  <2> QED BY <2>1 DEF IInv, QuietInv
<1>5. Quiet' <=> Quiet BY <1>2 DEF Quiet
<1>6. TypeOK' BY <1>2, <1>3 DEF IInv, TypeOK
<1>7. PhaseInv' BY <1>2, <1>3 DEF IInv, PhaseInv, Active, Deletes, Proven, Claimed
<1>8. QuietInv' BY <1>2, <1>5 DEF IInv, QuietInv
<1>9. SentInv' BY <1>2, <1>3, <1>4 DEF IInv, SentInv, Claimed, Deletes
<1>10. PcInv' BY <1>2, <1>5 DEF IInv, PcInv, Entitled, Deletes, Proven
<1> QED BY <1>6, <1>7, <1>8, <1>9, <1>10 DEF IInv

LEMMA ClaimAttemptStep ==
    ASSUME IInv, NEW op \in Operations, ClaimAttempt(op) PROVE IInv'
<1>1. /\ ~Active /\ ClaimAllowed(op) /\ own' = "live" /\ claim' = NoClaim /\ slots' = {}
      /\ pc' = [w \in Workers |-> "idle"] /\ auth' = {}
      /\ UNCHANGED <<tomb, lease, sent, gone, faults>>
  BY DEF ClaimAttempt
<1>2. point.state \in {"readable", "retired"} /\ (op = "mutable_retire" => point.state = "readable")
  BY <1>1 DEF ClaimAllowed, Operations
<1>3. ~sent
  BY <1>1, <1>2 DEF IInv, QuietInv, SentInv, PhaseInv, Active
<1>4. ~gone /\ (\A o \in tomb : o = "mutable_retire")
  BY <1>3 DEF IInv, SentInv
<1>5. op = "mutable_retire" => tomb = {}
  BY <1>1, <1>2 DEF IInv, PhaseInv, Active
<1>6. /\ att' \in AttemptRows /\ att'.op = op
      /\ \/ att'.phase = "blocked" /\ att'.reason = "active_hold" /\ op = "explicit_purge"
            /\ point' = [point EXCEPT !.state = "purge_blocked"]
         \/ att'.phase = "selected" /\ att'.reason = "none"
            /\ point' = IF op = "mutable_retire" THEN point ELSE [point EXCEPT !.state = "expiring"]
  <2>1. CASE op = "explicit_purge" /\ point.held
    <3>1. /\ att' = [op |-> op, phase |-> "blocked", reason |-> "active_hold", gate |-> TRUE]
          /\ point' = [point EXCEPT !.state = "purge_blocked"]
      BY <2>1 DEF ClaimAttempt
    <3> QED BY <2>1, <3>1, Names DEF AttemptRows
  <2>2. CASE ~(op = "explicit_purge" /\ point.held)
    <3>1. /\ att' = [op |-> op, phase |-> "selected", reason |-> "none", gate |-> FALSE]
          /\ point' = IF op = "mutable_retire" THEN point ELSE [point EXCEPT !.state = "expiring"]
      BY <2>2 DEF ClaimAttempt
    <3> QED BY <3>1, Names DEF AttemptRows
  <2> QED BY <2>1, <2>2
<1>7. /\ point' \in PointRows
      /\ op # "mutable_retire" /\ att'.phase = "blocked" => point'.state = "purge_blocked"
      /\ op # "mutable_retire" /\ att'.phase = "selected" => point'.state = "expiring"
      /\ op = "mutable_retire" => point'.state = "readable"
  BY <1>2, <1>6, Names DEF IInv, TypeOK, PointRows
<1>8. claim' \in ClaimRows /\ claim'.state = "none" BY <1>1 DEF NoClaim, ClaimRows
<1>9. Quiet' <=> Quiet BY <1>1 DEF Quiet
<1>10. TypeOK'
  <2>1. pc' \in [Workers -> Pcs] BY <1>1 DEF Pcs
  <2> QED BY <1>1, <1>6, <1>7, <1>8, <2>1, Names DEF IInv, TypeOK
<1>11. Active' /\ (Deletes' <=> op # "mutable_retire") /\ ~Claimed'
  BY <1>6, <1>8 DEF Active, Deletes, Claimed
<1>12. PhaseInv' BY <1>6, <1>7, <1>11 DEF PhaseInv, ProviderReasons
<1>13. QuietInv' BY <1>1, <1>3, <1>6, <1>9 DEF IInv, QuietInv, ProviderReasons
<1>14. SentInv' BY <1>1, <1>3, <1>4, <1>8, <1>11 DEF SentInv
<1>15. PcInv' BY <1>1 DEF PcInv, Entitled
<1> QED BY <1>10, <1>12, <1>13, <1>14, <1>15 DEF IInv

LEMMA GateOpensStep ==
    ASSUME IInv, GateOpens PROVE IInv'
<1>1. /\ att' = [att EXCEPT !.gate = FALSE]
      /\ UNCHANGED <<point, own, claim, tomb, slots, lease, pc, auth, sent, gone, faults>>
  BY DEF GateOpens
<1>2. /\ att' \in AttemptRows
      /\ att'.op = att.op /\ att'.phase = att.phase /\ att'.reason = att.reason
  BY <1>1 DEF IInv, TypeOK, AttemptRows
<1>3. Quiet' <=> Quiet BY <1>1 DEF Quiet
<1>4. TypeOK' BY <1>1, <1>2 DEF IInv, TypeOK
<1>5. PhaseInv' BY <1>1, <1>2 DEF IInv, PhaseInv, Active, Deletes, Proven, Claimed
<1>6. QuietInv' BY <1>1, <1>2, <1>3 DEF IInv, QuietInv, Ordinary
<1>7. SentInv' BY <1>1, <1>2 DEF IInv, SentInv, Claimed, Deletes
<1>8. PcInv' BY <1>1, <1>2, <1>3 DEF IInv, PcInv, Entitled, Deletes, Proven
<1> QED BY <1>4, <1>5, <1>6, <1>7, <1>8 DEF IInv

LEMMA DeleteLandsStep ==
    ASSUME IInv, DeleteLands PROVE IInv'
<1>1. /\ sent /\ gone' = TRUE
      /\ UNCHANGED <<point, att, own, claim, tomb, slots, lease, pc, auth, sent, faults>>
  BY DEF DeleteLands
<1>2. Quiet' <=> Quiet BY <1>1 DEF Quiet
<1>3. TypeOK' BY <1>1 DEF IInv, TypeOK
<1>4. PhaseInv' BY <1>1 DEF IInv, PhaseInv, Active, Deletes, Proven, Claimed
<1>5. QuietInv' BY <1>1, <1>2 DEF IInv, QuietInv
<1>6. SentInv' BY <1>1 DEF IInv, SentInv, Claimed, Deletes
<1>7. PcInv' BY <1>1, <1>2 DEF IInv, PcInv, Entitled, Deletes, Proven
<1> QED BY <1>3, <1>4, <1>5, <1>6, <1>7 DEF IInv

\* Lapses touch the worker's lease and the claim's deadline only.
LEMMA LapseSteps ==
    ASSUME IInv, ClaimLapses \/ FenceLapses \/ DeadlinePasses PROVE IInv'
<1>1. /\ claim' = [claim EXCEPT !.live = FALSE]
      /\ UNCHANGED <<point, att, tomb, slots, lease, pc, auth, sent, gone>>
      /\ own' = own \/ own' \in {"live", "lapsed", "over"}
      /\ faults' = faults \/ \E f \in FaultKinds : Fault(f)
  BY DEF ClaimLapses, FenceLapses, DeadlinePasses, FaultKinds
<1>2. claim' \in ClaimRows /\ claim'.state = claim.state /\ claim'.rev = claim.rev
  BY <1>1 DEF IInv, TypeOK, ClaimRows
<1>3. own' \in OwnStates BY <1>1, Names DEF IInv, TypeOK
<1>4. faults' \in 0..MaxFaults BY <1>1, FaultFacts DEF IInv, TypeOK
<1>5. Quiet' <=> Quiet BY <1>1 DEF Quiet
<1>6. TypeOK' BY <1>1, <1>2, <1>3, <1>4 DEF IInv, TypeOK
<1>7. PhaseInv' BY <1>1, <1>2 DEF IInv, PhaseInv, Active, Deletes, Proven, Claimed
<1>8. QuietInv' BY <1>1, <1>5 DEF IInv, QuietInv
<1>9. SentInv' BY <1>1, <1>2 DEF IInv, SentInv, Claimed, Deletes
<1>10. PcInv' BY <1>1, <1>5 DEF IInv, PcInv, Entitled, Deletes, Proven
<1> QED BY <1>6, <1>7, <1>8, <1>9, <1>10 DEF IInv

-----------------------------------------------------------------------------
(* The invariants. *)

LEMMA InitInv == Init => IInv
<1> SUFFICES ASSUME Init PROVE IInv OBVIOUS
<1>1. TypeOK
  <2>1. point \in PointRows /\ att \in AttemptRows /\ claim \in ClaimRows
    BY DEF Init, PointRows, AttemptRows, ClaimRows, NoClaim, PointStates, Operations, Phases, Reasons
  <2>2. /\ own \in OwnStates /\ lease \in [Readers -> LeaseStates] /\ pc \in [Workers -> Pcs]
        /\ faults \in 0..MaxFaults
    BY LifecycleAssumption DEF Init, OwnStates, LeaseStates, Pcs
  <2> QED BY <2>1, <2>2 DEF Init, TypeOK
<1>2. att.phase = "none" /\ Deletes /\ ~Active /\ ~Claimed /\ point.state = "readable"
  BY DEF Init, Deletes, Active, Claimed, NoClaim
<1>3. PhaseInv BY <1>2 DEF Init, PhaseInv
<1>4. QuietInv BY <1>2 DEF Init, QuietInv
<1>5. SentInv BY <1>2 DEF Init, SentInv, Claimed
<1>6. PcInv BY DEF Init, PcInv, Entitled
<1> QED BY <1>1, <1>3, <1>4, <1>5, <1>6 DEF IInv

LEMMA NextInv == IInv /\ [Next]_vars => IInv'
<1> SUFFICES ASSUME IInv, [Next]_vars PROVE IInv' OBVIOUS
<1>1. CASE UNCHANGED vars
  <2>1. UNCHANGED <<point, att, own, claim, tomb, slots, lease, pc, auth, sent, gone, faults>>
    BY <1>1 DEF vars
  <2>2. lease' \in [Readers -> LeaseStates] /\ own' \in OwnStates /\ faults' \in 0..MaxFaults
    BY <2>1 DEF IInv, TypeOK
  <2> QED BY <2>1, <2>2, LeaseOnly
<1>2. CASE Next
  BY <1>2, WorkerSteps, CrashStep, ReaderSteps, ClaimAttemptStep, HoldSteps, ReconcileStep,
     GateOpensStep, DeleteLandsStep, LapseSteps
     DEF Next
<1> QED BY <1>1, <1>2

LEMMA Invariance == Spec => []IInv
BY InitInv, NextInv, PTL DEF Spec

\* Every reachable state is well typed: no transaction writes a row outside the
\* schema's value sets, whatever the interleaving (PointLifecycle!TypeOK).
THEOREM PointTypes == Spec => []TypeOK
<1>1. IInv => TypeOK BY DEF IInv
<1> QED BY <1>1, Invariance, PTL

\* No delete is issued or lands while a lease or a hold is active, for any number
\* of workers, readers and faults: admission, drain and cleanup together suffice.
THEOREM PointUnread == Spec => []DeleteIsUnread
<1>1. IInv => DeleteIsUnread
  BY DEF IInv, QuietInv, SentInv, Quiet, DeleteIsUnread
<1> QED BY <1>1, Invariance, PTL

\* Tombstones and the state expired are never written for bytes the provider
\* still has, whichever worker persisted the receipt.
THEOREM PointProven == Spec => []ProofIsTrue
<1>1. IInv => ProofIsTrue
  <2> SUFFICES ASSUME IInv PROVE ProofIsTrue OBVIOUS
  <2>1. tomb \ {"mutable_retire"} # {} => gone BY DEF IInv, SentInv
  <2>2. point.state = "expired" => Proven /\ Deletes BY DEF IInv, PhaseInv, Active
  <2> QED BY <2>1, <2>2 DEF ProofIsTrue
<1> QED BY <1>1, Invariance, PTL

\* The point's state always shows what its attempt does, so an accepted receipt
\* always finds the point expiring.
THEOREM PointShown == Spec => []PointShowsAttempt
<1>1. IInv => PointShowsAttempt
  BY DEF IInv, PhaseInv, SentInv, PointShowsAttempt, ClaimCurrent, Active
<1> QED BY <1>1, Invariance, PTL

-----------------------------------------------------------------------------
(* A current claim is kept. *)

LEMMA ExecKept ==
    ASSUME IInv, ClaimCurrent, [Next]_vars PROVE claim'.exec = claim.exec
<1>0. Claimed /\ Active /\ claim \in ClaimRows
  BY DEF ClaimCurrent, Claimed, Active, IInv, SentInv, TypeOK
<1>1. \A rot \in BOOLEAN : Outdated(rot).exec = claim.exec
  BY <1>0 DEF Outdated, ClaimRows
<1>2. Uncertain.exec = claim.exec /\ (\A v \in BOOLEAN : [Uncertain EXCEPT !.rev = v].exec = claim.exec)
  BY <1>0 DEF Uncertain, ClaimRows
<1>3. CASE UNCHANGED vars BY <1>3 DEF vars
<1>4. ASSUME NEW w \in Workers, WorkerStep(w) PROVE claim'.exec = claim.exec
  <2>1. CASE Flush(w) \/ AuditAfterProof(w) \/ AuditAfterBlock(w) \/ AuditBeforeRetry(w)
    BY <2>1 DEF Flush, AuditAfterProof, AuditAfterBlock, AuditBeforeRetry, WriteAudit
  <2>2. CASE ScheduleAuditRetry(w) \/ Dispatch(w) \/ PrepareNothing(w) \/ RetryBlocked(w)
             \/ ProviderReturns(w) \/ ProviderFails(w) \/ (\E r \in Readers : SettleContent(w, r))
    BY <2>2 DEF ScheduleAuditRetry, Dispatch, PrepareNothing, RetryBlocked, ProviderReturns,
                ProviderFails, SettleContent
  <2>3. CASE ProgressProof(w) BY <1>1, <2>3 DEF ProgressProof
  <2>4. CASE Heartbeat(w) BY <2>4 DEF Heartbeat
  <2>5. CASE Select(w) \/ Drain(w) \/ PrepareEffect(w)
    BY <1>1, <2>5 DEF Select, Drain, PrepareEffect, Refuse, Refence
  <2>6. CASE EffectDone(w) \/ EffectFailed(w) \/ EffectOutlived(w)
    BY <1>1, <2>6 DEF EffectDone, EffectFailed, EffectOutlived
  <2>7. CASE PrepareUnclaimed(w) \/ PrepareClaimed(w)
    BY <1>0, <2>7 DEF PrepareUnclaimed, PrepareClaimed, TakeoverAllowed
  <2>8. CASE Receipt(w) BY <1>0, <2>8 DEF Receipt, ClaimRows
  <2>9. CASE MarkUncertain(w) BY <1>2, <2>9 DEF MarkUncertain
  <2>10. CASE Resume(w) BY <1>1, <2>10 DEF Resume
  <2>11. CASE CompleteDelete(w) \/ CompleteRetire(w)
    BY <1>1, <2>11 DEF CompleteDelete, CompleteRetire, Refuse, Refence
  <2> QED BY <1>4, <2>1, <2>2, <2>3, <2>4, <2>5, <2>6, <2>7, <2>8, <2>9, <2>10, <2>11 DEF WorkerStep
<1>5. ASSUME NEW w \in Workers, Crash(w) PROVE claim' = claim BY <1>5 DEF Crash
<1>6. ASSUME NEW r \in Readers, ReaderStep(r) PROVE claim' = claim
  BY <1>6 DEF ReaderStep, Acquire, ReleaseLease, LapseLease, TakeoverLease, EndLease
<1>7. ASSUME NEW op \in Operations, ClaimAttempt(op) PROVE FALSE BY <1>0, <1>7 DEF ClaimAttempt
<1>8. CASE CreateHold \/ ReleaseHold \/ ReconcileExpired \/ GateOpens \/ DeleteLands
  BY <1>8 DEF CreateHold, ReleaseHold, ReconcileExpired, GateOpens, DeleteLands
<1>9. CASE ClaimLapses \/ FenceLapses \/ DeadlinePasses
  BY <1>0, <1>9 DEF ClaimLapses, FenceLapses, DeadlinePasses, ClaimRows
<1> QED BY <1>3, <1>4, <1>5, <1>6, <1>7, <1>8, <1>9 DEF Next

\* However many workers and faults there are, nobody takes over a deletion whose
\* claim is current.
THEOREM PointClaimKept == Spec => LiveClaimKept
<1>1. IInv /\ [Next]_vars => [ClaimCurrent => claim'.exec = claim.exec]_vars BY ExecKept
<1> QED BY <1>1, Invariance, PTL DEF Spec, LiveClaimKept

-----------------------------------------------------------------------------
(* PointLifecycle implements RecoveryPoint. *)

\* Inside an attempt nothing shows but leaving readers.
Inner ==
    /\ point'.held = point.held /\ gone' = gone
    /\ Reading' \subseteq Reading
    /\ \/ Active /\ Active'
       \/ att'.phase = att.phase /\ point'.state = point.state

LEMMA InnerLeaves ==
    ASSUME Inner PROVE Abstract!Leave
<1>1. Status' = Status BY DEF Inner, Status, Active
<1> QED BY <1>1 DEF Inner, Abstract!Leave

LEMMA SameReaders ==
    ASSUME lease' = lease PROVE Reading' = Reading
BY DEF Reading

LEMMA FewerReaders ==
    ASSUME \A r \in Readers : lease[r] = "none" => lease'[r] = "none" PROVE Reading' \subseteq Reading
BY DEF Reading

LEMMA InnerActive ==
    ASSUME Active, Active', point'.held = point.held, gone' = gone, Reading' \subseteq Reading PROVE Inner
BY DEF Inner

LEMMA InnerIdle ==
    ASSUME UNCHANGED <<point, att>>, gone' = gone, Reading' \subseteq Reading PROVE Inner
BY DEF Inner

\* Blocking and moving on stay inside the attempt.
LEMMA BlockInner ==
    ASSUME IInv, Active, NEW rs \in Reasons, Block(rs) PROVE Active' /\ point'.held = point.held
BY BlockFacts DEF IInv, Active

LEMMA MoveInner ==
    ASSUME IInv, Active, NEW ph \in Phases \ {"none", "complete"}, Move(ph) PROVE Active'
BY MoveFacts DEF IInv, Active

LEMMA RefuseInner ==
    ASSUME IInv, Active, NEW w \in Workers, Refuse(w), gone' = gone PROVE Inner
<1>1. PICK rs \in Reasons : Block(rs) BY FenceLostFacts, Names DEF Refuse
<1>2. Reading' \subseteq Reading BY SameReaders DEF Refuse
<1>3. Active' /\ point'.held = point.held BY <1>1, BlockInner
<1> QED BY <1>2, <1>3, InnerActive

LEMMA WorkerInner ==
    ASSUME IInv, NEW w \in Workers, WorkerStep(w)
    PROVE  Inner \/ ProviderReturns(w) \/ CompleteDelete(w) \/ (CompleteRetire(w) /\ ~Refuse(w))
<1>0. Entitled(pc[w]) BY DEF IInv, PcInv
<1>a. /\ {"revoking", "draining", "cleaning", "provider_delete", "tombstoning", "blocked"}
           \subseteq Phases \ {"none", "complete"}
      /\ {"active_hold", "lease_live", "owner_cleanup_unproven", "fence_lost"} \subseteq Reasons
      /\ ProviderReasons \subseteq Reasons /\ FenceLostReason \in Reasons
  BY Names, FenceLostFacts
<1>1. CASE Flush(w) \/ AuditAfterProof(w) \/ AuditAfterBlock(w) \/ AuditBeforeRetry(w)
  <2>1. UNCHANGED <<point, att, lease, gone>>
    BY <1>1 DEF Flush, AuditAfterProof, AuditAfterBlock, AuditBeforeRetry, WriteAudit
  <2> QED BY <2>1, SameReaders DEF Inner
<1>2. CASE Dispatch(w) \/ PrepareNothing(w) \/ RetryBlocked(w) \/ ProviderFails(w)
  <2>1. UNCHANGED <<point, att, lease, gone>>
    BY <1>2 DEF Dispatch, PrepareNothing, RetryBlocked, ProviderFails
  <2> QED BY <2>1, SameReaders DEF Inner
<1>3. CASE ScheduleAuditRetry(w)
  <2>1. UNCHANGED <<point, lease, gone>> /\ att'.phase = att.phase
    BY <1>3 DEF ScheduleAuditRetry, IInv, TypeOK, AttemptRows
  <2> QED BY <2>1, SameReaders DEF Inner
<1>4. CASE \E r \in Readers : SettleContent(w, r)
  <2>1. UNCHANGED <<point, att, gone>> /\ \A r \in Readers : lease[r] = "none" => lease'[r] = "none"
    BY <1>4 DEF SettleContent, IInv, TypeOK
  <2> QED BY <2>1, FewerReaders DEF Inner
<1>5. CASE ProgressProof(w)
  <2>1. UNCHANGED <<lease, gone>> BY <1>5 DEF ProgressProof
  <2>2. CASE att.phase \in {"blocked", "provider_delete"}
    <3>1. Active BY <2>2 DEF Active
    <3>2. Block("active_hold") \/ (Move("tombstoning") /\ point' = point)
      BY <1>5, <2>2 DEF ProgressProof
    <3>3. Active' /\ point'.held = point.held BY <1>a, <3>1, <3>2, BlockInner, MoveInner
    <3>4. Reading' \subseteq Reading BY <2>1, SameReaders
    <3> QED BY <2>1, <3>1, <3>3, <3>4, InnerActive
  <2>3. CASE att.phase \notin {"blocked", "provider_delete"}
    <3>1. UNCHANGED <<point, att>> BY <1>5, <2>3 DEF ProgressProof
    <3> QED BY <2>1, <3>1, SameReaders DEF Inner
  <2> QED BY <2>2, <2>3
<1>6. CASE Heartbeat(w)
  <2>1. UNCHANGED <<lease, gone>> /\ (UNCHANGED <<point, att>> \/ (Active /\ Block(FenceLostReason)))
    BY <1>6 DEF Heartbeat
  <2>2. Reading' \subseteq Reading BY <2>1, SameReaders
  <2>3. CASE UNCHANGED <<point, att>> BY <2>1, <2>2, <2>3, InnerIdle
  <2>4. CASE Active /\ Block(FenceLostReason)
    <3>1. Active' /\ point'.held = point.held BY <1>a, <2>4, BlockInner
    <3> QED BY <2>1, <2>2, <2>4, <3>1, InnerActive
  <2> QED BY <2>1, <2>3, <2>4
<1>7. CASE Select(w) \/ PrepareEffect(w) \/ Drain(w)
  <2>1. Active /\ gone' = gone BY <1>7 DEF Select, PrepareEffect, Drain, Active
  <2>2. CASE Refuse(w) BY <2>1, <2>2, RefuseInner
  <2>3. CASE ~Refuse(w) /\ (Select(w) \/ PrepareEffect(w))
    <3>1. lease' = lease /\ point' = point /\ (att' = att \/ Move("revoking"))
      BY <2>3 DEF Select, PrepareEffect
    <3> QED BY <1>a, <2>1, <3>1, MoveInner, SameReaders DEF Inner
  <2>4. CASE ~Refuse(w) /\ Drain(w)
    <3>1. PICK R \in SUBSET Readers : lease' = SettledLeases(R) BY <2>4 DEF Drain, Ordinary
    <3>2. \A r \in Readers : lease[r] = "none" => lease'[r] = "none" BY <3>1 DEF SettledLeases
    <3>3. (Move("cleaning") /\ point' = point) \/ Block("lease_live") BY <2>4 DEF Drain
    <3>4. Active' /\ point'.held = point.held BY <1>a, <2>1, <3>3, BlockInner, MoveInner
    <3>5. Reading' \subseteq Reading BY <3>2, FewerReaders
    <3> QED BY <2>1, <3>4, <3>5, InnerActive
  <2> QED BY <1>7, <2>2, <2>3, <2>4
<1>8. CASE EffectDone(w) \/ EffectFailed(w) \/ EffectOutlived(w)
  <2>1. UNCHANGED <<lease, gone>> BY <1>8 DEF EffectDone, EffectFailed, EffectOutlived
  <2>2. CASE att.phase = EffectPhase(w)
    <3>1. Active BY <2>2 DEF EffectPhase, Active
    <3>2. \/ \E rs \in {"active_hold", "owner_cleanup_unproven", "fence_lost"} : Block(rs)
          \/ point' = point /\ (att' = att \/ \E ph \in {"draining", "provider_delete", "tombstoning"} : Move(ph))
      BY <1>8 DEF EffectDone, EffectFailed, EffectOutlived
    <3>3. Reading' \subseteq Reading BY <2>1, SameReaders
    <3>4. CASE UNCHANGED <<point, att>> BY <2>1, <3>3, <3>4, InnerIdle
    <3>5. CASE \E rs \in {"active_hold", "owner_cleanup_unproven", "fence_lost"} : Block(rs)
      <4>1. Active' /\ point'.held = point.held BY <1>a, <3>1, <3>5, BlockInner
      <4> QED BY <2>1, <3>1, <3>3, <4>1, InnerActive
    <3>6. CASE point' = point /\ \E ph \in {"draining", "provider_delete", "tombstoning"} : Move(ph)
      <4>1. Active' /\ point'.held = point.held BY <1>a, <3>1, <3>6, MoveInner
      <4> QED BY <2>1, <3>1, <3>3, <4>1, InnerActive
    <3> QED BY <3>2, <3>4, <3>5, <3>6
  <2>3. CASE att.phase # EffectPhase(w)
    <3>1. UNCHANGED <<point, att>> BY <1>8, <2>3 DEF EffectDone, EffectFailed, EffectOutlived
    <3> QED BY <2>1, <3>1, SameReaders DEF Inner
  <2> QED BY <2>2, <2>3
<1>9. CASE PrepareUnclaimed(w)
  <2>1. Active /\ UNCHANGED <<lease, gone>>
    BY <1>0, <1>9, SentFacts DEF PrepareUnclaimed, Entitled
  <2>2. UNCHANGED <<point, att>> \/ \E rs \in ProviderReasons \cup {"active_hold"} : Block(rs)
    BY <1>9 DEF PrepareUnclaimed, ProviderReasons
  <2>3. Reading' \subseteq Reading BY <2>1, SameReaders
  <2>4. CASE UNCHANGED <<point, att>> BY <2>1, <2>3, <2>4, InnerIdle
  <2>5. CASE \E rs \in ProviderReasons \cup {"active_hold"} : Block(rs)
    <3>1. Active' /\ point'.held = point.held BY <1>a, <2>1, <2>5, BlockInner
    <3> QED BY <2>1, <2>3, <3>1, InnerActive
  <2> QED BY <2>2, <2>4, <2>5
<1>10. CASE PrepareClaimed(w)
  <2>1. Active /\ UNCHANGED <<lease, gone>> /\ ~point.held
    BY <1>10, SentFacts DEF PrepareClaimed, TakeoverAllowed
  <2>2. \/ UNCHANGED <<point, att>>
        \/ Block("provider_identity_conflict")
        \/ /\ point' \in {point, [point EXCEPT !.state = "expiring"]}
           /\ \/ att' = [att EXCEPT !.phase = "provider_delete", !.reason = "none", !.gate = TRUE]
              \/ att' = [att EXCEPT !.phase = "provider_delete", !.reason = "none"]
    BY <1>10, <2>1 DEF PrepareClaimed
  <2>3. "provider_identity_conflict" \in Reasons BY <1>a DEF ProviderReasons
  <2>4. \A s : [point EXCEPT !.state = s].held = point.held BY DEF IInv, TypeOK, PointRows
  <2>5. att \in AttemptRows BY DEF IInv, TypeOK
  <2>6. CASE UNCHANGED <<point, att>> BY <2>1, <2>6, SameReaders DEF Inner
  <2>r. Reading' \subseteq Reading BY <2>1, SameReaders
  <2>7. CASE Block("provider_identity_conflict")
    <3>1. Active' /\ point'.held = point.held BY <2>1, <2>3, <2>7, BlockInner
    <3> QED BY <2>1, <2>r, <3>1, InnerActive
  <2>8. CASE /\ point' \in {point, [point EXCEPT !.state = "expiring"]}
             /\ \/ att' = [att EXCEPT !.phase = "provider_delete", !.reason = "none", !.gate = TRUE]
                \/ att' = [att EXCEPT !.phase = "provider_delete", !.reason = "none"]
    <3>1. Active' BY <2>5, <2>8 DEF Active, AttemptRows
    <3>2. point'.held = point.held BY <2>4, <2>8
    <3> QED BY <2>1, <2>r, <3>1, <3>2, InnerActive
  <2> QED BY <2>2, <2>6, <2>7, <2>8
<1>11. CASE Receipt(w)
  <2>1. ~point.held /\ UNCHANGED <<lease, gone>>
    BY <1>0, <1>11, SentFacts DEF Receipt, Entitled
  <2>2. UNCHANGED <<point, att>> BY <1>11, <2>1 DEF Receipt
  <2> QED BY <2>1, <2>2, SameReaders DEF Inner
<1>12. CASE MarkUncertain(w)
  <2>1. UNCHANGED <<point, lease, gone>> /\ att'.phase = att.phase
    BY <1>12 DEF MarkUncertain, IInv, TypeOK, AttemptRows
  <2> QED BY <2>1, SameReaders DEF Inner
<1>13. CASE Resume(w)
  <2>1. UNCHANGED <<lease, gone>> BY <1>13 DEF Resume
  <2>2. CASE att.phase # "blocked" \/ att.gate
    BY <1>13, <2>1, <2>2, SameReaders DEF Resume, Inner
  <2>3. CASE att.phase = "blocked" /\ ~att.gate
    <3>1. Active BY <2>3 DEF Active
    <3>2. ResumePhase \in Phases \ {"none", "complete"} BY <1>a DEF ResumePhase
    <3>3. \A s : [point EXCEPT !.state = s].held = point.held BY DEF IInv, TypeOK, PointRows
    <3>4. \/ Block("fence_lost") \/ Block("active_hold") \/ UNCHANGED <<point, att>>
          \/ Move(ResumePhase) /\ point' \in {point, [point EXCEPT !.state = "expiring"]}
      BY <1>13, <2>3 DEF Resume
    <3> HIDE DEF ResumePhase
    <3>5. Reading' \subseteq Reading BY <2>1, SameReaders
    <3>6. CASE UNCHANGED <<point, att>> BY <2>1, <3>5, <3>6, InnerIdle
    <3>7. CASE Block("fence_lost") \/ Block("active_hold")
      <4>1. Active' /\ point'.held = point.held BY <1>a, <3>1, <3>7, BlockInner
      <4> QED BY <2>1, <3>1, <3>5, <4>1, InnerActive
    <3>8. CASE Move(ResumePhase) /\ point' \in {point, [point EXCEPT !.state = "expiring"]}
      <4>1. Active' BY <3>1, <3>2, <3>8, MoveInner
      <4>2. point'.held = point.held BY <3>3, <3>8
      <4> QED BY <2>1, <3>1, <3>5, <4>1, <4>2, InnerActive
    <3> QED BY <3>4, <3>6, <3>7, <3>8
  <2> QED BY <2>2, <2>3
<1>14. CASE CompleteRetire(w) /\ Refuse(w)
  <2>1. Active /\ gone' = gone BY <1>14 DEF CompleteRetire, Active
  <2> QED BY <1>14, <2>1, RefuseInner
<1> QED BY <1>1, <1>2, <1>3, <1>4, <1>5, <1>6, <1>7, <1>8, <1>9, <1>10, <1>11, <1>12, <1>13, <1>14 DEF WorkerStep

LEMMA RefineInit == Init => Abstract!PointInit
<1> SUFFICES ASSUME Init PROVE Abstract!PointInit OBVIOUS
<1>1. Status = "open" BY DEF Init, Status, Active
<1>2. Reading = {} BY DEF Init, Reading
<1>3. point.held = FALSE BY DEF Init
<1> QED BY <1>1, <1>2, <1>3 DEF Init, Abstract!PointInit

LEMMA RefineNext ==
    ASSUME IInv, [Next]_vars PROVE [Abstract!PointNext]_(Abstract!pointVars)
<1> USE DEF Abstract!PointNext, Abstract!pointVars
<1>1. CASE UNCHANGED vars
  <2>1. Inner BY <1>1, SameReaders DEF vars, Inner
  <2> QED BY <2>1, InnerLeaves
<1>2. ASSUME NEW w \in Workers, WorkerStep(w) PROVE [Abstract!PointNext]_(Abstract!pointVars)
  <2>1. CASE Inner BY <2>1, InnerLeaves
  <2>2. CASE ProviderReturns(w)
    <3>1. sent /\ Quiet /\ ~point.held
      BY <2>2, SentFacts DEF ProviderReturns, IInv, PcInv, Entitled
    <3>2. UNCHANGED <<point, att, lease>> /\ gone' = TRUE BY <2>2 DEF ProviderReturns
    <3>3. Status' = Status /\ Reading' = Reading /\ Reading = {}
      BY <3>1, <3>2 DEF Status, Active, Reading, Quiet
    <3>4. CASE gone
      <4>1. gone' = gone BY <3>2, <3>4 DEF IInv, TypeOK
      <4> QED BY <3>2, <3>3, <4>1
    <3>5. CASE ~gone
      <4>1. Active BY <3>1, <3>5, SentFacts
      <4>2. Status = "closing" BY <4>1 DEF Status
      <4>3. Abstract!Destroy BY <3>1, <3>2, <3>3, <4>2 DEF Abstract!Destroy
      <4> QED BY <4>3
    <3> QED BY <3>4, <3>5
  <2>3. CASE CompleteDelete(w)
    <3>1. Active /\ Deletes /\ Proven /\ UNCHANGED <<lease, gone>>
      BY <2>3 DEF CompleteDelete, Active
    <3>2. gone /\ ~point.held BY <3>1, SentFacts
    <3>3. att' = [att EXCEPT !.phase = "complete"] /\ point' = [point EXCEPT !.state = "expired"]
      BY <2>3, <3>2 DEF CompleteDelete
    <3>4. att'.phase = "complete" /\ point'.state = "expired" /\ point'.held = point.held
      BY <3>3 DEF IInv, TypeOK, AttemptRows, PointRows
    <3>5. Status = "closing" /\ Status' = "gone" BY <3>1, <3>4 DEF Status, Active
    <3>6. Abstract!Finish BY <3>1, <3>2, <3>4, <3>5, SameReaders DEF Abstract!Finish
    <3> QED BY <3>6
  <2>4. CASE CompleteRetire(w) /\ ~Refuse(w)
    <3>1. /\ Active /\ Cleared /\ att.phase = "tombstoning" /\ UNCHANGED <<lease, gone>>
          /\ att' = [att EXCEPT !.phase = "complete"] /\ point' = [point EXCEPT !.state = "retired"]
      BY <2>4 DEF CompleteRetire, Active
    <3>2. Quiet /\ ~point.held BY <3>1 DEF IInv, QuietInv, Cleared
    <3>3. att'.phase = "complete" /\ point'.state = "retired" /\ point'.held = point.held
      BY <3>1 DEF IInv, TypeOK, AttemptRows, PointRows
    <3>4. Status = "closing" /\ Status' = "retired" BY <3>1, <3>3 DEF Status, Active
    <3>5. Reading = {} BY <3>2 DEF Quiet, Reading
    <3>6. Abstract!Retire BY <3>1, <3>2, <3>3, <3>4, <3>5, SameReaders DEF Abstract!Retire
    <3> QED BY <3>6
  <2> QED BY <1>2, <2>1, <2>2, <2>3, <2>4, WorkerInner
<1>3. ASSUME NEW w \in Workers, Crash(w) PROVE [Abstract!PointNext]_(Abstract!pointVars)
  <2>1. Inner BY <1>3, SameReaders DEF Crash, Inner
  <2> QED BY <2>1, InnerLeaves
<1>4. ASSUME NEW r \in Readers, ReaderStep(r) PROVE [Abstract!PointNext]_(Abstract!pointVars)
  <2>1. CASE Acquire(r)
    <3>1. /\ Admitted /\ lease' = [lease EXCEPT ![r] = "live"] /\ UNCHANGED <<point, att, gone>>
      BY <2>1 DEF Acquire
    <3>2. Status = "open" /\ Status' = Status BY <3>1 DEF Admitted, Status, Active
    <3>3. Reading' = Reading \cup {r} BY <3>1 DEF Reading, IInv, TypeOK
    <3>4. Abstract!Open(r) BY <3>1, <3>2, <3>3 DEF Abstract!Open
    <3> QED BY <3>4
  <2>2. CASE ReleaseLease(r) \/ LapseLease(r) \/ TakeoverLease(r) \/ EndLease(r)
    <3>1. /\ UNCHANGED <<point, att, gone>>
          /\ \A q \in Readers : lease[q] = "none" => lease'[q] = "none"
      BY <2>2 DEF ReleaseLease, LapseLease, TakeoverLease, EndLease, IInv, TypeOK
    <3>2. Inner BY <3>1, FewerReaders DEF Inner
    <3> QED BY <3>2, InnerLeaves
  <2> QED BY <1>4, <2>1, <2>2 DEF ReaderStep
<1>5. ASSUME NEW op \in Operations, ClaimAttempt(op) PROVE [Abstract!PointNext]_(Abstract!pointVars)
  <2>1. ~Active /\ ClaimAllowed(op) /\ UNCHANGED <<lease, gone>> BY <1>5 DEF ClaimAttempt
  <2>2. point.state \in {"readable", "retired"} BY <2>1 DEF ClaimAllowed, Operations
  <2>3. att'.phase \in {"blocked", "selected"} BY <1>5 DEF ClaimAttempt
  <2>4. point'.held = point.held BY <1>5 DEF ClaimAttempt, IInv, TypeOK, PointRows
  <2>5. Status \in {"open", "retired"} /\ Status' = "closing" BY <2>1, <2>2, <2>3 DEF Status, Active
  <2>6. Abstract!Close BY <2>1, <2>4, <2>5, SameReaders DEF Abstract!Close
  <2> QED BY <2>6
<1>6. CASE CreateHold
  <2>1. /\ Admitted /\ point' = [point EXCEPT !.held = TRUE] /\ UNCHANGED <<att, lease, gone>>
    BY <1>6 DEF CreateHold
  <2>2. point'.state = point.state /\ point'.held = TRUE BY <2>1 DEF IInv, TypeOK, PointRows
  <2>3. Status = "open" /\ Status' = Status BY <2>1, <2>2 DEF Admitted, Status, Active
  <2>4. Abstract!Hold BY <2>1, <2>2, <2>3, SameReaders DEF Abstract!Hold
  <2> QED BY <2>4
<1>7. CASE ReleaseHold
  <2>1. point' = [point EXCEPT !.held = FALSE] /\ UNCHANGED <<att, lease, gone>> BY <1>7 DEF ReleaseHold
  <2>2. point'.state = point.state /\ point'.held = FALSE BY <2>1 DEF IInv, TypeOK, PointRows
  <2>3. Status' = Status BY <2>1, <2>2 DEF Status, Active
  <2>4. Abstract!Unhold BY <2>1, <2>2, <2>3, SameReaders DEF Abstract!Unhold
  <2> QED BY <2>4
<1>8. CASE ReconcileExpired
  <2>1. UNCHANGED <<point, att, gone>> /\ \A r \in Readers : lease[r] = "none" => lease'[r] = "none"
    BY <1>8 DEF ReconcileExpired
  <2>2. Inner BY <2>1, FewerReaders DEF Inner
  <2> QED BY <2>2, InnerLeaves
<1>9. CASE GateOpens \/ ClaimLapses \/ FenceLapses \/ DeadlinePasses
  <2>1. UNCHANGED <<point, lease, gone>> /\ att'.phase = att.phase
    BY <1>9 DEF GateOpens, ClaimLapses, FenceLapses, DeadlinePasses, IInv, TypeOK, AttemptRows
  <2>2. Inner BY <2>1, SameReaders DEF Inner
  <2> QED BY <2>2, InnerLeaves
<1>10. CASE DeleteLands
  <2>1. sent /\ ~gone /\ gone' = TRUE /\ UNCHANGED <<point, att, lease>> BY <1>10 DEF DeleteLands
  <2>2. Quiet /\ ~point.held /\ Active BY <2>1, SentFacts
  <2>3. Status = "closing" /\ Status' = Status /\ Reading = {} /\ Reading' = Reading
    BY <2>1, <2>2 DEF Status, Active, Reading, Quiet
  <2>4. Abstract!Destroy BY <2>1, <2>2, <2>3 DEF Abstract!Destroy
  <2> QED BY <2>4
<1> QED BY <1>1, <1>2, <1>3, <1>4, <1>5, <1>6, <1>7, <1>8, <1>9, <1>10 DEF Next

\* Any number of workers, readers and faults together do only what RecoveryPoint
\* allows: bytes go away only after closing, unread and unheld, and a point that
\* is reported gone is gone.
THEOREM PointRefinement == Spec => RefinesPoint
<1>1. Init => Abstract!PointInit BY RefineInit
<1>2. IInv /\ [Next]_vars => [Abstract!PointNext]_(Abstract!pointVars) BY RefineNext
<1> QED BY <1>1, <1>2, Invariance, PTL DEF Spec, RefinesPoint, Abstract!PointSpec
=============================================================================
