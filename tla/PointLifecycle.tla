--------------------------- MODULE PointLifecycle ---------------------------
(***************************************************************************)
(* The retention of one recovery point (internal/backupasset/retention):   *)
(* how several workers that share one database expire, retire or purge the *)
(* point while readers hold leases on it, an administrator holds it, a     *)
(* worker dies between two transactions, leases lapse, the provider or the *)
(* audit log fails, and a provider call lands after its caller gave up.    *)
(*                                                                         *)
(* Every database transaction of the code is one step.  A point has at     *)
(* most one incomplete lifecycle attempt (unique index, ClaimTx), so one   *)
(* `att` is enough.  Times are reduced to what the code compares them      *)
(* with: a lease is live, lapsed (past lease_expires_at) or over (past its *)
(* absolute deadline), a retry gate is shut (retry_at in the future) or    *)
(* open.  Revisions and fence tokens are reduced to whether a remembered   *)
(* one is still the current one.                                           *)
(***************************************************************************)
EXTENDS Naturals

CONSTANTS
    Workers,     \* retention workers (effect executor identities)
    NoWorker,
    Readers,     \* lease holders other than the retention worker
    Content,     \* the readers that hold content-session leases
    Faults,      \* what goes wrong in this instance
    MaxFaults    \* bound: how often

FaultKinds == {"crash", "lapse", "deadline", "audit", "provider", "owner"}

ASSUME LifecycleAssumption ==
    /\ NoWorker \notin Workers
    /\ Content \subseteq Readers
    /\ Faults \subseteq FaultKinds
    /\ MaxFaults \in Nat

VARIABLES
    point,   \* recovery_points: semantics, state, active hold
    att,     \* recovery_point_lifecycle_attempts: the latest row
    own,     \* the retention worker's lease, as bound to the attempt
    claim,   \* recovery_point_lifecycle_effect_claims: the attempt's row
    tomb,    \* recovery_point_lifecycle_tombstones: operations proven done
    slots,   \* recovery_point_lifecycle_audit_slots of the attempt
    lease,   \* recovery_point_leases of the readers
    pc,      \* per worker: where its pass over the attempt is
    auth,    \* workers whose captured effect authority is still current
    sent,    \* a provider delete was issued
    gone,    \* the provider no longer has the bytes
    faults   \* faults so far

vars == <<point, att, own, claim, tomb, slots, lease, pc, auth, sent, gone, faults>>

Operations == {"retention_expire", "explicit_purge", "mutable_retire"}
Phases == {"none", "selected", "revoking", "draining", "cleaning", "provider_delete",
           "tombstoning", "blocked", "complete"}
\* provider_delete_unproven also stands for worm, unavailable and
\* deletion_unavailable, provider_identity_conflict for native_version_referenced,
\* lease_live for lease_drain_unproven: the code treats each group alike.
Reasons == {"none", "active_hold", "lease_live", "owner_cleanup_unproven", "fence_lost",
            "provider_delete_unproven", "provider_identity_conflict"}
ProviderReasons == {"provider_delete_unproven", "provider_identity_conflict"}
PointStates == {"readable", "expiring", "purge_blocked", "expired", "retired"}
LeaseStates == {"none", "live", "lapsed", "over"}
OwnStates == LeaseStates \cup {"expired", "released"}
Pcs == {"idle", "beat", "advance", "revoke", "clean", "delete", "retry", "prepare", "resume",
        "calling", "receipt", "uncertain", "prove", "confirm", "proof",
        "audit", "audit_end", "audit_c", "audit_u", "sched"}

NoClaim == [state |-> "none", exec |-> NoWorker, live |-> FALSE, rev |-> FALSE, bound |-> FALSE]

PointRows == [mutable : BOOLEAN, state : PointStates, held : BOOLEAN]
AttemptRows == [op : Operations, phase : Phases, reason : Reasons, gate : BOOLEAN]
ClaimRows == [state : {"none", "in_flight", "uncertain", "proven"},
              exec : Workers \cup {NoWorker}, live : BOOLEAN, rev : BOOLEAN, bound : BOOLEAN]

\* Every row is well formed.
TypeOK ==
    /\ point \in PointRows
    /\ att \in AttemptRows
    /\ own \in OwnStates
    /\ claim \in ClaimRows
    /\ tomb \subseteq Operations
    /\ slots \subseteq {"blocked", "identity_conflict", "deleted"}
    /\ lease \in [Readers -> LeaseStates]
    /\ pc \in [Workers -> Pcs]
    /\ auth \subseteq Workers
    /\ sent \in BOOLEAN /\ gone \in BOOLEAN
    /\ faults \in 0..MaxFaults

Init ==
    /\ point \in [mutable : BOOLEAN, state : {"readable"}, held : {FALSE}]
    /\ att = [op |-> "explicit_purge", phase |-> "none", reason |-> "none", gate |-> FALSE]
    /\ own = "none"
    /\ claim = NoClaim
    /\ tomb = {} /\ slots = {}
    /\ lease = [r \in Readers |-> "none"]
    /\ pc = [w \in Workers |-> "idle"]
    /\ auth = {}
    /\ sent = FALSE /\ gone = FALSE
    /\ faults = 0

-----------------------------------------------------------------------------
(* Queries and row updates the transactions share. *)

Active == att.phase \notin {"none", "complete"}
Deletes == att.op # "mutable_retire"       \* providerDeleteLifecycleOperation
Proven == att.op \in tomb                  \* the tombstone of this operation exists
Claimed == claim.state # "none"
Ordinary == Readers \ Content

Fault(f) == f \in Faults /\ faults < MaxFaults /\ faults' = faults + 1

Goto(w, to) == pc' = [pc EXCEPT ![w] = to]

\* advanceUntilSettled goes on unless the attempt is blocked or complete.
Continue(w, phase) == Goto(w, IF phase \in {"blocked", "complete"} THEN "idle" ELSE "advance")

\* The claim row, after the attempt's transition_revision moved on and, when
\* rotated, its lease was taken over or replaced.
Outdated(rotated) ==
    [claim EXCEPT !.rev = FALSE, !.bound = claim.bound /\ ~rotated]

\* transitionAttemptTx: the new phase clears the reason and the retry gate.
Move(to) ==
    /\ att' = [att EXCEPT !.phase = to, !.reason = "none", !.gate = FALSE]
    /\ auth' = {}

BlockUnseen(reason) ==                               \* slip: the point is not updated
    /\ att' = [att EXCEPT !.phase = "blocked", !.reason = reason, !.gate = TRUE]
    /\ auth' = {} /\ UNCHANGED point
\* blockAttemptTx: the gate shuts, and the point shows it, except a mutable
\* head that is only being retired.
Block(reason) ==
    /\ att' = [att EXCEPT !.phase = "blocked", !.reason = reason, !.gate = TRUE]
    /\ point' = IF Deletes THEN [point EXCEPT !.state = "purge_blocked"] ELSE point
    /\ auth' = {}

\* ensureLifecycleFenceTx: a live lease passes, a lapsed one is taken over.
FenceHolds == own \in {"live", "lapsed"}

FenceLostReasonRaw ==                                \* slip: the error itself is stored
    "absolute_deadline"
FenceLostReason ==
    IF att.phase = "provider_delete" THEN "provider_delete_unproven" ELSE "fence_lost"

\* settleLifecycleLeaseAfterProofTx
Settled == IF own = "live" THEN "released" ELSE IF own \in {"lapsed", "over"} THEN "expired" ELSE own

\* validateProviderDeleteRowsAuthority: unless a tombstone proves the deletion,
\* a claim must fit the attempt's phase and carry its lease, or the transaction
\* refuses to touch any row.
ClaimFits ==
    \/ claim.state = "in_flight" /\ att.phase = "provider_delete" /\ claim.rev
    \/ claim.state = "uncertain" /\ att.phase = "provider_delete"
    \/ /\ claim.state = "uncertain" /\ att.phase = "blocked"
       /\ att.reason \in {"active_hold", "provider_identity_conflict"}
Coherent == ~Deletes \/ Proven \/ ~Claimed \/ (ClaimFits /\ claim.bound)

\* providerDeleteClaimMatchesCurrent
ClaimCurrent == claim.state = "in_flight" /\ claim.live /\ own = "live" /\ claim.rev /\ claim.bound

\* settledAuditCandidate
AuditStatus ==
    IF ~Deletes THEN "none"
    ELSE IF Proven THEN "deleted"
    ELSE IF att.phase = "blocked" /\ att.reason \in ProviderReasons \cup {"active_hold"}
         THEN IF att.reason = "provider_identity_conflict" THEN "identity_conflict" ELSE "blocked"
         ELSE "none"

-----------------------------------------------------------------------------
(* Readers, holds, and the start of an attempt. *)

\* ValidateLeaseAdmissionTx and ValidateHoldAdmissionTx ask the same of the point.
AdmittedAnyPhase == point.state = "readable"        \* slip: active attempt not looked at
Admitted == point.state = "readable" /\ ~Active

Acquire(r) ==
    /\ lease[r] = "none" /\ Admitted
    /\ lease' = [lease EXCEPT ![r] = "live"]
    /\ UNCHANGED <<point, att, own, claim, tomb, slots, pc, auth, sent, gone, faults>>

ReleaseLease(r) ==
    /\ lease[r] = "live"
    /\ lease' = [lease EXCEPT ![r] = "none"]
    /\ UNCHANGED <<point, att, own, claim, tomb, slots, pc, auth, sent, gone, faults>>

\* The reader stopped renewing; it may still take its lease over.
LapseLease(r) ==
    /\ lease[r] = "live"
    /\ lease' = [lease EXCEPT ![r] = "lapsed"]
    /\ UNCHANGED <<point, att, own, claim, tomb, slots, pc, auth, sent, gone, faults>>

TakeoverLease(r) ==
    /\ lease[r] = "lapsed"
    /\ lease' = [lease EXCEPT ![r] = "live"]
    /\ UNCHANGED <<point, att, own, claim, tomb, slots, pc, auth, sent, gone, faults>>

\* The absolute deadline of a reader's lease passes.
EndLease(r) ==
    /\ lease[r] \in {"live", "lapsed"}
    /\ lease' = [lease EXCEPT ![r] = "over"]
    /\ UNCHANGED <<point, att, own, claim, tomb, slots, pc, auth, sent, gone, faults>>

ReconcileExpired ==
    /\ own = "over" \/ \E r \in Readers : lease[r] = "over"
    /\ lease' = [r \in Readers |-> IF lease[r] = "over" THEN "none" ELSE lease[r]]
    /\ own' = IF own = "over" THEN "expired" ELSE own
    /\ UNCHANGED <<point, att, claim, tomb, slots, pc, auth, sent, gone, faults>>

\* Only an immutable point can be held.
CreateHold ==
    /\ ~point.mutable /\ ~point.held /\ Admitted
    /\ point' = [point EXCEPT !.held = TRUE]
    /\ UNCHANGED <<att, own, claim, tomb, slots, lease, pc, auth, sent, gone, faults>>

\* Released by an administrator, or an operational hold that ran out.
ReleaseHold ==
    /\ point.held
    /\ point' = [point EXCEPT !.held = FALSE]
    /\ UNCHANGED <<att, own, claim, tomb, slots, lease, pc, auth, sent, gone, faults>>

\* ClaimTx.  The lease of the retention worker needs no admission.  A worker
\* still in the middle of the previous, complete attempt finds it complete at
\* its next transaction and ends its pass: it is idle for this one.
ClaimAllowed(op) ==
    CASE op = "retention_expire" -> ~point.mutable /\ point.state = "readable" /\ ~point.held
      [] op = "mutable_retire" -> point.mutable /\ point.state = "readable" /\ ~point.held
      [] op = "explicit_purge" -> \/ point.state = "readable"
                                  \/ point.mutable /\ point.state = "retired"

ClaimAttempt(op) ==
    /\ ~Active /\ ClaimAllowed(op)
    /\ IF op = "explicit_purge" /\ point.held
       THEN /\ att' = [op |-> op, phase |-> "blocked", reason |-> "active_hold", gate |-> TRUE]
            /\ point' = [point EXCEPT !.state = "purge_blocked"]
       ELSE /\ att' = [op |-> op, phase |-> "selected", reason |-> "none", gate |-> FALSE]
            /\ point' = IF op = "mutable_retire" THEN point ELSE [point EXCEPT !.state = "expiring"]
    /\ own' = "live"
    /\ claim' = NoClaim /\ slots' = {}
    /\ pc' = [w \in Workers |-> "idle"] /\ auth' = {}
    /\ UNCHANGED <<tomb, lease, sent, gone, faults>>

-----------------------------------------------------------------------------
(* A worker's pass: flush the settled audit, heartbeat, advance. *)

\* emitSettledDeletionAuditTx: next says where the pass goes on for each result;
\* an error always goes to scheduleSettledAuditRetry.
AuditDue == AuditStatus # "none" /\ AuditStatus \notin slots
WriteAudit(w, next) ==
    /\ UNCHANGED <<point, att, own, claim, tomb, lease, auth, sent, gone>>
    /\ \/ /\ ~Coherent
          /\ Goto(w, "sched") /\ UNCHANGED <<slots, faults>>
       \/ /\ Coherent /\ ~AuditDue
          /\ Goto(w, IF AuditStatus = "deleted" THEN next.terminal
                     ELSE IF AuditStatus # "none" /\ att.gate THEN next.pending ELSE next.none)
          /\ UNCHANGED <<slots, faults>>
       \/ /\ Coherent /\ AuditDue /\ att.gate
          /\ Goto(w, next.pending) /\ UNCHANGED <<slots, faults>>
       \/ /\ Coherent /\ AuditDue /\ ~att.gate
          /\ slots' = slots \cup {AuditStatus}
          /\ Goto(w, IF AuditStatus = "deleted" THEN next.terminal ELSE next.none)
          /\ UNCHANGED faults
       \/ /\ Coherent /\ AuditDue /\ ~att.gate /\ Fault("audit")
          /\ Goto(w, "sched") /\ UNCHANGED slots

\* flushDueSettledAuditBeforeHeartbeat opens the pass over an incomplete attempt.
Flush(w) ==
    /\ pc[w] = "idle" /\ Active
    /\ WriteAudit(w, [none |-> "beat", pending |-> "idle", terminal |-> "prove"])

ScheduleAuditRetry(w) ==
    /\ pc[w] = "sched"
    /\ att' = [att EXCEPT !.gate = @ \/ (Coherent /\ AuditDue)]
    /\ Goto(w, "idle")
    /\ UNCHANGED <<point, own, claim, tomb, slots, lease, auth, sent, gone, faults>>

\* The audit after a confirmed deletion, after a block, and before a retry.
AuditAfterProof(w) ==
    /\ pc[w] = "audit"
    /\ LET on == IF att.phase \in {"blocked", "complete"} THEN "idle" ELSE "advance"
       IN WriteAudit(w, [none |-> on, pending |-> on, terminal |-> on])

AuditAfterBlock(w) ==
    /\ pc[w] = "audit_end"
    /\ WriteAudit(w, [none |-> "idle", pending |-> "idle", terminal |-> "idle"])

AuditBeforeRetry(w) ==
    /\ pc[w] \in {"audit_c", "audit_u"}
    /\ LET on == IF pc[w] = "audit_c" THEN "prepare" ELSE "resume"
       IN WriteAudit(w, [none |-> on, pending |-> "idle", terminal |-> on])

\* progressProviderProof: a tombstone moves the attempt on whatever the claim,
\* the lease or the gate say.
ProgressProof(w) ==
    /\ pc[w] \in {"prove", "confirm", "proof"}
    /\ Goto(w, CASE pc[w] = "prove" -> "beat"
                 [] pc[w] = "confirm" -> "audit"
                 [] OTHER -> IF point.held THEN "idle" ELSE "advance")
    /\ own' = Settled
    /\ IF att.phase \in {"blocked", "provider_delete"}
       THEN /\ claim' = Outdated(FALSE)
            /\ IF point.held THEN Block("active_hold") ELSE Move("tombstoning") /\ UNCHANGED point
       ELSE UNCHANGED <<point, att, claim, auth>>
    /\ UNCHANGED <<tomb, slots, lease, sent, gone, faults>>

\* Heartbeat and heartbeatProviderDelete: renew the fence of an attempt no
\* claim owns, or block the attempt for its loss.
Heartbeat(w) ==
    /\ pc[w] = "beat"
    /\ Goto(w, "advance")
    /\ IF ~Active \/ (Deletes /\ (Proven \/ Claimed))
       THEN UNCHANGED <<point, att, own, claim, auth>>
       ELSE IF FenceHolds
       THEN /\ own' = "live"
            /\ auth' = IF own = "lapsed" THEN {} ELSE auth
            /\ UNCHANGED <<point, att, claim>>
       ELSE /\ Block(FenceLostReason)
            /\ UNCHANGED <<own, claim>>
    /\ UNCHANGED <<tomb, slots, lease, sent, gone, faults>>

\* Advance loads the attempt; these phases only decide what to do next.
Dispatch(w) ==
    /\ pc[w] = "advance"
    /\ \/ att.phase = "complete" /\ Goto(w, "idle")
       \/ att.phase = "provider_delete" /\ Goto(w, "delete")
       \/ att.phase = "blocked" /\ Goto(w, IF Deletes THEN "retry" ELSE "resume")
    /\ UNCHANGED <<point, att, own, claim, tomb, slots, lease, auth, sent, gone, faults>>

\* A transaction that moves the attempt on first wants the fence, taking a lapsed
\* lease over, and then no active hold; otherwise it blocks the attempt.
Cleared == FenceHolds /\ ~point.held
Refence == own' = "live" /\ claim' = Outdated(own = "lapsed")
Refuse(w) ==
    /\ ~Cleared
    /\ Goto(w, "idle")
    /\ IF FenceHolds THEN Refence /\ Block("active_hold")
       ELSE Block(FenceLostReason) /\ claim' = Outdated(FALSE) /\ UNCHANGED own
    /\ UNCHANGED lease

\* transition: selected -> revoking.
Select(w) ==
    /\ pc[w] = "advance" /\ att.phase = "selected"
    /\ \/ Refuse(w)
       \/ Cleared /\ Refence /\ Move("revoking") /\ Goto(w, "advance") /\ UNCHANGED <<point, lease>>
    /\ UNCHANGED <<tomb, slots, sent, gone, faults>>

\* prepareExternalEffect: capture the authority under which the owners of
\* derived data (content, catalog, search, processing, export, recovery) are
\* asked to let go of the point.
PrepareEffect(w) ==
    /\ pc[w] = "advance" /\ att.phase \in {"revoking", "cleaning"}
    /\ \/ Refuse(w)
       \/ /\ Cleared /\ own' = "live"
          /\ claim' = IF own = "lapsed" THEN Outdated(TRUE) ELSE claim
          /\ auth' = (IF own = "lapsed" THEN {} ELSE auth) \cup {w}
          /\ Goto(w, IF att.phase = "revoking" THEN "revoke" ELSE "clean")
          /\ UNCHANGED <<point, att, lease>>
    /\ UNCHANGED <<tomb, slots, sent, gone, faults>>

EffectPhase(w) == IF pc[w] = "revoke" THEN "revoking" ELSE "cleaning"

\* The content owner settles an abandoned session: it takes a lapsed lease over
\* and releases it.  Its transactions only run while the phase is unchanged.
SettleContent(w, r) ==
    /\ pc[w] \in {"revoke", "clean"} /\ att.phase = EffectPhase(w)
    /\ r \in Content /\ lease[r] = "lapsed"
    /\ lease' = [lease EXCEPT ![r] = "none"]
    /\ UNCHANGED <<point, att, own, claim, tomb, slots, pc, auth, sent, gone, faults>>

OwnersLetGo == \A r \in Content : lease[r] = "none"

\* transitionAuthorized, and persistMutableTombstoneAndTransition after the
\* cleanup of a retirement.
EffectDone(w) ==
    /\ pc[w] \in {"revoke", "clean"} /\ att.phase = EffectPhase(w)
    /\ OwnersLetGo /\ w \in auth /\ own = "live"
    /\ claim' = Outdated(FALSE)
    /\ IF point.held
       THEN Block("active_hold") /\ Goto(w, "idle") /\ UNCHANGED tomb
       ELSE /\ Goto(w, "advance") /\ UNCHANGED point
            /\ IF pc[w] = "revoke" THEN Move("draining") /\ UNCHANGED tomb
               ELSE IF Deletes THEN Move("provider_delete") /\ UNCHANGED tomb
               ELSE Move("tombstoning") /\ tomb' = tomb \cup {att.op}
    /\ UNCHANGED <<own, slots, lease, sent, gone, faults>>

\* blockAuthorized: an owner could not prove that it let go.
EffectFailed(w) ==
    /\ pc[w] \in {"revoke", "clean"} /\ att.phase = EffectPhase(w)
    /\ w \in auth /\ own = "live"
    /\ \/ (\E r \in Content : lease[r] \in {"live", "over"}) /\ UNCHANGED faults
       \/ OwnersLetGo /\ Fault("owner")
    /\ claim' = Outdated(FALSE)
    /\ Block(IF point.held THEN "active_hold" ELSE "owner_cleanup_unproven")
    /\ Goto(w, "idle")
    /\ UNCHANGED <<own, tomb, slots, lease, sent, gone>>

\* The effect outlived its authority: either the deadline was noticed
\* (blockUncertainEffect), or the commit finds the authority changed and
\* rolls back.
EffectOutlived(w) ==
    /\ pc[w] \in {"revoke", "clean"}
    /\ \/ /\ att.phase = EffectPhase(w) /\ w \in auth /\ own \in {"lapsed", "over"}
          /\ Block("fence_lost") /\ claim' = Outdated(FALSE)
       \/ /\ att.phase # EffectPhase(w) \/ w \notin auth \/ own # "live"
          /\ auth' = auth \ {w} /\ UNCHANGED <<point, att, claim>>
    /\ Goto(w, "idle")
    /\ UNCHANGED <<own, tomb, slots, lease, sent, gone, faults>>

\* drainOrdinaryLeasesTx goes through the leases in an order of its own: what it
\* settled before it met a live one stays settled.
SettledLeases(R) == [r \in Readers |-> IF r \in R THEN "none" ELSE lease[r]]
Drain(w) ==
    /\ pc[w] = "advance" /\ att.phase = "draining"
    /\ \/ Refuse(w)
       \/ /\ Cleared /\ Refence
          /\ \/ /\ \A r \in Ordinary : lease[r] # "live"
                /\ lease' = SettledLeases(Ordinary)
                /\ Move("cleaning") /\ Goto(w, "advance") /\ UNCHANGED point
             \/ /\ \E r \in Ordinary : lease[r] = "live"
                /\ \E R \in SUBSET {r \in Ordinary : lease[r] # "live"} : lease' = SettledLeases(R)
                /\ Block("lease_live") /\ Goto(w, "idle")
    /\ UNCHANGED <<tomb, slots, sent, gone, faults>>

-----------------------------------------------------------------------------
(* The provider deletion: claim, call, receipt. *)

InFlight(w) == [state |-> "in_flight", exec |-> w, live |-> TRUE, rev |-> TRUE, bound |-> TRUE]
Uncertain == [claim EXCEPT !.state = "uncertain", !.live = FALSE]
\* The rows are not what the caller may act on, or another execution is current.
Untouchable == ~Coherent \/ (~Proven /\ ClaimCurrent)

\* prepareProviderDelete of an attempt without a claim.  It was loaded in
\* phase provider_delete, or had a claim: neither is looked at again, but the
\* deleter refuses to prepare any other phase.
PrepareUnclaimed(w) ==
    /\ pc[w] \in {"delete", "prepare"} /\ Coherent /\ ~Proven /\ ~Claimed
    /\ \/ /\ point.held \/ ~FenceHolds
          /\ Block(IF point.held THEN "active_hold" ELSE "provider_delete_unproven")
          /\ Goto(w, "audit_end") /\ UNCHANGED <<own, claim, sent, faults>>
       \/ /\ Cleared /\ att.phase # "provider_delete"
          /\ own' = "live" /\ Block("provider_identity_conflict")
          /\ Goto(w, "audit_end") /\ UNCHANGED <<claim, sent, faults>>
       \/ /\ Cleared /\ att.phase = "provider_delete" /\ Fault("provider")
          /\ \E reason \in ProviderReasons : Block(reason)
          /\ own' = "live"
          /\ Goto(w, "audit_end") /\ UNCHANGED <<claim, sent>>
       \/ /\ Cleared /\ att.phase = "provider_delete"
          /\ own' = "live" /\ auth' = IF own = "lapsed" THEN {} ELSE auth
          /\ claim' = InFlight(w) /\ sent' = TRUE
          /\ Goto(w, "calling") /\ UNCHANGED <<point, att, faults>>
    /\ UNCHANGED <<tomb, slots, lease, gone>>

TakeoverAllowedLive ==                               \* slip: the claim's deadline is not looked at
    Coherent /\ ~Proven /\ Claimed
TakeoverAllowedInFlight ==                           \* slip: an uncertain claim is left alone
    Coherent /\ ~Proven /\ claim.state = "in_flight" /\ ~ClaimCurrent
TakeoverAllowed ==
    Coherent /\ ~Proven /\ Claimed /\ ~ClaimCurrent

\* prepareProviderDelete of a claim that is not current any more: it is now
\* uncertain whether the deletion happened, and only an observation of the
\* same target lets another execution take the claim over.
PrepareClaimed(w) ==
    /\ pc[w] \in {"delete", "prepare"} /\ TakeoverAllowed
    /\ \/ /\ att.gate
          /\ claim' = Uncertain /\ Goto(w, "idle")
          /\ UNCHANGED <<point, att, own, auth, sent, faults>>
       \/ /\ ~att.gate
          /\ IF point.held THEN UNCHANGED faults ELSE Fault("provider")
          /\ Block(IF point.held THEN "active_hold" ELSE "provider_identity_conflict")
          /\ claim' = [Uncertain EXCEPT !.rev = FALSE]
          /\ Goto(w, "audit_end") /\ UNCHANGED <<own, sent>>
       \/ /\ ~att.gate /\ ~point.held /\ Fault("provider")
          /\ \/ /\ att' = [att EXCEPT !.phase = "provider_delete", !.reason = "none", !.gate = TRUE]
                /\ claim' = [Uncertain EXCEPT !.rev = @ /\ att.phase # "blocked"]
                /\ auth' = IF att.phase = "blocked" THEN {} ELSE auth
                /\ Goto(w, "idle") /\ UNCHANGED point
             \/ Goto(w, "idle") /\ UNCHANGED <<point, att, claim, auth>>
          /\ UNCHANGED <<own, sent>>
       \/ /\ ~att.gate /\ ~point.held
          /\ att' = [att EXCEPT !.phase = "provider_delete", !.reason = "none"]
          /\ point' = [point EXCEPT !.state = "expiring"]
          /\ own' = "live"
          /\ auth' = IF own # "live" \/ att.phase = "blocked" THEN {} ELSE auth
          /\ claim' = InFlight(w) /\ sent' = TRUE
          /\ Goto(w, "calling") /\ UNCHANGED faults
    /\ UNCHANGED <<tomb, slots, lease, gone>>

\* A tombstone ends the preparation; incoherent rows or a current claim end the pass.
PrepareNothing(w) ==
    /\ pc[w] \in {"delete", "prepare"} /\ (Proven \/ Untouchable)
    /\ Goto(w, IF ~Proven THEN "idle" ELSE IF pc[w] = "delete" THEN "confirm" ELSE "proof")
    /\ UNCHANGED <<point, att, own, claim, tomb, slots, lease, auth, sent, gone, faults>>

ProviderReturnsEarly(w) ==                           \* slip: an accepted request counts as done
    /\ pc[w] = "calling"
    /\ Goto(w, "receipt")
    /\ UNCHANGED <<point, att, own, claim, tomb, slots, lease, auth, sent, gone, faults>>

\* executeProviderDelete: the provider answers that the bytes are gone ...
ProviderReturns(w) ==
    /\ pc[w] = "calling"
    /\ gone' = TRUE /\ Goto(w, "receipt")
    /\ UNCHANGED <<point, att, own, claim, tomb, slots, lease, auth, sent, faults>>

\* ... or fails, or the renewer cancels the call because it lost the claim.
ProviderFails(w) ==
    /\ pc[w] = "calling"
    /\ \/ Fault("provider")
       \/ ~(ClaimCurrent /\ claim.exec = w) /\ UNCHANGED faults
    /\ Goto(w, "uncertain")
    /\ UNCHANGED <<point, att, own, claim, tomb, slots, lease, auth, sent, gone>>

\* A delete that was issued takes effect, whether or not its caller still waits.
DeleteLands ==
    /\ sent /\ ~gone
    /\ gone' = TRUE
    /\ UNCHANGED <<point, att, own, claim, tomb, slots, lease, pc, auth, sent, faults>>

\* persistProviderDeleteReceiptWithClaim: only the execution that holds the
\* claim, while claim and lease are current, turns the answer into a tombstone.
ReceiptAccepted(w) ==
    /\ ClaimCurrent /\ claim.exec = w
    /\ att.phase = "provider_delete" /\ point.state = "expiring"

Receipt(w) ==
    /\ pc[w] = "receipt"
    /\ \/ /\ Proven
          /\ \E to \in {"confirm", "uncertain"} : Goto(w, to)  \* the results agree or not
          /\ UNCHANGED <<point, att, own, claim, tomb, auth, faults>>
       \/ /\ ~Proven /\ ReceiptAccepted(w)
          /\ tomb' = tomb \cup {att.op}
          /\ IF point.held
             THEN /\ claim' = [claim EXCEPT !.state = "proven", !.rev = FALSE]
                  /\ own' = Settled /\ Block("active_hold") /\ Goto(w, "audit_end")
             ELSE /\ claim' = [claim EXCEPT !.state = "proven"]
                  /\ Goto(w, "confirm") /\ UNCHANGED <<point, att, own, auth>>
          /\ UNCHANGED faults
       \/ /\ ~Proven
          /\ \/ ~ReceiptAccepted(w) /\ UNCHANGED faults
             \/ ReceiptAccepted(w) /\ Fault("provider")    \* Verify fails
          /\ Goto(w, "uncertain")
          /\ UNCHANGED <<point, att, own, claim, tomb, auth>>
    /\ UNCHANGED <<slots, lease, sent, gone>>

\* markEffectClaimUncertain
MarkUncertain(w) ==
    /\ pc[w] = "uncertain"
    /\ Goto(w, "idle")
    /\ IF Coherent /\ ~Proven /\ Claimed /\ claim.exec = w
       THEN /\ claim' = Uncertain
            /\ att' = [att EXCEPT !.gate = @ \/ att.phase = "provider_delete"]
       ELSE UNCHANGED <<att, claim>>
    /\ UNCHANGED <<point, own, tomb, slots, lease, auth, sent, gone, faults>>

-----------------------------------------------------------------------------
(* Retrying a blocked attempt, and its end. *)

\* retryBlockedProviderDelete reads whether a claim exists; the decision is
\* used two transactions later.
RetryBlocked(w) ==
    /\ pc[w] = "retry"
    /\ Goto(w, IF ~Coherent THEN "idle" ELSE IF Proven THEN "confirm"
               ELSE IF Claimed THEN "audit_c" ELSE "audit_u")
    /\ UNCHANGED <<point, att, own, claim, tomb, slots, lease, auth, sent, gone, faults>>

ResumePhaseAhead ==                                  \* slip: an unproven cleanup is not repeated
    CASE att.reason \in {"fence_lost", "active_hold"} /\ Proven -> "tombstoning"
      [] att.reason \in ProviderReasons -> "provider_delete"
      [] att.reason = "owner_cleanup_unproven" /\ Deletes -> "provider_delete"
      [] att.reason = "lease_live" -> "draining"
      [] OTHER -> "revoking"

\* blockedResumePhase
ResumePhase ==
    CASE att.reason \in {"fence_lost", "active_hold"} /\ Proven -> "tombstoning"
      [] att.reason \in ProviderReasons -> "provider_delete"
      [] att.reason = "lease_live" -> "draining"
      [] OTHER -> "revoking"

\* retryUnclaimedBlocked.  A lease past its absolute deadline is replaced here
\* (adoptExpiredLifecycleFenceTx), and where a claim exists by PrepareClaimed
\* (takeoverProviderLeaseTx).
Resume(w) ==
    /\ pc[w] = "resume"
    /\ IF att.phase # "blocked" \/ att.gate
       THEN Goto(w, "idle") /\ UNCHANGED <<point, att, own, claim, auth>>
       ELSE IF own \in {"none", "released"}
       THEN Block("fence_lost") /\ Goto(w, "idle") /\ claim' = Outdated(FALSE) /\ UNCHANGED own
       ELSE /\ own' = "live"
            /\ IF ~point.held
               THEN /\ Move(ResumePhase) /\ Goto(w, "advance")
                    /\ claim' = Outdated(own # "live")
                    /\ point' = IF Deletes /\ ResumePhase # "tombstoning"
                                THEN [point EXCEPT !.state = "expiring"] ELSE point
               ELSE /\ Goto(w, "idle")
                    /\ IF att.reason = "active_hold"
                       THEN /\ claim' = IF own = "live" THEN claim ELSE Outdated(TRUE)
                            /\ auth' = IF own = "live" THEN auth ELSE {}
                            /\ UNCHANGED <<point, att>>
                       ELSE Block("active_hold") /\ claim' = Outdated(own # "live")
    /\ UNCHANGED <<tomb, slots, lease, sent, gone, faults>>

\* tombstoneAndCompleteProviderProof
CompleteDelete(w) ==
    /\ pc[w] = "advance" /\ att.phase = "tombstoning" /\ Deletes /\ Proven
    /\ own' = Settled /\ claim' = Outdated(FALSE) /\ Goto(w, "idle")
    /\ IF point.held THEN Block("active_hold")
       ELSE /\ att' = [att EXCEPT !.phase = "complete"] /\ auth' = {}
            /\ point' = [point EXCEPT !.state = "expired"]
    /\ UNCHANGED <<tomb, slots, lease, sent, gone, faults>>

\* tombstoneAndComplete of a retirement.
CompleteRetire(w) ==
    /\ pc[w] = "advance" /\ att.phase = "tombstoning" /\ ~Deletes
    /\ \/ Refuse(w)
       \/ /\ Cleared /\ Proven
          /\ att' = [att EXCEPT !.phase = "complete"] /\ auth' = {}
          /\ point' = [point EXCEPT !.state = "retired"]
          /\ own' = "released" /\ claim' = Outdated(FALSE)
          /\ Goto(w, "idle") /\ UNCHANGED lease
    /\ UNCHANGED <<tomb, slots, sent, gone, faults>>

-----------------------------------------------------------------------------
(* Time and failures. *)

\* retry_at passes.
GateOpens ==
    /\ att.gate
    /\ att' = [att EXCEPT !.gate = FALSE]
    /\ UNCHANGED <<point, own, claim, tomb, slots, lease, pc, auth, sent, gone, faults>>

\* The worker dies, or the context of its pass is canceled.
Crash(w) ==
    /\ pc[w] # "idle" /\ Fault("crash")
    /\ Goto(w, "idle") /\ auth' = auth \ {w}
    /\ UNCHANGED <<point, att, own, claim, tomb, slots, lease, sent, gone>>

\* Nobody renews the claim of an execution that died.
ClaimLapses ==
    /\ claim.state = "in_flight" /\ claim.live
    /\ pc[claim.exec] \notin {"calling", "receipt", "uncertain"}
    /\ claim' = [claim EXCEPT !.live = FALSE]
    /\ UNCHANGED <<point, att, own, tomb, slots, lease, pc, auth, sent, gone, faults>>

\* The worker is too slow for the lease, or for the claim.
FenceLapses ==
    /\ own = "live" /\ Active /\ Fault("lapse")
    /\ own' \in {"live", "lapsed"} /\ claim' = [claim EXCEPT !.live = FALSE]
    /\ UNCHANGED <<point, att, tomb, slots, lease, pc, auth, sent, gone>>

\* The attempt outlasts the absolute deadline of its lease.
DeadlinePasses ==
    /\ own \in {"live", "lapsed"} /\ Active /\ Fault("deadline")
    /\ own' = "over" /\ claim' = [claim EXCEPT !.live = FALSE]
    /\ UNCHANGED <<point, att, tomb, slots, lease, pc, auth, sent, gone>>

-----------------------------------------------------------------------------

WorkerStep(w) ==
    \/ Flush(w) \/ ScheduleAuditRetry(w)
    \/ AuditAfterProof(w) \/ AuditAfterBlock(w) \/ AuditBeforeRetry(w)
    \/ ProgressProof(w) \/ Heartbeat(w) \/ Dispatch(w)
    \/ Select(w) \/ PrepareEffect(w) \/ (\E r \in Readers : SettleContent(w, r))
    \/ EffectDone(w) \/ EffectFailed(w) \/ EffectOutlived(w) \/ Drain(w)
    \/ PrepareUnclaimed(w) \/ PrepareClaimed(w) \/ PrepareNothing(w)
    \/ ProviderReturns(w) \/ ProviderFails(w) \/ Receipt(w) \/ MarkUncertain(w)
    \/ RetryBlocked(w) \/ Resume(w) \/ CompleteDelete(w) \/ CompleteRetire(w)

ReaderStep(r) ==
    Acquire(r) \/ ReleaseLease(r) \/ LapseLease(r) \/ TakeoverLease(r) \/ EndLease(r)

Next ==
    \/ \E w \in Workers : WorkerStep(w) \/ Crash(w)
    \/ \E r \in Readers : ReaderStep(r)
    \/ \E op \in Operations : ClaimAttempt(op)
    \/ CreateHold \/ ReleaseHold \/ ReconcileExpired \/ GateOpens
    \/ DeleteLands \/ ClaimLapses \/ FenceLapses \/ DeadlinePasses

Spec == Init /\ [][Next]_vars

\* Workers run on a ticker and every call they make ends; time passes; the
\* lease service reconciles on its own ticker.  Nobody has to start an attempt,
\* read, hold, or release a hold.
Fairness ==
    /\ \A w \in Workers : WF_vars(WorkerStep(w))
    /\ \A r \in Readers : WF_vars(EndLease(r))
    /\ WF_vars(ReconcileExpired) /\ WF_vars(GateOpens) /\ WF_vars(ClaimLapses)

FairSpec == Spec /\ Fairness

-----------------------------------------------------------------------------
(* Properties. *)

\* No byte is deleted, and no delete is even issued, while a lease on the point
\* is active or a hold protects it, however late the call lands (drain, owner
\* cleanup and admission together).
DeleteIsUnread ==
    sent \/ gone => ~point.held /\ \A r \in Readers : lease[r] = "none"

\* A tombstone of a deleting operation and the state expired are only written
\* when the provider really deleted the bytes.
ProofIsTrue ==
    /\ tomb \ {"mutable_retire"} # {} => gone
    /\ point.state = "expired" => Proven /\ Deletes

\* The point's state shows readers and operators what the attempt does: while a
\* deleting attempt is incomplete the point is expiring or purge_blocked, it is
\* purge_blocked when the attempt is blocked, and an execution whose claim is
\* current finds it expiring, so that its receipt can be accepted.
PointShowsAttempt ==
    /\ Active /\ Deletes => point.state \in {"expiring", "purge_blocked"}
    /\ Active /\ Deletes /\ att.phase = "blocked" => point.state = "purge_blocked"
    /\ ClaimCurrent => point.state = "expiring" /\ att.phase = "provider_delete"

\* While a claim is current no other worker takes the deletion over.
LiveClaimKept == [][ClaimCurrent => claim'.exec = claim.exec]_vars

\* What the rows say to somebody who only cares about the point.
Status ==
    IF Active THEN "closing"
    ELSE IF point.state = "readable" THEN "open"
    ELSE IF point.state = "retired" THEN "retired" ELSE "gone"
Reading == {r \in Readers : lease[r] # "none"}

Abstract == INSTANCE RecoveryPoint WITH
    status <- Status, readers <- Reading, held <- point.held, stored <- ~gone

\* Workers, leases, claims and audits together do what RecoveryPoint promises.
RefinesPoint == Abstract!PointSpec

Unheld == Active /\ ~point.held

\* The two ways an attempt gets stuck: its lease outlived the absolute deadline
\* (deadline_wedge), or a retry decided before the claim existed rotated the
\* lease without the claim (RetryBlocked, Resume).
Stuck == own \in {"over", "expired"} \/ ~Coherent

\* An attempt that no hold protects the point from completes once faults stop,
\* whoever died, stalled or failed in between, unless it is stuck.
FinishesUnlessStuck == Unheld ~> (~Active \/ Stuck)

\* An attempt that no hold protects the point from completes once faults stop.
AttemptsFinish == Unheld ~> ~Active
=============================================================================
