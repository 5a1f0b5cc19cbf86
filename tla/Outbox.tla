------------------------------- MODULE Outbox -------------------------------
(***************************************************************************)
(* The transactional outbox: rows written beside the business change, the  *)
(* publisher workers that claim them under a lease and hand them to the    *)
(* stream, the dead letters, the operator's dead-letter retry, and the     *)
(* restore-mode gate that pauses publishing for a tenant.                  *)
(*                                                                         *)
(* A transaction that reclaims, selects, claims or retries reads the gate  *)
(* (require_outbox_retry_open) in one statement and touches rows in the    *)
(* next, at READ COMMITTED: they are two actions, and restore mode may     *)
(* begin between them.  Every other action is one database transaction, or *)
(* the one call to the stream that happens between two of them.            *)
(***************************************************************************)
EXTENDS Naturals, FiniteSets

CONSTANTS
    Events,        \* outbox rows, numbered in (created_at, id) order
    Tenants,       \* tenants, numbered in id order
    TenantOf,      \* the tenant of each row
    Workers,       \* processes that run publish passes
    Callers,       \* those of them that serve the API's one-tenant publish call
    MaxAttempts,   \* MAX_OUTBOX_PUBLISH_ATTEMPTS
    Lease,         \* OUTBOX_PUBLISH_LEASE_TIMEOUT_SECONDS, in clock ticks
    BatchLimit,    \* the limit of one tenant's batch
    MaxTime,       \* bound: the clock stops here
    LastCrash,     \* bound: no crash at or after this time
    MaxRetries,    \* bound: number of dead-letter retries
    MaxRestores    \* bound: number of times restore mode starts

ASSUME OutboxConstants ==
    /\ Events \subseteq Nat \ {0} /\ Tenants \subseteq Nat
    /\ TenantOf \in [Events -> Tenants]
    /\ Callers \subseteq Workers
    /\ MaxAttempts \in Nat \ {0} /\ Lease \in Nat /\ BatchLimit \in Nat \ {0}
    /\ MaxTime \in Nat /\ LastCrash \in Nat
    /\ MaxRetries \in Nat /\ MaxRestores \in Nat

VARIABLES
    status,      \* outbox_events.status, or "absent" before the insert
    attempts,    \* outbox_events.attempts
    claimedAt,   \* outbox_events.claimed_at, or NoClaim for NULL
    deadLetters, \* source events of the rows of dead_letter_events
    paused,      \* tenants whose latest restore-mode audit event is active
    gated,       \* workers whose open transaction has read the gate and found it open
    admitted,    \* dead letters whose retry transaction has done so
    pc,          \* where each worker is in publish_pending_outbox
    todo,        \* the tenants a worker's pass has yet to finish
    batch,       \* the rows of the batch still to be tried
    cur,         \* the row the worker claimed last
    fence,       \* the claimed_at the worker read back from its claim
    seen,        \* the attempts the worker read back from its claim
    delivered,   \* events the stream has accepted at least once
    now,         \* the clock shared by the hosts
    retries, restores,   \* how much of each bound is used
    straddling   \* history: workers past the gate when restore mode began

rowVars    == <<status, attempts, claimedAt, deadLetters>>
passVars   == <<pc, todo, batch, cur, fence, seen>>
gateVars   == <<gated, admitted>>
boundVars  == <<retries, restores>>
vars == <<rowVars, passVars, gateVars, boundVars, paused, delivered, now, straddling>>

-----------------------------------------------------------------------------

Statuses == {"absent", "pending", "publishing", "published", "failed"}
PCs      == {"idle", "reclaim", "select", "claim", "publish", "sent", "raised"}
InFlight == {"publish", "sent", "raised"}

NoEvent  == 0

\* NULL in claimed_at; larger than any time the clock shows.
NoClaim == MaxTime + 1

\* order_by(created_at, id).limit(limit)
Oldest(S) == {e \in S : Cardinality({f \in S : f < e}) < BatchLimit}

IsFirst(x, S) == x \in S /\ \A y \in S : x <= y

RowsOf(t) == {e \in Events : TenantOf[e] = t}

Init ==
    /\ status    = [e \in Events |-> "absent"]
    /\ attempts  = [e \in Events |-> 0]
    /\ claimedAt = [e \in Events |-> NoClaim]
    /\ deadLetters = {}
    /\ paused = {}
    /\ gated = {} /\ admitted = {}
    /\ pc    = [w \in Workers |-> "idle"]
    /\ todo  = [w \in Workers |-> {}]
    /\ batch = [w \in Workers |-> {}]
    /\ cur   = [w \in Workers |-> NoEvent]
    /\ fence = [w \in Workers |-> 0]
    /\ seen  = [w \in Workers |-> 0]
    /\ delivered = {}
    /\ now = 0
    /\ retries = 0 /\ restores = 0
    /\ straddling = {}

-----------------------------------------------------------------------------
(* Writers and the operator *)

\* A business transaction commits its outbox row.  A second insert with the
\* same idempotency key is rolled back to the savepoint and changes nothing.
InsertOutboxEvent(e) ==
    /\ status[e] = "absent"
    /\ status' = [status EXCEPT ![e] = "pending"]
    /\ UNCHANGED <<attempts, claimedAt, deadLetters, passVars, gateVars, boundVars,
                   paused, delivered, now, straddling>>

\* dead_letter_retry_plan finds the dead letter and its source row, and the
\* row's compare-and-set to pending will match.
Retryable(e) == e \in deadLetters /\ status[e] = "failed"

\* retry_dead_letter_event begins: the gate is open and the plan is read.
AdmitRetry(e) ==
    /\ retries < MaxRetries
    /\ TenantOf[e] \notin paused
    /\ Retryable(e)
    /\ e \notin admitted
    /\ admitted' = admitted \cup {e}
    /\ UNCHANGED <<rowVars, passVars, gated, boundVars, paused, delivered, now,
                   straddling>>

\* Mutant: the retry requeues the row and leaves its dead letter behind.
RetryDeadLetterKeepsLetter(e) ==
    /\ retries < MaxRetries
    /\ e \in admitted
    /\ Retryable(e)
    /\ admitted' = admitted \ {e}
    /\ status'   = [status EXCEPT ![e] = "pending"]
    /\ attempts' = [attempts EXCEPT ![e] = 0]
    /\ retries'  = retries + 1
    /\ UNCHANGED <<claimedAt, deadLetters, passVars, gated, restores, paused,
                   delivered, now, straddling>>

\* retry_dead_letter_event goes on: requeue the failed source row with a fresh
\* attempt budget and delete its dead letter.  A second retry of the same row
\* waits for the first one's row lock, misses, and rolls back.
RetryDeadLetter(e) ==
    /\ retries < MaxRetries
    /\ e \in admitted
    /\ Retryable(e)
    /\ admitted' = admitted \ {e}
    /\ status'    = [status EXCEPT ![e] = "pending"]
    /\ attempts'  = [attempts EXCEPT ![e] = 0]
    /\ claimedAt' = [claimedAt EXCEPT ![e] = NoClaim]
    /\ deadLetters' = deadLetters \ {e}
    /\ retries' = retries + 1
    /\ UNCHANGED <<passVars, gated, restores, paused, delivered, now, straddling>>

InHand(w, t) == IsFirst(t, todo[w])

\* The worker's claim of a row of the tenant has passed the gate: the claim may
\* be committed, or be about to be.
PastGate(w, t) == (w \in gated \/ pc[w] \in InFlight) /\ InHand(w, t)

\* The restore_mode_started and restore_mode_resume_approved audit events of
\* a tenant; the gate is reconstructed from the latest of them.
StartRestoreMode(t) ==
    /\ restores < MaxRestores
    /\ t \notin paused
    /\ paused' = paused \cup {t}
    /\ restores' = restores + 1
    /\ straddling' = straddling \cup {w \in Workers : PastGate(w, t)}
    /\ UNCHANGED <<rowVars, passVars, gateVars, retries, delivered, now>>

ApproveRestoreResume(t) ==
    /\ t \in paused
    /\ paused' = paused \ {t}
    /\ straddling' = {w \in straddling : ~InHand(w, t)}
    /\ UNCHANGED <<rowVars, passVars, gateVars, boundVars, delivered, now>>

-----------------------------------------------------------------------------
(* The publisher *)

\* The tenants of one pass: the worker's publish_all_pending_outbox takes every tenant in id
\* order, the API's publish_pending_outbox takes the caller's tenant only.
PassScopes(w) == IF w \in Callers THEN {{t} : t \in Tenants} ELSE {Tenants}

StartPass(w, ts) ==
    /\ pc[w] = "idle"
    /\ pc'   = [pc EXCEPT ![w] = "reclaim"]
    /\ todo' = [todo EXCEPT ![w] = ts]
    /\ UNCHANGED <<rowVars, gateVars, batch, cur, fence, seen, boundVars, paused,
                   delivered, now, straddling>>

\* Mutant: the claim trusts the check made when the batch was read.
GateCheckedBefore(w) ==
    \E t \in Tenants : InHand(w, t) /\ (pc[w] = "claim" \/ t \notin paused)

\* require_outbox_retry_open for the tenant in hand.
GateOpen(w) == \E t \in Tenants : InHand(w, t) /\ t \notin paused

\* A worker that has to read the gate: before the reclaim, before the batch is
\* read, and before each claim.
AtGate(w) ==
    /\ pc[w] \in {"reclaim", "select", "claim"}
    /\ pc[w] = "claim" => batch[w] # {}
    /\ w \notin gated

\* The transaction has begun and the gate is open.
PassGate(w) ==
    /\ AtGate(w)
    /\ GateOpen(w)
    /\ gated' = gated \cup {w}
    /\ UNCHANGED <<rowVars, passVars, admitted, boundVars, paused, delivered, now,
                   straddling>>

\* The transaction has ended without a claim.
LeaveGate(w) ==
    /\ gated' = gated \ {w}
    /\ straddling' = straddling \ {w}
    /\ UNCHANGED admitted

\* The gate raised ConflictDetected: nothing between here and the top of the
\* pass catches it, so the tenants still to do are dropped with the batch.
AbortPass(w) ==
    /\ AtGate(w)
    /\ \E t \in paused : InHand(w, t)
    /\ pc'    = [pc EXCEPT ![w] = "idle"]
    /\ todo'  = [todo EXCEPT ![w] = {}]
    /\ batch' = [batch EXCEPT ![w] = {}]
    /\ UNCHANGED <<rowVars, gateVars, cur, fence, seen, boundVars, paused, delivered,
                   now, straddling>>

\* Mutants: the lease is not compared; it is compared with <=; a row whose
\* attempt budget is spent is left alone.
StaleAtOnce(e) ==
    status[e] = "publishing" /\ claimedAt[e] # NoClaim
StaleOneTickEarly(e) ==
    status[e] = "publishing" /\ claimedAt[e] # NoClaim /\ claimedAt[e] + Lease <= now
StaleWithBudget(e) ==
    /\ status[e] = "publishing" /\ claimedAt[e] # NoClaim
    /\ claimedAt[e] + Lease < now /\ attempts[e] < MaxAttempts

\* Rows whose claim is older than the lease: claimed_at < now - lease.
Stale(e) ==
    /\ status[e] = "publishing"
    /\ claimedAt[e] # NoClaim
    /\ claimedAt[e] + Lease < now

\* _reclaim_stale_publishing: requeue the stale rows of the tenant in hand,
\* keeping their attempts.
ReclaimStalePublishing(w) ==
    /\ pc[w] = "reclaim"
    /\ w \in gated
    /\ \E t \in Tenants :
         LET stale == {e \in RowsOf(t) : Stale(e)}
         IN  /\ InHand(w, t)
             /\ status'    = [e \in Events |-> IF e \in stale THEN "pending" ELSE status[e]]
             /\ claimedAt' = [e \in Events |-> IF e \in stale THEN NoClaim ELSE claimedAt[e]]
    /\ pc' = [pc EXCEPT ![w] = "select"]
    /\ LeaveGate(w)
    /\ UNCHANGED <<attempts, deadLetters, todo, batch, cur, fence, seen,
                   boundVars, paused, delivered, now>>

\* _pending_events: read the batch; the rows are not locked.
SelectPending(w) ==
    /\ pc[w] = "select"
    /\ w \in gated
    /\ \E t \in Tenants :
         /\ InHand(w, t)
         /\ batch' = [batch EXCEPT ![w] =
                        Oldest({e \in RowsOf(t) : status[e] = "pending"})]
    /\ pc' = [pc EXCEPT ![w] = "claim"]
    /\ LeaveGate(w)
    /\ UNCHANGED <<rowVars, todo, cur, fence, seen, boundVars, paused, delivered, now>>

\* The batch of the tenant in hand is used up: go on to the next tenant.
FinishTenant(w) ==
    /\ pc[w] = "claim"
    /\ batch[w] = {}
    /\ \E t \in Tenants :
         /\ InHand(w, t)
         /\ todo' = [todo EXCEPT ![w] = @ \ {t}]
         /\ pc'   = [pc EXCEPT ![w] = IF todo[w] = {t} THEN "idle" ELSE "reclaim"]
    /\ UNCHANGED <<rowVars, gateVars, batch, cur, fence, seen, boundVars, paused,
                   delivered, now, straddling>>

\* _claim_event, past the gate, won its compare-and-set from pending to
\* publishing.  _lease_now is read as the statement is sent: one action.
ClaimEvent(w) ==
    /\ pc[w] = "claim"
    /\ w \in gated
    /\ \E e \in Events :
         /\ IsFirst(e, batch[w])
         /\ status[e] = "pending"
         /\ status'    = [status EXCEPT ![e] = "publishing"]
         /\ attempts'  = [attempts EXCEPT ![e] = @ + 1]
         /\ claimedAt' = [claimedAt EXCEPT ![e] = now]
         /\ batch' = [batch EXCEPT ![w] = @ \ {e}]
         /\ cur'   = [cur EXCEPT ![w] = e]
         /\ seen'  = [seen EXCEPT ![w] = attempts[e] + 1]
    /\ fence' = [fence EXCEPT ![w] = now]
    /\ pc' = [pc EXCEPT ![w] = "publish"]
    /\ gated' = gated \ {w}
    /\ UNCHANGED <<deadLetters, admitted, todo, boundVars, paused, delivered, now,
                   straddling>>

\* _claim_event lost it: the row is skipped.
SkipEvent(w) ==
    /\ pc[w] = "claim"
    /\ w \in gated
    /\ \E e \in Events :
         /\ IsFirst(e, batch[w])
         /\ status[e] # "pending"
         /\ batch' = [batch EXCEPT ![w] = @ \ {e}]
    /\ LeaveGate(w)
    /\ UNCHANGED <<rowVars, pc, todo, cur, fence, seen, boundVars, paused,
                   delivered, now>>

\* stream_adapter.publish_event.  It may accept the event and return, accept
\* it and still raise (a lost acknowledgement), or raise without accepting.
PublishEvent(w) ==
    /\ pc[w] = "publish"
    /\ \E accepted \in BOOLEAN, returned \in BOOLEAN :
         /\ returned => accepted
         /\ delivered' = IF accepted THEN delivered \cup {cur[w]} ELSE delivered
         /\ pc' = [pc EXCEPT ![w] = IF returned THEN "sent" ELSE "raised"]
    /\ UNCHANGED <<rowVars, gateVars, todo, batch, cur, fence, seen, boundVars, paused,
                   now, straddling>>

\* Mutants: the marks update by id and status, or by id alone.
HoldsStatus(w) == status[cur[w]] = "publishing"
HoldsAnything(w) == cur[w] # NoEvent

\* The compare-and-set shared by the three marks: publishing, with the claim
\* timestamp this worker holds.
HoldsClaim(w) ==
    /\ status[cur[w]] = "publishing"
    /\ claimedAt[cur[w]] = fence[w]

\* The worker is done with the row, whether its mark hit or was superseded.
ReleaseRow(w) ==
    /\ pc'    = [pc EXCEPT ![w] = "claim"]
    /\ cur'   = [cur EXCEPT ![w] = NoEvent]
    /\ fence' = [fence EXCEPT ![w] = 0]
    /\ seen'  = [seen EXCEPT ![w] = 0]
    /\ straddling' = straddling \ {w}
    /\ UNCHANGED <<gateVars, todo, batch, boundVars, paused, delivered, now>>

\* _mark_published
MarkPublished(w) ==
    /\ pc[w] = "sent"
    /\ HoldsClaim(w)
    /\ status'    = [status EXCEPT ![cur[w]] = "published"]
    /\ claimedAt' = [claimedAt EXCEPT ![cur[w]] = NoClaim]
    /\ UNCHANGED <<attempts, deadLetters>>
    /\ ReleaseRow(w)

\* _mark_retry_pending, while the attempt budget is not spent
MarkRetryPending(w) ==
    /\ pc[w] = "raised"
    /\ seen[w] < MaxAttempts
    /\ HoldsClaim(w)
    /\ status'    = [status EXCEPT ![cur[w]] = "pending"]
    /\ claimedAt' = [claimedAt EXCEPT ![cur[w]] = NoClaim]
    /\ UNCHANGED <<attempts, deadLetters>>
    /\ ReleaseRow(w)

\* _mark_failed: the row and its dead letter in one transaction.  The dead
\* letter's id is derived from the event id, so a second one would violate
\* the primary key and roll the transaction back.
MarkFailed(w) ==
    /\ pc[w] = "raised"
    /\ seen[w] >= MaxAttempts
    /\ HoldsClaim(w)
    /\ cur[w] \notin deadLetters
    /\ status'    = [status EXCEPT ![cur[w]] = "failed"]
    /\ claimedAt' = [claimedAt EXCEPT ![cur[w]] = NoClaim]
    /\ deadLetters' = deadLetters \cup {cur[w]}
    /\ UNCHANGED attempts
    /\ ReleaseRow(w)

\* Any mark whose compare-and-set finds the claim superseded.
Superseded(w) ==
    /\ pc[w] \in {"sent", "raised"}
    /\ ~HoldsClaim(w)
    /\ UNCHANGED rowVars
    /\ ReleaseRow(w)

-----------------------------------------------------------------------------
(* The environment *)

\* A worker process dies and is restarted: its local state is gone, an open
\* transaction is rolled back, the row it had claimed stays in publishing.
Crash(w) ==
    /\ now < LastCrash
    /\ pc[w] # "idle"
    /\ pc'    = [pc EXCEPT ![w] = "idle"]
    /\ todo'  = [todo EXCEPT ![w] = {}]
    /\ batch' = [batch EXCEPT ![w] = {}]
    /\ cur'   = [cur EXCEPT ![w] = NoEvent]
    /\ fence' = [fence EXCEPT ![w] = 0]
    /\ seen'  = [seen EXCEPT ![w] = 0]
    /\ gated' = gated \ {w}
    /\ straddling' = straddling \ {w}
    /\ UNCHANGED <<rowVars, admitted, boundVars, paused, delivered, now>>

Tick ==
    /\ now < MaxTime
    /\ now' = now + 1
    /\ UNCHANGED <<rowVars, passVars, gateVars, boundVars, paused, delivered,
                   straddling>>

-----------------------------------------------------------------------------

\* What a worker does once its pass has begun.
WorkerStep(w) ==
    \/ PassGate(w)
    \/ AbortPass(w)
    \/ ReclaimStalePublishing(w)
    \/ SelectPending(w)
    \/ FinishTenant(w)
    \/ ClaimEvent(w)
    \/ SkipEvent(w)
    \/ PublishEvent(w)
    \/ MarkPublished(w)
    \/ MarkRetryPending(w)
    \/ MarkFailed(w)
    \/ Superseded(w)

Next ==
    \/ \E e \in Events : InsertOutboxEvent(e) \/ AdmitRetry(e) \/ RetryDeadLetter(e)
    \/ \E t \in Tenants : StartRestoreMode(t) \/ ApproveRestoreResume(t)
    \/ \E w \in Workers : WorkerStep(w) \/ Crash(w)
    \/ \E w \in Workers : \E ts \in PassScopes(w) : StartPass(w, ts)
    \/ Tick

Spec == Init /\ [][Next]_vars

\* The supervisor reruns the publisher worker, a started pass goes on, and
\* time passes.  Nothing is assumed of writers, operators or crashes.
Fairness ==
    /\ \A w \in Workers \ Callers : WF_vars(StartPass(w, Tenants))
    /\ \A w \in Workers : WF_vars(WorkerStep(w))
    /\ WF_vars(Tick)

FairSpec == Spec /\ Fairness

-----------------------------------------------------------------------------
(* Properties *)

\* Rows keep to the publisher's statuses, and workers to rows, tenants and
\* timestamps that exist.
TypeOK ==
    /\ status \in [Events -> Statuses]
    /\ attempts \in [Events -> Nat]
    /\ claimedAt \in [Events -> 0..NoClaim]
    /\ deadLetters \subseteq Events
    /\ paused \subseteq Tenants
    /\ gated \subseteq Workers /\ admitted \subseteq Events
    /\ pc \in [Workers -> PCs]
    /\ todo \in [Workers -> SUBSET Tenants]
    /\ batch \in [Workers -> SUBSET Events]
    /\ cur \in [Workers -> Events \cup {NoEvent}]
    /\ fence \in [Workers -> 0..MaxTime]
    /\ seen \in [Workers -> Nat]
    /\ delivered \subseteq Events
    /\ now \in 0..MaxTime
    /\ retries \in Nat /\ restores \in Nat
    /\ straddling \subseteq Workers

\* outbox_publisher_service.py fences every mark by the claim timestamp and
\* not by a counter or an owner.  However slow a worker is and whoever requeued
\* its row, two workers never hold a timestamp that both would pass the
\* compare-and-set of the same row.
FenceIsExclusive ==
    \A v, w \in Workers :
        /\ pc[v] \in InFlight /\ pc[w] \in InFlight
        /\ cur[v] = cur[w]
        /\ HoldsClaim(v) /\ HoldsClaim(w)
        => v = w

\* _mark_failed and retry_dead_letter_event keep the two tables in step: a row
\* is failed exactly while its dead letter exists, so an operator can always
\* see and retry it, and the derived dead-letter id is always free.
DeadLetterIffFailed ==
    \A e \in Events : status[e] = "failed" <=> e \in deadLetters

\* A row is given up only after the attempt budget of its current life is
\* spent, and is published only if the stream took the event.
SettledForAReason ==
    \A e \in Events :
        /\ status[e] = "failed" => attempts[e] >= MaxAttempts
        /\ status[e] = "published" => e \in delivered

\* A claim is never without its timestamp: reclaim_stale_publishing_events
\* skips rows whose claimed_at is NULL, so such a row would be stranded.
ClaimsAreReclaimable ==
    \A e \in Events : status[e] = "publishing" <=> claimedAt[e] # NoClaim

\* require_outbox_retry_open is read again before every claim, so restore mode
\* bounds what is still published.  A claim whose gate read came first may commit
\* after restore mode began; but a worker that holds a row of a tenant in restore
\* mode had passed the gate for that very row before, and once it lets go of the
\* row it takes no other, whatever is left of a batch it read before the pause.
PauseStopsNewClaims ==
    \A w \in Workers :
        pc[w] \in InFlight /\ TenantOf[cur[w]] \in paused => w \in straddling

\* "restore mode closes write/outbox traffic before that expensive scan": no row
\* is claimed for its tenant once restore mode has begun.
PauseIsImmediate ==
    [][\A e \in Events :
         TenantOf[e] \in paused /\ status[e] # "publishing" => status'[e] # "publishing"]_vars

\* The parts of the inductive invariant behind the properties above.
\* A claim timestamp is in the past.
ClaimsInThePast ==
    /\ \A e \in Events : claimedAt[e] # NoClaim => claimedAt[e] <= now
    /\ \A w \in Workers : fence[w] <= now

\* A worker in flight either still holds its claim, and then knows the row's
\* attempts, or lost it only after the lease had run out.
LostOnlyAfterLease ==
    \A w \in Workers :
        pc[w] \in InFlight =>
            /\ cur[w] \in Events
            /\ IF HoldsClaim(w) THEN seen[w] = attempts[cur[w]]
                                ELSE fence[w] + Lease < now

\* So workers in flight with the same row hold different timestamps.
FencesDiffer ==
    \A v, w \in Workers :
        /\ pc[v] \in InFlight /\ pc[w] \in InFlight
        /\ cur[v] = cur[w] /\ fence[v] = fence[w]
        => v = w

\* A batch, and a row in flight, are of the tenant in hand; "sent" means accepted.
BatchInHand ==
    \A w \in Workers :
        /\ pc[w] \in InFlight => InHand(w, TenantOf[cur[w]])
        /\ pc[w] \in {"idle", "reclaim", "select"} => batch[w] = {}
        /\ \A t \in Tenants : InHand(w, t) => batch[w] \subseteq RowsOf(t)
        /\ pc[w] = "sent" => cur[w] \in delivered

\* Only transactions at a gate are past it; one that is while its tenant is in
\* restore mode straddles.
GateBeforePause ==
    \A w \in gated :
        /\ pc[w] \in {"reclaim", "select", "claim"}
        /\ pc[w] = "claim" => batch[w] # {}
        /\ \E t \in Tenants : InHand(w, t)
        /\ \A t \in paused : InHand(w, t) => w \in straddling

\* The inductive invariant: a worker of outbox_publisher_service.py loses its
\* claim only to a reclaim after the lease, and everything above follows.
OutboxInv ==
    /\ TypeOK /\ ClaimsAreReclaimable /\ ClaimsInThePast /\ LostOnlyAfterLease
    /\ FencesDiffer /\ DeadLetterIffFailed /\ SettledForAReason
    /\ BatchInHand /\ GateBeforePause /\ PauseStopsNewClaims

\* No late mark, reclaim or retry takes a published row back.
PublishedIsFinal ==
    [][\A e \in Events : status[e] = "published" => status'[e] = "published"]_vars

\* "so no event is silently lost": once no tenant is in restore mode any more,
\* every row there is reaches published or the dead letters, over crashes, raised
\* publishes and superseded claims.
NoEventLost ==
    <>[](paused = {}) =>
        []<>(\A e \in Events : status[e] \notin {"pending", "publishing"})

\* "Run one bounded publish pass for every known tenant": a row is published or
\* given up once its own tenant is out of restore mode, whatever the others do.
TenantsAreIndependent ==
    \A e \in Events :
        <>[](TenantOf[e] \notin paused) =>
            (status[e] \in {"pending", "publishing"} ~> status[e] \in {"published", "failed"})
=============================================================================
