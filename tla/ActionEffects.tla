--------------------------- MODULE ActionEffects ---------------------------
(***************************************************************************)
(* Delivery of one after-commit Action effect.  The commit of an Action    *)
(* run writes a receipt; worker threads (ActionEffectDeliveryService) claim*)
(* it under a lease with a fencing token, re-authorize it, seal the        *)
(* dispatch, call the provider and record what the call said.  Operators   *)
(* (ActionEffectOperatorService) cancel it, retry a dead letter, or        *)
(* reconcile an unknown outcome from evidence.  Receipts share nothing, so *)
(* one of them is the whole system.                                        *)
(*                                                                         *)
(* A call is named by the fencing token of the claim that made it.  The    *)
(* bookkeeping variable `unsure' holds the calls that may have taken       *)
(* effect: made, not refused by the provider, and not vouched for by an    *)
(* operator, whose word covers every dispatch sealed until then.           *)
(***************************************************************************)
EXTENDS Naturals, FiniteSets

CONSTANTS
    Workers,        \* delivery threads
    MaxAttempts,    \* max_attempts of the effect's contract (1..10)
    MaxRetries,     \* bound on operator retries
    MaxCrashes,     \* bound on killed workers
    MaxStalls       \* bound on leases that run out under a live worker

ASSUME EffectAssumption ==
    /\ MaxAttempts \in 1 .. 10
    /\ MaxRetries \in Nat /\ MaxCrashes \in Nat /\ MaxStalls \in Nat

VARIABLES
    status,         \* action_effect_receipts.status
    attempts,       \* attempt_count
    maxAttempts,    \* max_attempts (an operator retry raises it)
    fence,          \* fencing_token
    lease,          \* "none", "live" or "expired" (lease_expires_at)
    dispatched,     \* dispatch_started_at is set
    cancelAsked,    \* cancel_requested_at is set
    due,            \* retry_at has passed
    pc,             \* where each worker thread is in _deliver_one
    row,            \* the fencing token and counters of the row it claimed
    outcome,        \* the status it is about to record
    flight,         \* calls on their way to the provider
    landed,         \* calls that took effect at the provider
    unsure,         \* calls that may have taken effect (see above)
    vouched,        \* the last dispatch an operator called undelivered
    stream,         \* the target is a Kafka topic (else a webhook)
    suppressed,     \* the delivery was suppressed by the recipients' policy
    retries,        \* operator retries so far
    crashes, stalls

receiptVars == <<status, attempts, maxAttempts, fence, lease, dispatched, cancelAsked, due>>
workerVars == <<pc, row, outcome>>
callVars == <<flight, landed, unsure, vouched>>
targetVars == <<stream, suppressed>>
boundVars == <<retries, crashes, stalls>>
vars == <<receiptVars, workerVars, callVars, targetVars, boundVars>>

Open == {"pending", "retry_wait", "delivering"}

Statuses == Open \union {"succeeded", "dead_letter", "outcome_unknown", "cancelled"}

Fences == 0 .. MaxAttempts + MaxRetries + 1

NoRow == [fence |-> 0, attempts |-> 0, max |-> 0]

Steps == {"idle", "authorize", "dispatch", "send", "calling", "failed", "rejected", "record"}

\* The variables have their types.
TypeOK ==
    /\ status \in Statuses
    /\ attempts \in 0 .. maxAttempts
    /\ maxAttempts \in 1 .. MaxAttempts + MaxRetries
    /\ fence \in Fences
    /\ lease \in {"none", "live", "expired"}
    /\ dispatched \in BOOLEAN /\ cancelAsked \in BOOLEAN /\ due \in BOOLEAN
    /\ pc \in [Workers -> Steps]
    /\ row \in [Workers -> [fence : Fences, attempts : Nat, max : Nat]]
    /\ outcome \in [Workers -> Statuses]
    /\ flight \subseteq Fences /\ landed \subseteq Fences /\ unsure \subseteq Fences
    /\ vouched \in Fences
    /\ stream \in BOOLEAN /\ suppressed \in BOOLEAN
    /\ retries \in 0 .. MaxRetries /\ crashes \in 0 .. MaxCrashes /\ stalls \in 0 .. MaxStalls

\* _enqueue_one: the Action's commit inserted the receipt.
Init ==
    /\ status = "pending" /\ attempts = 0 /\ maxAttempts = MaxAttempts /\ fence = 0
    /\ lease = "none" /\ dispatched = FALSE /\ cancelAsked = FALSE /\ due = FALSE
    /\ pc = [w \in Workers |-> "idle"]
    /\ row = [w \in Workers |-> NoRow]
    /\ outcome = [w \in Workers |-> "pending"]
    /\ flight = {} /\ landed = {} /\ unsure = {} /\ vouched = 0
    /\ stream \in BOOLEAN /\ suppressed = FALSE
    /\ retries = 0 /\ crashes = 0 /\ stalls = 0

Go(w, step) == pc' = [pc EXCEPT ![w] = step]

\* The thread returns and forgets its row.
Leave(w) ==
    /\ Go(w, "idle")
    /\ row' = [row EXCEPT ![w] = NoRow]
    /\ outcome' = [outcome EXCEPT ![w] = "pending"]

\* The thread will record `s' for the row it claimed.
WillRecord(w, s) ==
    /\ Go(w, "record")
    /\ outcome' = [outcome EXCEPT ![w] = s]
    /\ UNCHANGED row

-----------------------------------------------------------------------------
(* Claim and dispatch *)

\* Mutant: an expired delivery lease is not listed as due work.
ClaimableFresh ==
    /\ attempts < maxAttempts
    /\ status = "pending" \/ (status = "retry_wait" /\ due)

\* pending_receipts and _is_claimable, the same test on the listing and under
\* the row lock.
Claimable ==
    /\ attempts < maxAttempts
    /\ \/ status = "pending"
       \/ status = "retry_wait" /\ due
       \/ status = "delivering" /\ lease = "expired"

\* _deliver_one after the claim: a dispatch that an earlier owner had sealed may
\* have reached the provider, so it is recorded as unknown and not repeated.
AfterClaim(w) ==
    IF dispatched
    THEN Go(w, "record") /\ outcome' = [outcome EXCEPT ![w] = "outcome_unknown"]
    ELSE Go(w, "authorize") /\ UNCHANGED outcome

\* _claim: a fresh lease under the next fencing token.
Claim(w) ==
    /\ pc[w] = "idle"
    /\ Claimable
    /\ status' = "delivering" /\ attempts' = attempts + 1 /\ fence' = fence + 1
    /\ lease' = "live" /\ due' = FALSE
    /\ row' = [row EXCEPT ![w] = [fence |-> fence + 1, attempts |-> attempts + 1, max |-> maxAttempts]]
    /\ AfterClaim(w)
    /\ UNCHANGED <<maxAttempts, dispatched, cancelAsked, callVars, targetVars, boundVars>>

\* _authorized_request: the recipients are authorized, all of them are
\* suppressed, the policy denies them, or the read fails.
Authorize(w) ==
    /\ pc[w] = "authorize"
    /\ \/ Go(w, "dispatch") /\ UNCHANGED <<row, outcome>>
       \/ WillRecord(w, "succeeded")
       \/ Go(w, "rejected") /\ UNCHANGED <<row, outcome>>
       \/ Go(w, "failed") /\ UNCHANGED <<row, outcome>>
    /\ UNCHANGED <<receiptVars, callVars, targetVars, boundVars>>

\* start_dispatch: the owner seals the dispatch unless a cancel came first.
MayDispatch(w) ==
    /\ status = "delivering" /\ row[w].fence = fence
    /\ ~cancelAsked /\ ~dispatched

\* _start_dispatch: sealed, refused (the thread skips the receipt), or the
\* database fails, which the catch-all records as unknown.
StartDispatch(w) ==
    /\ pc[w] = "dispatch"
    /\ \/ /\ MayDispatch(w)
          /\ dispatched' = TRUE
          /\ Go(w, "send") /\ UNCHANGED <<row, outcome>>
       \/ /\ ~MayDispatch(w)
          /\ Leave(w) /\ UNCHANGED dispatched
       \/ /\ WillRecord(w, "outcome_unknown") /\ UNCHANGED dispatched
    /\ UNCHANGED <<status, attempts, maxAttempts, fence, lease, cancelAsked, due,
                   callVars, targetVars, boundVars>>

\* action_effect_executor.execute begins.
Send(w) ==
    /\ pc[w] = "send"
    /\ flight' = flight \union {row[w].fence}
    /\ unsure' = unsure \union ({row[w].fence} \ 1 .. vouched)
    /\ Go(w, "calling")
    /\ UNCHANGED <<receiptVars, row, outcome, landed, vouched, targetVars, boundVars>>

-----------------------------------------------------------------------------
(* The provider *)

\* A request that is on its way takes effect, whoever still waits for it.
Lands(f) ==
    /\ f \in flight
    /\ flight' = flight \ {f} /\ landed' = landed \union {f}
    /\ UNCHANGED <<receiptVars, workerVars, unsure, vouched, targetVars, boundVars>>

\* secure_http_json_write: a 2xx means the call landed, 429 and other 4xx that it
\* did not, and everything else is ambiguous.
WebhookAnswers(w) ==
    LET f == row[w].fence
        Refused == /\ f \in flight
                   /\ flight' = flight \ {f} /\ unsure' = unsure \ {f}
                   /\ UNCHANGED <<row, outcome>>
    IN  \/ f \in landed /\ WillRecord(w, "succeeded") /\ UNCHANGED <<flight, unsure>>
        \/ Refused /\ Go(w, "failed")
        \/ Refused /\ Go(w, "rejected")
        \/ WillRecord(w, "outcome_unknown") /\ UNCHANGED <<flight, unsure>>

\* KafkaStreamAdapter.publish_event: flush leaves nothing queued (the message
\* was acknowledged, or its delivery report, which nobody reads, was an
\* error), or the flush times out with the message still queued.
StreamAnswers(w) ==
    LET f == row[w].fence
    IN  \/ f \in landed /\ WillRecord(w, "succeeded") /\ UNCHANGED <<flight, unsure>>
        \/ f \in flight /\ WillRecord(w, "succeeded") /\ flight' = flight \ {f} /\ UNCHANGED unsure
        \/ Go(w, "failed") /\ UNCHANGED <<row, outcome, flight, unsure>>
        \/ WillRecord(w, "outcome_unknown") /\ UNCHANGED <<flight, unsure>>

Answers(w) ==
    /\ pc[w] = "calling"
    /\ IF stream THEN StreamAnswers(w) ELSE WebhookAnswers(w)
    /\ UNCHANGED <<receiptVars, landed, vouched, targetVars, boundVars>>

-----------------------------------------------------------------------------
(* Recording the outcome *)

\* _record_failure: a known-safe failure of a cancelled effect is a cancel, a
\* retryable one with attempts left waits, any other is a dead letter.
FailureStatus(w) ==
    IF cancelAsked THEN "cancelled"
    ELSE IF pc[w] = "failed" /\ row[w].attempts < row[w].max THEN "retry_wait"
    ELSE "dead_letter"

\* _record_failure up to _complete: the receipt is read in a transaction of its own.
ReadFailure(w) ==
    /\ pc[w] \in {"failed", "rejected"}
    /\ WillRecord(w, FailureStatus(w))
    /\ UNCHANGED <<receiptVars, callVars, targetVars, boundVars>>

\* Mutant: the outcome is written by status alone.
CompletesUnfenced(w) == status = "delivering"

\* complete_receipt: the current owner, under a live lease.
Completes(w) == status = "delivering" /\ row[w].fence = fence /\ lease = "live"

\* _complete: write the outcome, or skip a receipt that is no longer owned.
Record(w) ==
    /\ pc[w] = "record"
    /\ IF Completes(w)
       THEN /\ status' = outcome[w]
            /\ dispatched' = (dispatched /\ outcome[w] # "retry_wait")
            /\ suppressed' = (suppressed \/ (outcome[w] = "succeeded" /\ ~dispatched))
       ELSE UNCHANGED <<status, dispatched, suppressed>>
    /\ Leave(w)
    /\ UNCHANGED <<attempts, maxAttempts, fence, lease, cancelAsked, due, callVars,
                   stream, boundVars>>

-----------------------------------------------------------------------------
(* Operators *)

\* request_cancel on the locked row: a sealed dispatch is only marked, anything
\* else is cancelled at once and its owner fenced off.
CancelReceipt ==
    IF status = "delivering" /\ dispatched
    THEN UNCHANGED <<status, fence, lease>>
    ELSE status' = "cancelled" /\ lease' = "none" /\ fence' = fence + 1

\* cancel: refused on a terminal receipt; a replayed key changes nothing.
RequestCancel ==
    /\ status \in Open
    /\ CancelReceipt
    /\ cancelAsked' = TRUE
    /\ UNCHANGED <<attempts, maxAttempts, dispatched, due, workerVars, callVars, targetVars, boundVars>>

\* Mutant: an unknown outcome may be retried without evidence.
RetryableUnknown == status \in {"dead_letter", "outcome_unknown"}

\* _require_retryable.
Retryable == status = "dead_letter"

\* retry: one more attempt under the same idempotency key.
Retry ==
    /\ retries < MaxRetries
    /\ Retryable
    /\ status' = "retry_wait" /\ maxAttempts' = attempts + 1 /\ due' = TRUE
    /\ lease' = "none" /\ dispatched' = FALSE
    /\ retries' = retries + 1
    /\ UNCHANGED <<attempts, fence, cancelAsked, workerVars, callVars, targetVars, crashes, stalls>>

\* reconcile: the operator's evidence says whether the call took effect.
Reconcile ==
    /\ status = "outcome_unknown"
    /\ \/ landed # {} /\ status' = "succeeded" /\ UNCHANGED <<unsure, vouched>>
       \/ landed = {} /\ status' = "dead_letter" /\ unsure' = {} /\ vouched' = fence
    /\ UNCHANGED <<attempts, maxAttempts, fence, lease, dispatched, cancelAsked, due,
                   workerVars, flight, landed, targetVars, boundVars>>

-----------------------------------------------------------------------------
(* Time and failures *)

Owned == \E w \in Workers : pc[w] # "idle" /\ row[w].fence = fence

\* The owner died, or stalled past its lease.
LeaseExpires ==
    /\ status = "delivering" /\ lease = "live"
    /\ \/ ~Owned /\ UNCHANGED stalls
       \/ Owned /\ stalls < MaxStalls /\ stalls' = stalls + 1
    /\ lease' = "expired"
    /\ UNCHANGED <<status, attempts, maxAttempts, fence, dispatched, cancelAsked, due,
                   workerVars, callVars, targetVars, retries, crashes>>

RetryDue ==
    /\ status = "retry_wait" /\ ~due
    /\ due' = TRUE
    /\ UNCHANGED <<status, attempts, maxAttempts, fence, lease, dispatched, cancelAsked,
                   workerVars, callVars, targetVars, boundVars>>

\* The process is killed; a call it had made is not recalled.
Crash(w) ==
    /\ pc[w] # "idle"
    /\ crashes < MaxCrashes /\ crashes' = crashes + 1
    /\ Leave(w)
    /\ UNCHANGED <<receiptVars, callVars, targetVars, retries, stalls>>

Deliver(w) ==
    \/ Claim(w) \/ Authorize(w) \/ StartDispatch(w) \/ Send(w)
    \/ Answers(w) \/ ReadFailure(w) \/ Record(w)

Next ==
    \/ \E w \in Workers : Deliver(w) \/ Crash(w)
    \/ \E f \in flight : Lands(f)
    \/ RequestCancel \/ Retry \/ Reconcile
    \/ LeaseExpires \/ RetryDue

Spec == Init /\ [][Next]_vars

\* The worker loop ticks and every call returns (its timeout is bounded), time
\* passes; nothing obliges a provider or an operator.
Fairness ==
    /\ \A w \in Workers : WF_vars(Deliver(w))
    /\ WF_vars(LeaseExpires) /\ WF_vars(RetryDue)

FairSpec == Spec /\ Fairness

-----------------------------------------------------------------------------
(* Properties *)

\* The provider is not called again while an earlier call may have taken effect:
\* a retry follows only a refusal by the provider or an operator's evidence
\* (_deliver_one on a sealed dispatch, _require_retryable, reconcile_receipt).
\* Of a Kafka target this is false, see StreamSentSafely.
SentSafely == ~stream => Cardinality(unsure) <= 1

\* The same of a Kafka target: a flush that times out leaves the message queued
\* and is retried as a failure (ActionEffectExecutor, publish_event).
StreamSentSafely == stream => Cardinality(unsure) <= 1

\* The recorded status tells the truth about the provider: an effect that waits,
\* is a dead letter or was cancelled has no call that may still have taken
\* effect, and a succeeded one took effect or was suppressed by policy, whatever
\* zombie workers, cancels and takeovers did in between.  Of a Kafka target this
\* is false as well, see SucceededHasLanded.
OutcomeIsTrue ==
    ~stream =>
        /\ status \in {"pending", "retry_wait", "dead_letter", "cancelled"} => unsure = {}
        /\ status = "succeeded" => suppressed \/ landed # {}

\* The dispatches in doubt: calls that may have taken effect, and the calls a
\* worker has sealed and not yet made.
Doubt == unsure \union ({row[w].fence : w \in {v \in Workers : pc[v] = "send"}} \ 1 .. vouched)

\* A claim is named by its fencing token, and tokens count the claims.
ClaimsAreNamed ==
    /\ maxAttempts <= MaxAttempts + retries
    /\ fence <= attempts + 1 /\ (status # "cancelled" => fence = attempts)
    /\ \A w \in Workers : pc[w] # "idle" => row[w].fence \in 1 .. fence
    /\ \A v, w \in Workers :
          pc[v] # "idle" /\ pc[w] # "idle" /\ row[v].fence = row[w].fence => v = w

\* What the step of the worker that owns the receipt implies about its dispatch.
OwnerKnows(w) ==
    /\ pc[w] \in {"authorize", "dispatch"} => ~dispatched
    /\ pc[w] \in {"send", "calling"} => Doubt \subseteq {row[w].fence}
    /\ pc[w] \in {"failed", "rejected"} => Doubt = {}
    /\ pc[w] = "record" /\ outcome[w] \in {"pending", "retry_wait", "dead_letter", "cancelled"} => Doubt = {}
    /\ pc[w] = "record" /\ outcome[w] = "succeeded" => landed # {} \/ ~dispatched

\* At most one dispatch to a webhook is in doubt, its seal is kept while it is,
\* and the worker that owns the receipt knows of it.
DoubtIsSealed ==
    ~stream =>
        /\ \A f, g \in Doubt : f = g
        /\ Doubt # {} => dispatched
        /\ status \in {"pending", "retry_wait", "dead_letter", "cancelled"} => Doubt = {}
        /\ \A w \in Workers :
              pc[w] # "idle" /\ status = "delivering" /\ row[w].fence = fence => OwnerKnows(w)

\* The receipt is well formed and tells the truth, and what makes that so.
EffectInv == TypeOK /\ ClaimsAreNamed /\ DoubtIsSealed /\ OutcomeIsTrue

\* A delivery abandoned with attempts left is taken over: it leaves `delivering'
\* or uses up its attempts (pending_receipts lists expired leases).
DeliveriesAreTakenOver ==
    (status = "delivering" /\ attempts < maxAttempts)
        ~> (status # "delivering" \/ attempts = maxAttempts)

\* A delivery whose worker died after the dispatch was sealed ends up isolated
\* as unknown (or otherwise settled) and does not stay `delivering'.
DispatchedIsSettled == (status = "delivering" /\ dispatched) ~> (status # "delivering")

\* An operator's retry of a dead letter comes to an end: the receipt does not
\* stay waiting or `delivering' (retry_receipt).
RetryIsSettled == (status = "retry_wait" /\ retries > 0) ~> (status \notin Open)

\* An effect recorded as succeeded took effect, or was suppressed by policy.
SucceededHasLanded == status = "succeeded" => suppressed \/ landed # {}

=============================================================================
