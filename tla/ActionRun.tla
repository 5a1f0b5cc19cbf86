------------------------------ MODULE ActionRun ------------------------------
(***************************************************************************)
(* One asynchronous Action run: its row, its single step with the leased   *)
(* and fenced attempts, the receipt of its before-commit effect, the       *)
(* Temporal workflow that delivers it to workers, and the cancellation a   *)
(* user may ask for.  Runs share no row, so one run stands for all.        *)
(*                                                                         *)
(* The database runs at READ COMMITTED and the services read the run row   *)
(* without a lock, so a transaction that decides on that row's status is   *)
(* two steps: the read, and the locked rows and writes.  An attempt row    *)
(* is locked from the owner check to the end of its transaction.           *)
(***************************************************************************)
EXTENDS Naturals

CONSTANTS
    Workers,        \* activity workers
    Callers,        \* requests and control ticks that dispatch the run
    NoWorker,
    MaxAttempts,    \* attempts of the step before a transient failure is final
    MaxDeliveries,  \* maximum_attempts of the workflow's retry policy
    Settings,       \* the deployments looked at: driver in a child process or not,
                    \* contract with a before-commit effect or not
    MaxMishaps      \* bound: workers and requests that die, leases that run out
                    \* under a live worker, unanswered dispatch calls, together

ASSUME ActionConstants ==
    /\ NoWorker \notin Workers
    /\ MaxAttempts \in Nat \ {0} /\ MaxDeliveries \in Nat \ {0}
    /\ Settings \subseteq BOOLEAN \X BOOLEAN /\ MaxMishaps \in Nat

VARIABLES
    status, dispatch,   \* action_runs: status, dispatch_status
    step,               \* action_run_steps: status
    att,                \* the latest row of action_step_attempts
    edits,              \* how often the edit plan was applied
    receipt,            \* the action_effect_receipts row of the effect
    sent, landed,       \* calls the provider got, and those it carried out
    workflow, flight, deliveries,   \* Temporal: state, current worker, deliveries
    pc, seen, mine,     \* a worker's place, the status it read, its attempt
    fence, rseen, kind, \* its receipt token, the receipt it read, its verdict
    cpc, reply,         \* a dispatching caller's place and Temporal's reply
    signal,             \* a cancel call to Temporal is under way
    subprocess,         \* the activity runs its driver in a child process
    before,             \* the contract has a before-commit effect
    mishaps

runVars    == <<status, dispatch, step, att, edits>>
effectVars == <<receipt, sent, landed>>
flowVars   == <<workflow, flight, deliveries>>
localVars  == <<seen, mine, fence, rseen, kind>>
callVars   == <<cpc, reply>>
setting    == <<subprocess, before>>
boundVars  == <<setting, mishaps>>
vars == <<runVars, effectVars, flowVars, pc, localVars, callVars, signal, boundVars>>

-----------------------------------------------------------------------------

Terminal == {"succeeded", "failed", "cancelled", "conflict", "outcome_unknown"}
RunStatuses  == Terminal \cup {"none", "queued", "running", "cancelling"}
StepStatuses == {"none", "pending", "running", "retry_wait", "succeeded", "failed", "cancelled"}
ReceiptStatuses == {"none", "delivering", "succeeded", "dead_letter", "outcome_unknown"}

\* How an execution can fail: a conflict, an unknown effect outcome, a safely
\* retryable error, anything else.
Failures == {"conflict", "unknown", "transient", "permanent"}
Outcomes == {"succeeded", "dead_letter", "outcome_unknown"}
PCs == {"idle", "load", "claim", "unclaimed", "finalize", "before", "resume", "dispatch",
        "calling", "close", "plan", "read", "commit", "failed", "persist"}

Attempts == [n : Nat, status : {"none", "running", "succeeded", "failed", "cancelled"},
             live : BOOLEAN, due : BOOLEAN]
Receipts == [status : ReceiptStatuses, fence : Nat, live : BOOLEAN, started : BOOLEAN]

NoAttempt == [n |-> 0, status |-> "none", live |-> FALSE, due |-> TRUE]
NoReceipt == [status |-> "none", fence |-> 0, live |-> FALSE, started |-> FALSE]

Init ==
    /\ status = "none" /\ dispatch = "pending" /\ step = "none" /\ att = NoAttempt /\ edits = 0
    /\ receipt = NoReceipt /\ sent = 0 /\ landed = 0
    /\ workflow = "none" /\ flight = NoWorker /\ deliveries = 0
    /\ pc = [w \in Workers |-> "idle"] /\ seen = [w \in Workers |-> "none"]
    /\ mine = [w \in Workers |-> 0] /\ fence = [w \in Workers |-> 0]
    /\ rseen = [w \in Workers |-> NoReceipt] /\ kind = [w \in Workers |-> "none"]
    /\ cpc = [c \in Callers |-> "idle"] /\ reply = [c \in Callers |-> "none"]
    /\ signal = FALSE /\ mishaps = 0
    /\ \E s \in Settings : subprocess = s[1] /\ before = s[2]

\* One more thing goes wrong.
Mishap == mishaps < MaxMishaps /\ mishaps' = mishaps + 1

-----------------------------------------------------------------------------
(* Starting the run *)

\* start: insert_run and _record_queued.  A second start with the key finds
\* the row and only dispatches.
CreateRun ==
    /\ status = "none"
    /\ status' = "queued" /\ step' = "pending"
    /\ UNCHANGED <<dispatch, att, edits, effectVars, flowVars, pc, localVars, callVars, signal, boundVars>>

\* _dispatch, the early return: by start, by a repeated start, by
\* recover_dispatches.
DispatchRead(c) ==
    /\ cpc[c] = "idle" /\ status = "queued" /\ dispatch # "dispatched"
    /\ cpc' = [cpc EXCEPT ![c] = "call"]
    /\ UNCHANGED <<runVars, effectVars, flowVars, pc, localVars, reply, signal, boundVars>>

\* TemporalActionRunOrchestrator.dispatch: the workflow id is rejected when it
\* was used before, so a call that may have arrived can be repeated.
DispatchCall(c) ==
    /\ cpc[c] = "call"
    /\ \/ /\ workflow' = (IF workflow = "none" THEN "open" ELSE workflow)
          /\ reply' = [reply EXCEPT ![c] = "dispatched"]
          /\ UNCHANGED mishaps
       \/ /\ Mishap
          /\ workflow' \in {workflow, IF workflow = "none" THEN "open" ELSE workflow}
          /\ reply' = [reply EXCEPT ![c] = "unknown"]
    /\ cpc' = [cpc EXCEPT ![c] = "record"]
    /\ UNCHANGED <<runVars, effectVars, flight, deliveries, pc, localVars, signal, setting>>

\* Mutant: an answer that never came is recorded as a dispatch.
RecordAsDispatched(c) ==
    /\ cpc[c] = "record"
    /\ dispatch' = "dispatched"
    /\ cpc' = [cpc EXCEPT ![c] = "idle"] /\ reply' = [reply EXCEPT ![c] = "none"]
    /\ UNCHANGED <<status, step, att, edits, effectVars, flowVars, pc, localVars, signal, boundVars>>

\* update_dispatch: only over pending and unknown.
DispatchRecord(c) ==
    /\ cpc[c] = "record"
    /\ dispatch' = (IF dispatch = "dispatched" THEN dispatch ELSE reply[c])
    /\ cpc' = [cpc EXCEPT ![c] = "idle"] /\ reply' = [reply EXCEPT ![c] = "none"]
    /\ UNCHANGED <<status, step, att, edits, effectVars, flowVars, pc, localVars, signal, boundVars>>

\* The request's process dies between two of these steps.
DispatchDies(c) ==
    /\ cpc[c] # "idle" /\ Mishap
    /\ cpc' = [cpc EXCEPT ![c] = "idle"] /\ reply' = [reply EXCEPT ![c] = "none"]
    /\ UNCHANGED <<runVars, effectVars, flowVars, pc, localVars, signal, setting>>

-----------------------------------------------------------------------------
(* The workflow and its activity *)

\* ActionRunWorkflow delivers the activity; drive loads the run.
Deliver(w) ==
    /\ workflow = "open" /\ flight = NoWorker /\ deliveries < MaxDeliveries /\ pc[w] = "idle"
    /\ flight' = w /\ deliveries' = deliveries + 1
    /\ pc' = [pc EXCEPT ![w] = "load"] /\ seen' = [seen EXCEPT ![w] = status]
    /\ UNCHANGED <<runVars, effectVars, workflow, mine, fence, rseen, kind, callVars, signal, boundVars>>

\* What the workflow makes of the end of w's delivery.  A child process that
\* exits with any error is an error of its own, which is not retried.
Settles(w, how) ==
    IF flight # w THEN UNCHANGED flowVars
    ELSE /\ flight' = NoWorker
         /\ workflow' = (IF \/ how \in {"returned", "fatal"}
                            \/ how = "retryable" /\ subprocess
                            \/ deliveries = MaxDeliveries
                         THEN "closed" ELSE workflow)
         /\ UNCHANGED deliveries

\* A worker forgets what it held.
Forget(w) ==
    /\ pc' = [pc EXCEPT ![w] = "idle"] /\ seen' = [seen EXCEPT ![w] = "none"]
    /\ mine' = [mine EXCEPT ![w] = 0] /\ fence' = [fence EXCEPT ![w] = 0]
    /\ rseen' = [rseen EXCEPT ![w] = NoReceipt] /\ kind' = [kind EXCEPT ![w] = "none"]

Leave(w, how) == Settles(w, how) /\ Forget(w)

\* The heartbeat of the activity is missed though its worker is alive.
DeliveryTimesOut ==
    /\ flight # NoWorker /\ Mishap
    /\ flight' = NoWorker
    /\ workflow' = (IF deliveries = MaxDeliveries THEN "closed" ELSE workflow)
    /\ UNCHANGED <<runVars, effectVars, deliveries, pc, localVars, callVars, signal, setting>>

\* The worker process dies with its heartbeats.
WorkerDies(w) ==
    /\ pc[w] # "idle" /\ Mishap
    /\ Settles(w, "timeout") /\ Forget(w)
    /\ UNCHANGED <<runVars, effectVars, callVars, signal, setting>>

Goto(w, p) == pc' = [pc EXCEPT ![w] = p]

\* An exception of the kind k leaves the try block of drive.
Raise(w, k) ==
    /\ Goto(w, "failed") /\ kind' = [kind EXCEPT ![w] = k]
    /\ UNCHANGED flowVars

\* drive: a terminal run is returned, a cancelling one is finalized, and _claim
\* reads the run again.
Load(w) ==
    /\ pc[w] = "load"
    /\ \/ seen[w] \in Terminal /\ Leave(w, "returned")
       \/ seen[w] = "cancelling" /\ Goto(w, "finalize") /\ UNCHANGED <<flowVars, localVars>>
       \/ /\ seen[w] \in {"queued", "running"}
          /\ seen' = [seen EXCEPT ![w] = status]
          /\ Goto(w, IF status = "cancelling" THEN "unclaimed" ELSE "claim")
          /\ UNCHANGED <<flowVars, mine, fence, rseen, kind>>
    /\ UNCHANGED <<runVars, effectVars, callVars, signal, boundVars>>

\* _can_takeover: an expired lease, or a finished attempt whose retry is due.
CanTakeover(cancelling) ==
    IF att.status = "running" THEN ~att.live ELSE cancelling \/ att.due

\* _persist_failure holds the row lock of the latest attempt.
AttemptLocked == \E v \in Workers : pc[v] = "persist" /\ mine[v] = att.n

\* claim_step's lookup: an open step whose latest attempt can be taken over.
Claimable(cancelling) ==
    step \in {"pending", "running", "retry_wait"} /\ CanTakeover(cancelling)

\* Mutant: claiming brings a cancelling run back.
RunOnClaimAlways == "running"

\* transition_run to running, whose failure _claim ignores.
RunOnClaim == IF status \in {"queued", "running"} THEN "running" ELSE status

\* _claim after its read: a new attempt, the old one lost.
Claim(w) ==
    /\ pc[w] = "claim" /\ ~AttemptLocked /\ Claimable(FALSE)
    /\ att' = [n |-> att.n + 1, status |-> "running", live |-> TRUE, due |-> TRUE]
    /\ step' = "running" /\ status' = RunOnClaim
    /\ mine' = [mine EXCEPT ![w] = att.n + 1]
    /\ Goto(w, IF before THEN "before" ELSE "plan")
    /\ UNCHANGED <<dispatch, edits, effectVars, flowVars, seen, fence, rseen, kind, callVars,
                   signal, boundVars>>

NotClaimed(w) ==
    /\ pc[w] = "claim" /\ ~AttemptLocked /\ ~Claimable(FALSE)
    /\ Goto(w, "unclaimed")
    /\ UNCHANGED <<runVars, effectVars, flowVars, localVars, callVars, signal, boundVars>>

\* _resolve_unclaimed.
ResolveUnclaimed(w) ==
    /\ pc[w] = "unclaimed"
    /\ \/ status = "cancelling" /\ Goto(w, "finalize") /\ UNCHANGED <<flowVars, localVars>>
       \/ status \in Terminal /\ Leave(w, "returned")
       \/ status \notin Terminal \cup {"cancelling"} /\ Leave(w, "retryable")
    /\ UNCHANGED <<runVars, effectVars, callVars, signal, boundVars>>

\* lease_expires_at passes: its worker is gone, or its ActionAttemptHeartbeat
\* missed the renewal.
LeaseExpires ==
    /\ att.live
    /\ att' = [att EXCEPT !.live = FALSE]
    /\ IF \E w \in Workers : mine[w] = att.n
       THEN Mishap
       ELSE UNCHANGED mishaps
    /\ UNCHANGED <<status, dispatch, step, edits, effectVars, flowVars, pc, localVars, callVars, signal,
                   setting>>

\* retry_at passes.
RetryDue ==
    /\ ~att.due
    /\ att' = [att EXCEPT !.due = TRUE]
    /\ UNCHANGED <<status, dispatch, step, edits, effectVars, flowVars, pc, localVars, callVars,
                   signal, boundVars>>

-----------------------------------------------------------------------------
(* The before-commit effect *)

\* _prepare_before: the first attempt inserts and claims the receipt in one
\* transaction, a later one only reads it.
PrepareBefore(w) ==
    /\ pc[w] = "before"
    /\ IF receipt.status = "none"
       THEN /\ receipt' = [status |-> "delivering", fence |-> 1, live |-> TRUE, started |-> FALSE]
            /\ fence' = [fence EXCEPT ![w] = 1]
            /\ Goto(w, "dispatch") /\ UNCHANGED rseen
       ELSE /\ rseen' = [rseen EXCEPT ![w] = receipt]
            /\ Goto(w, "resume") /\ UNCHANGED <<receipt, fence>>
    /\ UNCHANGED <<runVars, sent, landed, flowVars, seen, mine, kind, callVars, signal, boundVars>>

\* claim_effect_receipt for reconciliation: the budget of attempts is not
\* looked at, the lease is.
Reclaimable == receipt.status = "delivering" /\ ~receipt.live

\* _resume_before.  What is done with a reclaimed receipt depends on the row
\* as _prepare_before read it.
ResumeBefore(w) ==
    /\ pc[w] = "resume"
    /\ \/ /\ rseen[w].status = "succeeded"
          /\ Goto(w, "plan") /\ UNCHANGED <<receipt, fence, kind, flowVars>>
       \/ /\ rseen[w].status = "outcome_unknown"
          /\ Raise(w, "unknown") /\ UNCHANGED <<receipt, fence>>
       \/ /\ rseen[w].status = "dead_letter"
          /\ Raise(w, "permanent") /\ UNCHANGED <<receipt, fence>>
       \/ /\ rseen[w].status = "delivering" /\ Reclaimable
          /\ receipt' = [receipt EXCEPT !.fence = @ + 1, !.live = TRUE]
          /\ fence' = [fence EXCEPT ![w] = receipt.fence + 1]
          /\ IF rseen[w].started
             THEN Goto(w, "close") /\ kind' = [kind EXCEPT ![w] = "outcome_unknown"]
             ELSE Goto(w, "dispatch") /\ UNCHANGED kind
          /\ UNCHANGED flowVars
       \/ /\ rseen[w].status = "delivering" /\ ~Reclaimable
          /\ Raise(w, "unknown") /\ UNCHANGED <<receipt, fence>>
    /\ UNCHANGED <<runVars, sent, landed, seen, mine, rseen, callVars, signal, boundVars>>

HoldsReceipt(w) == receipt.status = "delivering" /\ receipt.fence = fence[w]

\* Mutant: a dispatch that was started already does not stop another.
MayDispatchAgain(w) == HoldsReceipt(w)

\* start_effect_dispatch's condition.
MayDispatch(w) == HoldsReceipt(w) /\ ~receipt.started

\* _dispatch_before: the fence, and the call that follows it.
DispatchBefore(w) ==
    /\ pc[w] = "dispatch"
    /\ IF MayDispatch(w)
       THEN /\ receipt' = [receipt EXCEPT !.started = TRUE]
            /\ sent' = sent + 1
            /\ Goto(w, "calling") /\ UNCHANGED <<kind, flowVars>>
       ELSE Raise(w, "unknown") /\ UNCHANGED <<receipt, sent>>
    /\ UNCHANGED <<runVars, landed, seen, mine, fence, rseen, callVars, signal, boundVars>>

\* action_effect_executor.execute: carried out, refused, or not known to be
\* either.
ProviderAnswers(w) ==
    /\ pc[w] = "calling"
    /\ \E o \in Outcomes, hit \in 0..1 :
         /\ o = "succeeded" => hit = 1
         /\ o = "dead_letter" => hit = 0
         /\ kind' = [kind EXCEPT ![w] = o] /\ landed' = landed + hit
    /\ Goto(w, "close")
    /\ UNCHANGED <<runVars, receipt, sent, flowVars, seen, mine, fence, rseen, callVars, signal, boundVars>>

\* complete_effect_receipt's condition: the fence and a live lease.
CloseGoesThrough(w) == HoldsReceipt(w) /\ receipt.live

\* Mutant: a receipt that could not be written does not stop the run.
CloseUnfenced(w) ==
    /\ pc[w] = "close"
    /\ IF CloseGoesThrough(w) THEN receipt' = [receipt EXCEPT !.status = kind[w]] ELSE UNCHANGED receipt
    /\ IF kind[w] = "succeeded" THEN Goto(w, "plan") /\ UNCHANGED <<kind, flowVars>> ELSE Raise(w, "unknown")
    /\ UNCHANGED <<runVars, sent, landed, seen, mine, fence, rseen, callVars, signal, boundVars>>

\* _complete_before, and what execute_before then returns or raises.
CloseBefore(w) ==
    /\ pc[w] = "close"
    /\ IF CloseGoesThrough(w)
       THEN /\ receipt' = [receipt EXCEPT !.status = kind[w]]
            /\ \/ kind[w] = "succeeded" /\ Goto(w, "plan")
                  /\ kind' = [kind EXCEPT ![w] = "none"] /\ UNCHANGED flowVars
               \/ kind[w] = "dead_letter" /\ Raise(w, "permanent")
               \/ kind[w] = "outcome_unknown" /\ Raise(w, "unknown")
       ELSE Raise(w, "unknown") /\ UNCHANGED receipt
    /\ UNCHANGED <<runVars, sent, landed, seen, mine, fence, rseen, callVars, signal, boundVars>>

\* The lease of the receipt passes.
ReceiptLeaseExpires ==
    /\ receipt.live
    /\ receipt' = [receipt EXCEPT !.live = FALSE]
    /\ UNCHANGED <<runVars, sent, landed, flowVars, pc, localVars, callVars, signal, boundVars>>

-----------------------------------------------------------------------------
(* Committing and failing *)

\* _execute_plan, and the first read of _commit.
ExecutePlan(w) ==
    /\ pc[w] = "plan"
    /\ \/ /\ seen' = [seen EXCEPT ![w] = status]
          /\ Goto(w, "commit") /\ UNCHANGED <<kind, flowVars>>
       \/ \E k \in {"transient", "permanent"} : Raise(w, k) /\ UNCHANGED seen
    /\ UNCHANGED <<runVars, effectVars, mine, fence, rseen, callVars, signal, boundVars>>

\* lock_attempt_owner.
Owns(w) == att.status = "running" /\ att.n = mine[w] /\ att.live

\* require_action_attempt_owner fails, in _commit or in _persist_failure, or
\* the heartbeat noticed first.
LeaseLost(w) ==
    /\ pc[w] \in {"commit", "failed"} /\ ~Owns(w)
    /\ Leave(w, "retryable")
    /\ UNCHANGED <<runVars, effectVars, callVars, signal, boundVars>>

EndAttempt(s, due) == att' = [att EXCEPT !.status = s, !.live = FALSE, !.due = due]

\* _cancel_claimed, for a worker that read the run as cancelling.  Without the
\* run's transition everything is rolled back.
CancelClaimed(w) ==
    /\ Owns(w) /\ seen[w] = "cancelling" /\ status \in {"queued", "running", "cancelling"}
    /\ EndAttempt("cancelled", TRUE) /\ step' = "cancelled" /\ status' = "cancelled"
    /\ UNCHANGED <<dispatch, edits>>

CommitCancels(w) ==
    /\ pc[w] = "commit" /\ CancelClaimed(w)
    /\ Leave(w, "returned")
    /\ UNCHANGED <<effectVars, callVars, signal, boundVars>>

\* mark_action_commit_pending and the run's CAS of commit_plan.
CommitGoesThrough(w) == Owns(w) /\ seen[w] # "cancelling" /\ status = "running"

\* Mutant: the run is closed by a transaction of its own, later.
CommitEditsFirst(w) ==
    /\ pc[w] = "commit" /\ CommitGoesThrough(w)
    /\ edits' = edits + 1 /\ UNCHANGED status /\ step' = "succeeded"
    /\ EndAttempt("succeeded", TRUE)
    /\ Leave(w, "returned")
    /\ UNCHANGED <<dispatch, effectVars, callVars, signal, boundVars>>

\* Mutant: the step is left to the lease.
CommitWithoutStep(w) ==
    /\ pc[w] = "commit" /\ CommitGoesThrough(w)
    /\ edits' = edits + 1 /\ status' = "succeeded"
    /\ Leave(w, "returned")
    /\ UNCHANGED <<dispatch, step, att, effectVars, callVars, signal, boundVars>>

\* _commit: the edits, the run, the step and the attempt together.
Commit(w) ==
    /\ pc[w] = "commit" /\ CommitGoesThrough(w)
    /\ edits' = edits + 1 /\ status' = "succeeded" /\ step' = "succeeded"
    /\ EndAttempt("succeeded", TRUE)
    /\ Leave(w, "returned")
    /\ UNCHANGED <<dispatch, effectVars, callVars, signal, boundVars>>

\* _commit raises and is rolled back: the run moved on or an object did
\* (ConflictDetected), or the revalidation refuses.
CommitFails(w) ==
    /\ pc[w] = "commit" /\ Owns(w)
    /\ \/ /\ seen[w] # "cancelling" \/ status \notin {"queued", "running", "cancelling"}
          /\ Raise(w, "conflict")
       \/ seen[w] # "cancelling" /\ Raise(w, "permanent")
    /\ UNCHANGED <<runVars, effectVars, seen, mine, fence, rseen, callVars, signal, boundVars>>

\* _persist_failure reads the run once it holds the attempt's lock.
FailureRead(w) ==
    /\ pc[w] = "failed" /\ Owns(w)
    /\ seen' = [seen EXCEPT ![w] = status] /\ Goto(w, "persist")
    /\ UNCHANGED <<runVars, effectVars, flowVars, mine, fence, rseen, kind, callVars, signal, boundVars>>

Retries(w) == kind[w] = "transient" /\ mine[w] < MaxAttempts

\* _persist_terminal_failure: a transition that does not apply is ignored.
Verdict(w) ==
    CASE kind[w] = "conflict" -> IF status = "running" THEN "conflict" ELSE status
      [] kind[w] = "unknown"  -> IF status = "running" THEN "outcome_unknown" ELSE status
      [] OTHER -> IF status \in {"queued", "running", "cancelling"} THEN "failed" ELSE status

\* The writes of _persist_failure.  The attempt is still locked, so whether it
\* was owned is not asked again.
PersistFailure(w) ==
    /\ pc[w] = "persist" /\ seen[w] # "cancelling"
    /\ EndAttempt("failed", ~Retries(w))
    /\ IF Retries(w)
       THEN step' = "retry_wait" /\ UNCHANGED status
       ELSE step' = "failed" /\ status' = Verdict(w)
    /\ Leave(w, IF Retries(w) THEN "retryable" ELSE "fatal")
    /\ UNCHANGED <<dispatch, edits, effectVars, callVars, signal, boundVars>>

\* claim_step locks the step before the attempt, a transaction of the owner
\* the attempt before the step: the database breaks the cycle and the victim's
\* error is not retryable.
LockCycle(w) ==
    /\ pc[w] = "claim" /\ step = "running"
    /\ \E v \in Workers \ {w} :
         /\ pc[v] \in {"commit", "persist"} /\ mine[v] = att.n
         /\ \/ Leave(w, "fatal")
            \/ pc[v] = "commit" /\ Raise(v, "permanent") /\ UNCHANGED <<seen, mine, fence, rseen>>
            \/ pc[v] = "persist" /\ Leave(v, "fatal")
    /\ UNCHANGED <<runVars, effectVars, callVars, signal, boundVars>>

\* The run was cancelling when the failure was recorded.
FailureCancels(w) ==
    /\ pc[w] = "persist" /\ seen[w] = "cancelling"
    /\ IF status \in {"queued", "running", "cancelling"}
       THEN /\ EndAttempt("cancelled", TRUE) /\ step' = "cancelled" /\ status' = "cancelled"
            /\ Leave(w, IF Retries(w) THEN "retryable" ELSE "fatal")
       ELSE UNCHANGED <<att, step, status>> /\ Leave(w, "fatal")
    /\ UNCHANGED <<dispatch, edits, effectVars, callVars, signal, boundVars>>

-----------------------------------------------------------------------------
(* Cancellation *)

\* _cancel_unstarted_steps.
StepOnCancel == IF step \in {"pending", "retry_wait"} THEN "cancelled" ELSE step

\* cancel: request_cancel, with the call to Temporal still to be made.
RequestCancel ==
    /\ status \in {"queued", "running"}
    /\ status' = "cancelling" /\ step' = StepOnCancel
    /\ signal' = (dispatch # "pending")
    /\ UNCHANGED <<dispatch, att, edits, effectVars, flowVars, pc, localVars, callVars, boundVars>>

\* action_run_orchestrator.cancel reaches the workflow.  A child process is
\* killed; a thread cannot be and goes on.
CancelArrives ==
    /\ signal /\ signal' = FALSE
    /\ IF workflow = "open"
       THEN /\ workflow' = "closed" /\ flight' = NoWorker
            /\ IF subprocess /\ flight # NoWorker THEN Forget(flight) ELSE UNCHANGED <<pc, localVars>>
       ELSE UNCHANGED <<workflow, flight, pc, localVars>>
    /\ UNCHANGED <<runVars, effectVars, deliveries, callVars, boundVars>>

\* The call fails, which cancel_async hides, or its process dies first.
CancelIsLost ==
    /\ signal /\ signal' = FALSE
    /\ UNCHANGED <<runVars, effectVars, flowVars, pc, localVars, callVars, boundVars>>

\* Mutant: a running step blocks the cancellation for good.
CancelBlockedByRunning == step = "running"

\* _claim_cancellation: a running step whose lease is live blocks.
CancelBlocked == step = "running" /\ ~Claimable(TRUE)

\* The writes of _finalize_cancellation on a run that is not terminal.
CancelRun ==
    /\ IF step = "running"
       THEN /\ att' = [n |-> att.n + 1, status |-> "cancelled", live |-> FALSE, due |-> TRUE]
            /\ step' = "cancelled"
       ELSE UNCHANGED <<att, step>>
    /\ status' = "cancelled"
    /\ UNCHANGED <<dispatch, edits>>

\* _finalize_cancellation, by a worker.
FinalizeCancellation(w) ==
    /\ pc[w] = "finalize" /\ ~AttemptLocked
    /\ IF status \in Terminal \/ CancelBlocked THEN UNCHANGED runVars ELSE CancelRun
    /\ Leave(w, "returned")
    /\ UNCHANGED <<effectVars, callVars, signal, boundVars>>

\* recover_all_cancellations, by the control worker.
RecoverCancellation ==
    /\ status = "cancelling" /\ ~AttemptLocked /\ ~CancelBlocked
    /\ CancelRun
    /\ UNCHANGED <<effectVars, flowVars, pc, localVars, callVars, signal, boundVars>>

-----------------------------------------------------------------------------

Drive(w) ==
    \/ Load(w) \/ Claim(w) \/ NotClaimed(w) \/ ResolveUnclaimed(w)
    \/ PrepareBefore(w) \/ ResumeBefore(w) \/ DispatchBefore(w) \/ ProviderAnswers(w) \/ CloseBefore(w)
    \/ ExecutePlan(w) \/ LeaseLost(w) \/ CommitCancels(w) \/ Commit(w) \/ CommitFails(w)
    \/ FailureRead(w) \/ PersistFailure(w) \/ FailureCancels(w) \/ FinalizeCancellation(w) \/ LockCycle(w)

Next ==
    \/ CreateRun \/ RequestCancel \/ CancelArrives \/ CancelIsLost \/ RecoverCancellation
    \/ LeaseExpires \/ RetryDue \/ ReceiptLeaseExpires \/ DeliveryTimesOut
    \/ \E c \in Callers : DispatchRead(c) \/ DispatchCall(c) \/ DispatchRecord(c) \/ DispatchDies(c)
    \/ \E w \in Workers : Deliver(w) \/ WorkerDies(w) \/ Drive(w)

Spec == Init /\ [][Next]_vars

\* The control worker's tick runs for ever, Temporal delivers while it may,
\* leases and retry times pass, and a worker that is alive goes on.
FairSpec ==
    /\ Spec
    /\ WF_vars(RecoverCancellation) /\ WF_vars(LeaseExpires) /\ WF_vars(RetryDue)
    /\ \A c \in Callers : WF_vars(DispatchRead(c) \/ DispatchCall(c) \/ DispatchRecord(c))
    /\ \A w \in Workers : WF_vars(Deliver(w)) /\ WF_vars(Drive(w))

-----------------------------------------------------------------------------

\* The variables keep their types.
TypeOK ==
    /\ status \in RunStatuses /\ step \in StepStatuses
    /\ dispatch \in {"pending", "unknown", "dispatched"}
    /\ att \in Attempts /\ receipt \in Receipts
    /\ edits \in Nat /\ sent \in Nat /\ landed \in Nat /\ deliveries \in Nat
    /\ mishaps \in 0..MaxMishaps
    /\ signal \in BOOLEAN /\ subprocess \in BOOLEAN /\ before \in BOOLEAN
    /\ workflow \in {"none", "open", "closed"} /\ flight \in Workers \cup {NoWorker}
    /\ pc \in [Workers -> PCs] /\ seen \in [Workers -> RunStatuses]
    /\ mine \in [Workers -> Nat] /\ fence \in [Workers -> Nat]
    /\ rseen \in [Workers -> Receipts]
    /\ kind \in [Workers -> Failures \cup Outcomes \cup {"none"}]
    /\ cpc \in [Callers -> {"idle", "call", "record"}]
    /\ reply \in [Callers -> {"none", "dispatched", "unknown"}]
    /\ \A c \in Callers : cpc[c] = "record" => reply[c] # "none"

\* A run that says succeeded has applied its edits exactly once, and no other
\* run has applied any, whatever workers were presumed dead (_commit).
CommittedOnce == edits = (IF status = "succeeded" THEN 1 ELSE 0)

\* The provider of a before-commit effect is called at most once however often
\* the run is delivered, resumed and taken over (start_effect_dispatch).
SentOnce == sent <= 1

\* Edits are committed only behind an effect that was carried out and whose
\* receipt says so (execute_before: "exactly once or fail closed").
CommitAfterEffect == before /\ edits = 1 => landed = 1 /\ receipt.status = "succeeded"

\* A step is open only while the run is: a terminal run has no attempt whose
\* worker could still finish it, except one claimed for a cancelled run whose
\* retry was left behind.
StepFollowsRun == status \in Terminal \ {"cancelled"} => step \notin {"pending", "running", "retry_wait"}

\* Each attempt has its own number, known to one worker at most; the latest one
\* runs exactly while the step does, and a worker that records its failure
\* still has it (claim_step, lock_attempt_owner, _persist_failure).
AttemptsAreOwned ==
    /\ step = "running" <=> att.status = "running"
    /\ att.status = "running" => att.n > 0
    /\ status = "none" => step = "none"
    /\ \A w \in Workers :
         /\ mine[w] <= att.n
         /\ pc[w] = "persist" => mine[w] = att.n /\ att.status = "running"
    /\ \A v, w \in Workers : mine[v] = mine[w] /\ mine[v] # 0 => v = w

\* The provider was called once if the receipt says so and never otherwise;
\* whoever waits for its answer is alone, and an answer that says the effect
\* was carried out, in a worker's hands or in the receipt, is true
\* (start_effect_dispatch, complete_effect_receipt).
CallIsFenced ==
    /\ sent = (IF receipt.started THEN 1 ELSE 0)
    /\ receipt.status = "none" => ~receipt.started
    /\ landed <= 1 /\ (~receipt.started => landed = 0)
    /\ receipt.status = "succeeded" => landed = 1
    /\ \A w \in Workers :
         /\ pc[w] = "calling" => receipt.started /\ landed = 0
         /\ pc[w] = "close" /\ kind[w] = "succeeded" => landed = 1
         /\ rseen[w].status = "succeeded" => receipt.status = "succeeded"
    /\ \A v, w \in Workers : pc[v] = "calling" /\ pc[w] = "calling" => v = w

\* A worker that plans or commits the edits of a contract with a before-commit
\* effect does so behind a closed receipt (execute_before).
PlanBehindEffect ==
    \A w \in Workers : pc[w] \in {"plan", "commit"} /\ before => receipt.status = "succeeded"

\* The rows of a run agree with each other and with what its workers hold
\* (_commit, _persist_failure and the cancellation write run, step and attempt
\* together).
ActionInv == TypeOK /\ StepFollowsRun /\ AttemptsAreOwned /\ CallIsFenced /\ PlanBehindEffect

\* The run's status only moves forward: a terminal status stays, and a
\* cancelling run ends as cancelled or failed, never as a success.
StatusForward ==
    [][/\ status \in Terminal => status' = status
       /\ status = "cancelling" => status' \in {"cancelling", "cancelled", "failed"}]_vars

\* A cancellation that was accepted comes to an end, though the call to
\* Temporal is lost and workers die (recover_all_cancellations).
CancellationsSettle == status = "cancelling" ~> status \in Terminal

\* A queued run gets its workflow although dispatch calls go unanswered and
\* requests die (recover_dispatches).
DispatchIsRecovered == status = "queued" ~> (workflow # "none" \/ status # "queued")

\* A cancellation leaves no step waiting: "cancellation closes pending and
\* retry at once".  Not so when a worker's failure was read before it.
CancelClosesRetries == status \in {"cancelling", "cancelled"} => step \notin {"pending", "retry_wait"}

\* A step that waits for its retry is tried again or its run is closed
\* (ActionStepRetryableFailure: "needs redelivery").
RetriesAreRedelivered == (status = "running" /\ step = "retry_wait") ~> step # "retry_wait"

\* No worker knows of the running attempt any more.
Abandoned == status = "running" /\ step = "running" /\ \A w \in Workers : mine[w] # att.n

\* A run whose worker was killed is taken over by another ("kill/takeover").
\* Not so when the deliveries are used up while the lease is still live.
AbandonedIsTakenOver == Abandoned ~> ~Abandoned
=============================================================================
