---------------------------- MODULE PipelineRun ----------------------------
(***************************************************************************)
(* One distributed Pipeline Graph v2 run: the run row with its execution   *)
(* lease, the node and attempt rows, the Temporal workflow that forks and  *)
(* joins node activities, the deliveries of those activities (which may    *)
(* overlap after a timeout), cancellation, and the control worker.         *)
(*                                                                         *)
(* An action is one database transaction, or one decision of the workflow. *)
(* Every transaction that writes node or attempt rows first updates the    *)
(* run row (require_active or request_run_cancel), whose row lock orders   *)
(* them, so each is atomic.                                                *)
(***************************************************************************)
EXTENDS Naturals, FiniteSets

CONSTANTS
    Nodes,         \* the nodes of the plan, numbered in node-id order
    Upstream,      \* the source nodes of the edges into each node
    Outputs,       \* nodes that commit a serving output
    MaxAttempts,   \* executionPolicy.maximumAttempts of each node: its deliveries
    RunLease,      \* _EXECUTION_LEASE_DURATION, in clock ticks
    AttemptLease,  \* _ATTEMPT_LEASE_SECONDS, in clock ticks
    MaxBegins,     \* maximum_attempts of the begin activity
    MaxUnknown,    \* bound: dispatches whose outcome is not learned
    MaxStalls      \* bound: node processes that die or are suspended

ASSUME PipelineConstants ==
    /\ Nodes \subseteq Nat
    /\ Upstream \in [Nodes -> SUBSET Nodes]
    /\ Outputs \subseteq Nodes
    /\ MaxAttempts \in [Nodes -> Nat \ {0}]
    /\ RunLease \in Nat \ {0, 1} /\ AttemptLease \in Nat \ {0, 1}
    /\ MaxBegins \in Nat \ {0} /\ MaxUnknown \in Nat /\ MaxStalls \in Nat

\* The k-th delivery of a node's activity.
Deliveries == UNION {{n} \X (1..MaxAttempts[n]) : n \in Nodes}

VARIABLES
    status,      \* pipeline_runs.status
    token,       \* pipeline_runs.execution_lease_token, 0 for NULL
    left,        \* ticks until execution_lease_expires_at, 0 once it is reached
    dispatch,    \* pipeline_runs.dispatch_status
    node,        \* pipeline_node_runs.status
    count,       \* pipeline_node_runs.attempt_count
    att,         \* status of the attempt row a delivery inserted, or "none"
    attNo,       \* its attempt_number, which is also its fencing token
    attLeft,     \* its lease_expires_at - now + 1; 0 once past or closed
    committed,   \* output nodes whose serving output is committed
    wf,          \* where the workflow is
    wave,        \* the nodes of the gather in progress
    tries,       \* the delivery each node's activity is at
    outcome,     \* the outcome the workflow holds for each node
    shown,       \* nodes whose outcome carries a committed output
    call,        \* the dispatch call in progress, and its answer
    signal,      \* a cancel call to the workflow is on its way
    finToken,    \* the lease token finalize read, while it is finishing
    pc,          \* where each delivery is
    held,        \* the run lease token a live delivery read
    lost,        \* live deliveries whose lease guard recorded a failure
    stalled,     \* deliveries whose process died or is suspended
    scanned,     \* the lease token of the stale row the reaper read
    reaped,      \* history: the reaper closed the run
    begins, unknowns, stalls

runVars  == <<status, token, left, dispatch>>
rowVars  == <<node, count, att, attNo, attLeft, committed>>
wfVars   == <<wf, wave, tries, outcome, shown, finToken, begins>>
callVars == <<call, signal, unknowns>>
procVars == <<pc, held, lost, stalled, stalls>>
reapVars == <<scanned, reaped>>
vars == <<runVars, rowVars, wfVars, callVars, procVars, reapVars>>

-----------------------------------------------------------------------------

Terminal     == {"succeeded", "partial", "failed", "cancelled"}
RunStatuses  == {"queued", "running", "cancelling"} \cup Terminal
NodeStatuses == {"PENDING", "RUNNING", "SUCCEEDED", "FAILED", "CANCELLED"}
AttStatuses  == {"none", "RUNNING", "SUCCEEDED", "FAILED", "LOST", "CANCELLED"}
WfStates     == {"none", "begin", "nodes", "finalize", "finishing", "cancelled",
                 "failed", "closed"}

\* An outcome is "failed" when it carries the error mapping of execute_node
\* and "error" when it carries str(exc) of an activity that raised.
Outcomes == {"none", "succeeded", "failed", "error", "cancelled", "skipped"}

\* A delivery is idle, loaded (run row read), started (attempt claimed), ok or
\* err (the node returned or raised), late (it raised after its output was
\* committed), then good, bad or torn (what it will return), and gone.
Claimed == {"started", "ok", "err", "late", "good", "bad", "torn"}
Live    == {"loaded"} \cup Claimed
PCs     == {"idle", "gone"} \cup Live

Of(n) == {d \in Deliveries : d[1] = n}

Init ==
    /\ status = "queued" /\ token = 0 /\ left = 0 /\ dispatch = "pending"
    /\ node  = [n \in Nodes |-> "PENDING"]
    /\ count = [n \in Nodes |-> 0]
    /\ att     = [d \in Deliveries |-> "none"]
    /\ attNo   = [d \in Deliveries |-> 0]
    /\ attLeft = [d \in Deliveries |-> 0]
    /\ committed = {}
    /\ wf = "none" /\ wave = {} /\ shown = {} /\ finToken = 0
    /\ tries   = [n \in Nodes |-> 0]
    /\ outcome = [n \in Nodes |-> "none"]
    /\ call = "none" /\ signal = FALSE
    /\ pc   = [d \in Deliveries |-> "idle"]
    /\ held = [d \in Deliveries |-> 0]
    /\ lost = {} /\ stalled = {}
    /\ scanned = 0 /\ reaped = FALSE
    /\ begins = 0 /\ unknowns = 0 /\ stalls = 0

-----------------------------------------------------------------------------
(* Dispatch and cancellation: PipelineAsyncRunService *)

\* pending_dispatch_runs
PendingDispatch == status = "queued" /\ dispatch # "dispatched"

\* _dispatch reads the row, for enqueue or for recover_dispatches.
StartDispatch ==
    /\ call = "none"
    /\ PendingDispatch
    /\ call' = "calling"
    /\ UNCHANGED <<runVars, rowVars, wfVars, signal, unknowns, procVars, reapVars>>

\* The workflow id is derived from the run, so a second start is refused and
\* reported as dispatched.  The answer may be unknown, and the caller may die.
CallWorkflow ==
    /\ call = "calling"
    /\ \E started \in BOOLEAN, answer \in {"dispatched", "unknown", "none"} :
         /\ answer = "dispatched" => started
         /\ answer # "dispatched" => unknowns < MaxUnknown
         /\ wf' = IF started /\ wf = "none" THEN "begin" ELSE wf
         /\ call' = answer
         /\ unknowns' = IF answer = "dispatched" THEN unknowns ELSE unknowns + 1
    /\ UNCHANGED <<runVars, rowVars, wave, tries, outcome, shown, finToken, begins,
                   signal, procVars, reapVars>>

\* update_run_dispatch, whatever the run's status is by now.
RecordDispatch ==
    /\ call \in {"dispatched", "unknown"}
    /\ dispatch' = call
    /\ call' = "none"
    /\ UNCHANGED <<status, token, left, rowVars, wfVars, signal, unknowns, procVars,
                   reapVars>>

\* request_run_cancel
Cancellable == status \in {"queued", "running"}

\* cancel_inactive_node_runs: every node row in a status that
\* PIPELINE_NODE_RUN_CANCELLED starts from.
CancelInactiveNodes ==
    node' = [n \in Nodes |->
               IF node[n] \in {"PENDING", "RUNNING"} THEN "CANCELLED" ELSE node[n]]

\* _request_cancel: the run row and its node rows.  The workflow is told only
\* if the row already names it.
RequestCancel ==
    /\ Cancellable
    /\ status' = "cancelling"
    /\ CancelInactiveNodes
    /\ signal' = (dispatch # "pending")
    /\ UNCHANGED <<token, left, dispatch, count, att, attNo, attLeft, committed,
                   wfVars, call, unknowns, procVars, reapVars>>

\* A replay of the cancel request changes no row and tells the workflow again.
ReplayCancel ==
    /\ status = "cancelling" /\ dispatch # "pending"
    /\ signal' = TRUE
    /\ UNCHANGED <<runVars, rowVars, wfVars, call, unknowns, procVars, reapVars>>

\* orchestrator.cancel: reaches an open workflow, or fails and is forgotten.
CancelWorkflow ==
    /\ signal
    /\ signal' = FALSE
    /\ \/ /\ wf \in {"begin", "nodes", "finalize", "finishing"}
          /\ wf' = "cancelled" /\ finToken' = 0 /\ begins' = 0
       \/ UNCHANGED <<wf, finToken, begins>>
    /\ UNCHANGED <<runVars, rowVars, wave, tries, outcome, shown, call, unknowns, procVars, reapVars>>

-----------------------------------------------------------------------------
(* The workflow and its control activities *)

\* begin: claim the run unless it is terminal, being cancelled, or claimed
\* under a lease that still runs.
ClaimRun ==
    IF status \in {"queued", "running"} /\ (token = 0 \/ left = 0)
    THEN status' = "running" /\ token' = token + 1 /\ left' = RunLease
    ELSE UNCHANGED <<status, token, left>>

\* A delivery of begin completes; or it is lost, before or after the claim,
\* and is repeated until its attempts are used up.
Begin ==
    /\ wf = "begin"
    /\ \/ ClaimRun /\ wf' = "nodes"
       \/ /\ ClaimRun \/ UNCHANGED <<status, token, left>>
          /\ wf' = IF begins + 1 < MaxBegins THEN "begin" ELSE "failed"
    /\ begins' = IF wf' = "begin" THEN begins + 1 ELSE 0
    /\ UNCHANGED <<dispatch, rowVars, wave, tries, outcome, shown, finToken, callVars,
                   procVars, reapVars>>

\* Mutant: an upstream node has only to have returned.
ReadyOnceUpstreamReturned == {n \in Nodes :
    outcome[n] = "none" /\ \A u \in Upstream[n] : outcome[u] # "none"}

\* _ready_nodes: not yet run, and every upstream outcome is succeeded.
Ready == {n \in Nodes : /\ outcome[n] = "none"
                        /\ \A u \in Upstream[n] : outcome[u] = "succeeded"}

\* asyncio.gather returned: start the next wave.
ForkWave ==
    /\ wf = "nodes"
    /\ \A n \in wave : outcome[n] # "none"
    /\ Ready # {}
    /\ wave' = Ready
    /\ tries' = [n \in Nodes |-> IF n \in Ready THEN 1 ELSE tries[n]]
    /\ UNCHANGED <<runVars, rowVars, wf, outcome, shown, finToken, begins, callVars,
                   procVars, reapVars>>

\* Nothing is ready: what is left is skipped, in the outcomes only.
JoinNodes ==
    /\ wf = "nodes"
    /\ \A n \in wave : outcome[n] # "none"
    /\ Ready = {}
    /\ outcome' = [n \in Nodes |-> IF outcome[n] = "none" THEN "skipped" ELSE outcome[n]]
    /\ wave' = {}
    /\ wf' = "finalize"
    /\ UNCHANGED <<runVars, rowVars, tries, shown, finToken, begins, callVars,
                   procVars, reapVars>>

\* finalize reads the run row; a terminal run is returned as it is, and a run
\* being cancelled is left to _finalize_cancelled.
FinalizeRead ==
    /\ wf = "finalize"
    /\ wf' = IF status \in Terminal THEN "closed" ELSE "finishing"
    /\ finToken' = IF status = "running" THEN token ELSE 0
    /\ UNCHANGED <<runVars, rowVars, wave, tries, outcome, shown, begins, callVars,
                   procVars, reapVars>>

\* run_result: the first failed outcome in node-id order carries the run's
\* error, and carries it only as a mapping.
IsRunError ==
    LET failures == {n \in Nodes : outcome[n] \in {"failed", "error"}}
    IN  \E n \in failures : outcome[n] = "failed" /\ \A m \in failures : n <= m

\* graph_v2_terminal_state and _terminal_identity
TerminalStatus ==
    IF ~IsRunError THEN "succeeded" ELSE IF shown # {} THEN "partial" ELSE "failed"

\* Mutant: the row is matched by its token alone.
RenewableByToken(t) == token = t /\ t # 0

\* renew_run_execution_lease with token t would match the run row.  It does
\* not ask whether the lease has expired.
Renewable(t) == status = "running" /\ token = t /\ t # 0

\* The terminal write of finalize; when the lease or the status moved since
\* the read, the activity raises and is delivered again.
FinalizeWrite ==
    /\ wf = "finishing" /\ finToken # 0
    /\ IF Renewable(finToken)
       THEN status' = TerminalStatus /\ token' = 0 /\ left' = 0 /\ wf' = "closed"
       ELSE UNCHANGED <<status, token, left>> /\ wf' = "finalize"
    /\ finToken' = 0
    /\ UNCHANGED <<dispatch, rowVars, wave, tries, outcome, shown, begins,
                   callVars, procVars, reapVars>>

\* update_run_terminal with PIPELINE_RUN_CANCELLED, on a run seen cancelling.
CloseCancelled ==
    IF status = "cancelling"
    THEN status' = "cancelled" /\ token' = 0 /\ left' = 0
    ELSE UNCHANGED <<status, token, left>>

\* _finalize_cancelled
FinalizeCancelled ==
    /\ wf = "finishing" /\ finToken = 0
    /\ CloseCancelled
    /\ wf' = "closed"
    /\ UNCHANGED <<dispatch, rowVars, wave, tries, outcome, shown, finToken, begins,
                   callVars, procVars, reapVars>>

\* Every delivery of finalize was lost: the workflow fails.
FinalizeExhausted ==
    /\ wf \in {"finalize", "finishing"}
    /\ wf' = "failed" /\ finToken' = 0
    /\ UNCHANGED <<runVars, rowVars, wave, tries, outcome, shown, begins, callVars, procVars, reapVars>>

-----------------------------------------------------------------------------
(* The deliveries of a node: execute_node *)

\* The workflow is waiting for this delivery and no other of its node.
Current(d) ==
    /\ wf = "nodes" /\ d[1] \in wave
    /\ outcome[d[1]] = "none" /\ tries[d[1]] = d[2]

\* Mutant: one delivery more than the policy's maximum.
RaisesOnceMore(d) ==
    /\ IF ~Current(d) THEN UNCHANGED <<tries, outcome>>
       ELSE IF d[2] <= MaxAttempts[d[1]]
            THEN tries' = [tries EXCEPT ![d[1]] = @ + 1] /\ UNCHANGED outcome
            ELSE outcome' = [outcome EXCEPT ![d[1]] = "error"] /\ UNCHANGED tries
    /\ UNCHANGED shown

\* The activity raised: the next delivery, or str(exc) as the node's error.
Raises(d) ==
    /\ IF ~Current(d) THEN UNCHANGED <<tries, outcome>>
       ELSE IF d[2] < MaxAttempts[d[1]]
            THEN tries' = [tries EXCEPT ![d[1]] = @ + 1] /\ UNCHANGED outcome
            ELSE outcome' = [outcome EXCEPT ![d[1]] = "error"] /\ UNCHANGED tries
    /\ UNCHANGED shown

\* The activity returned an outcome, which an orphan's workflow never sees.
Returns(d, result) ==
    /\ outcome' = IF Current(d) THEN [outcome EXCEPT ![d[1]] = result] ELSE outcome
    /\ UNCHANGED tries

\* The delivery's process ends.
Exit(d) ==
    /\ pc'   = [pc EXCEPT ![d] = "gone"]
    /\ held' = [held EXCEPT ![d] = 0]
    /\ lost' = lost \ {d}
    /\ stalled' = stalled \ {d}
    /\ UNCHANGED stalls

\* The delivery's process goes on to p.
GoTo(d, p) ==
    /\ pc' = [pc EXCEPT ![d] = p]
    /\ UNCHANGED <<held, stalled, stalls>>

\* execute_node reads the run row.
Load(d) ==
    /\ pc[d] = "idle" /\ Current(d)
    /\ \/ /\ status = "cancelling"
          /\ Exit(d) /\ Returns(d, "cancelled") /\ UNCHANGED shown
       \/ /\ status # "cancelling" /\ token = 0
          /\ Exit(d) /\ Raises(d)
       \/ /\ status # "cancelling" /\ token # 0
          /\ pc'   = [pc EXCEPT ![d] = "loaded"]
          /\ held' = [held EXCEPT ![d] = token]
          /\ UNCHANGED <<lost, stalled, stalls, tries, outcome, shown>>
    /\ UNCHANGED <<runVars, rowVars, wf, wave, finToken, begins, callVars, reapVars>>

\* Mutant: the guard knows only what its own keepalive thread recorded.
GuardedByKeepalive(d) == d \notin lost

\* PipelineExecutionLeaseGuard.require_active lets the delivery write.
Guarded(d) == d \notin lost /\ Renewable(held[d])

\* require_node_contract: a node row never records its inputs, so a node that
\* has some passes only while the row is PENDING.
Contract(n) == Upstream[n] = {} \/ node[n] = "PENDING"

\* Mutant: the node's own status is not looked at.
ClaimableWhenClosed(n) ==
    \A d \in Of(n) : attNo[d] = count[n] /\ att[d] = "RUNNING" => attLeft[d] <= 1

\* _locked_claimable_node_run and _next_attempt_coordinates: no attempt of the
\* node is running under a lease.
Claimable(n) ==
    /\ node[n] \in {"PENDING", "RUNNING"}
    /\ \A d \in Of(n) : attNo[d] = count[n] /\ att[d] = "RUNNING" => attLeft[d] <= 1

\* _claim_node_for_attempt, _mark_attempt_lost and _insert_claimed_attempt
ClaimNodeAttempt(d) ==
    LET n == d[1] IN
    /\ node'  = [node EXCEPT ![n] = "RUNNING"]
    /\ count' = [count EXCEPT ![n] = @ + 1]
    /\ att' = [e \in Deliveries |->
                 IF e = d THEN "RUNNING"
                 ELSE IF e[1] = n /\ att[e] = "RUNNING" THEN "LOST" ELSE att[e]]
    /\ attNo'   = [attNo EXCEPT ![d] = count[n] + 1]
    /\ attLeft' = [e \in Deliveries |->
                     IF e = d THEN AttemptLease + 1 ELSE IF e[1] = n THEN 0 ELSE attLeft[e]]

\* evidence.start: take the node over, marking an expired attempt lost.
StartAttempt(d) ==
    /\ pc[d] = "loaded"
    /\ Guarded(d) /\ Contract(d[1]) /\ Claimable(d[1])
    /\ left' = RunLease
    /\ ClaimNodeAttempt(d)
    /\ GoTo(d, "started")
    /\ UNCHANGED <<status, token, dispatch, committed, wfVars, callVars, lost, reapVars>>

\* evidence.start raised, which nothing in execute_node catches.
RefuseAttempt(d) ==
    /\ pc[d] = "loaded"
    /\ ~(Guarded(d) /\ Contract(d[1]) /\ Claimable(d[1]))
    /\ Exit(d) /\ Raises(d)
    /\ UNCHANGED <<runVars, rowVars, wf, wave, finToken, begins, callVars, reapVars>>

\* dispatcher.execute of a node that commits nothing, or fails before it does.
Compute(d) ==
    /\ pc[d] = "started"
    /\ \/ d[1] \notin Outputs /\ GoTo(d, "ok")
       \/ GoTo(d, "err")
    /\ UNCHANGED <<runVars, rowVars, wfVars, callVars, lost, reapVars>>

\* The serving output is committed in one transaction with before_commit,
\* which is the run's lease guard.  The commit may be followed by a failure
\* the node reports, and its own outcome may be unknown.
CommitOutput(d) ==
    /\ pc[d] = "started" /\ d[1] \in Outputs
    /\ \/ /\ Guarded(d)
          /\ committed' = committed \cup {d[1]}
          /\ left' = RunLease
          /\ GoTo(d, "ok") \/ GoTo(d, "late")
          /\ UNCHANGED lost
       \/ /\ Guarded(d)
          /\ GoTo(d, "late")
          /\ UNCHANGED <<committed, left, lost>>
       \/ /\ ~Guarded(d)
          /\ lost' = lost \cup {d}
          /\ GoTo(d, "err")
          /\ UNCHANGED <<committed, left>>
    /\ UNCHANGED <<status, token, dispatch, node, count, att, attNo, attLeft, wfVars,
                   callVars, reapVars>>

\* Mutant: the attempt is found by its id alone.
HoldsAttemptId(d) == attNo[d] # 0

\* The fence of an attempt's terminal write, lease_expires_at >= completed_at.
HoldsAttempt(d) == att[d] = "RUNNING" /\ attLeft[d] >= 1

\* Mutant: the attempt's own fence is thought enough.
CanCloseByFence(d) == Contract(d[1]) /\ HoldsAttempt(d)

CanClose(d) == Guarded(d) /\ Contract(d[1]) /\ HoldsAttempt(d)

\* _update_node_after_attempt: unless the node moved on.
UpdateNodeAfterAttempt(d, result) ==
    node' = IF node[d[1]] = "RUNNING" /\ count[d[1]] = attNo[d]
            THEN [node EXCEPT ![d[1]] = result] ELSE node

\* complete_attempt
CloseAttempt(d, result) ==
    /\ left' = RunLease
    /\ att'  = [att EXCEPT ![d] = result]
    /\ UpdateNodeAfterAttempt(d, result)
    /\ attLeft' = [attLeft EXCEPT ![d] = 0]
    /\ UNCHANGED <<status, token, dispatch, count, attNo, committed>>

\* A write that raised is rolled back, and remembered if the lease was lost.
RecordLoss(d) == lost' = IF Guarded(d) THEN lost ELSE lost \cup {d}

\* evidence.succeed; when it raises, a committed output is reported as such.
Succeed(d) ==
    /\ pc[d] = "ok"
    /\ \/ /\ CanClose(d)
          /\ CloseAttempt(d, "SUCCEEDED")
          /\ GoTo(d, "good") /\ UNCHANGED lost
       \/ /\ ~CanClose(d)
          /\ GoTo(d, IF d[1] \in Outputs THEN "late" ELSE "err") /\ RecordLoss(d)
          /\ UNCHANGED <<runVars, rowVars>>
    /\ UNCHANGED <<wfVars, callVars, reapVars>>

\* evidence.fail after an ordinary error; when it raises, so does the activity.
Fail(d) ==
    /\ pc[d] = "err"
    /\ \/ /\ CanClose(d)
          /\ CloseAttempt(d, "FAILED")
          /\ GoTo(d, "bad") /\ UNCHANGED <<lost, tries, outcome, shown>>
       \/ /\ ~CanClose(d)
          /\ Exit(d) /\ Raises(d)
          /\ UNCHANGED <<runVars, rowVars>>
    /\ UNCHANGED <<wf, wave, finToken, begins, callVars, reapVars>>

\* _record_committed_reconciliation: the same write, its failure swallowed.
FailLate(d) ==
    /\ pc[d] = "late"
    /\ GoTo(d, "torn") /\ RecordLoss(d)
    /\ IF CanClose(d) THEN CloseAttempt(d, "FAILED") ELSE UNCHANGED <<runVars, rowVars>>
    /\ UNCHANGED <<wfVars, callVars, reapVars>>

\* Leaving run_execution_lease_keepalive raises a recorded lease failure;
\* otherwise the outcome is returned.
Return(d) ==
    /\ pc[d] \in {"good", "bad", "torn"}
    /\ Exit(d)
    /\ \/ d \in lost /\ Raises(d)
       \/ /\ d \notin lost
          /\ Returns(d, IF pc[d] = "good" THEN "succeeded" ELSE "failed")
          /\ shown' = IF Current(d) /\ d[1] \in Outputs /\ pc[d] # "bad"
                      THEN shown \cup {d[1]} ELSE shown
    /\ UNCHANGED <<runVars, rowVars, wf, wave, finToken, begins, callVars, reapVars>>

\* The threads beside the node: _renew_execution_lease and AttemptHeartbeat.
RenewRunLease(d) ==
    /\ pc[d] \in Live /\ d \notin lost
    /\ \/ Renewable(held[d]) /\ left' = RunLease /\ UNCHANGED lost
       \/ ~Renewable(held[d]) /\ lost' = lost \cup {d} /\ UNCHANGED left
    /\ UNCHANGED <<status, token, dispatch, rowVars, wfVars, callVars, pc, held,
                   stalled, stalls, reapVars>>

\* heartbeat_node_attempt would match the attempt row, lease_expires_at > now.
HoldsLease(d) == att[d] = "RUNNING" /\ attLeft[d] >= 2

HeartbeatAttempt(d) ==
    /\ pc[d] \in Claimed
    /\ HoldsLease(d)
    /\ attLeft' = [attLeft EXCEPT ![d] = AttemptLease + 1]
    /\ UNCHANGED <<runVars, node, count, att, attNo, committed, wfVars, callVars,
                   procVars, reapVars>>

\* Temporal gives up on the delivery it waits for: its worker is gone or took
\* too long.  The node runs in a session of its own and may well go on.
TimeOut(d) ==
    /\ Current(d) /\ pc[d] \in Live
    /\ Raises(d)
    /\ UNCHANGED <<runVars, rowVars, wf, wave, finToken, begins, callVars, procVars,
                   reapVars>>

\* cancel_active_node_attempt matches: the node is RUNNING and this delivery's
\* attempt is its latest.
IsCancelOwner(d) ==
    node[d[1]] = "RUNNING" /\ att[d] = "RUNNING" /\ attNo[d] = count[d[1]]

\* A cancelled workflow has the node's process terminated and then runs
\* cancel_node.
CancelNode(d) ==
    /\ wf = "cancelled" /\ pc[d] \in Live /\ tries[d[1]] = d[2]
    /\ Exit(d)
    /\ IF status = "cancelling" /\ IsCancelOwner(d)
       THEN /\ att'  = [att EXCEPT ![d] = "CANCELLED"]
            /\ node' = [node EXCEPT ![d[1]] = "CANCELLED"]
       ELSE UNCHANGED <<att, node>>
    /\ UNCHANGED <<runVars, count, attNo, attLeft, committed, wfVars, callVars, reapVars>>

-----------------------------------------------------------------------------
(* The control worker *)

\* Mutant: the run is closed once no attempt row is RUNNING.
RecoverCancellationAfterAttempts ==
    /\ status = "cancelling"
    /\ \A d \in Deliveries : att[d] # "RUNNING"
    /\ CloseCancelled
    /\ UNCHANGED <<dispatch, rowVars, wfVars, callVars, procVars, reapVars>>

\* active_node_run_count is 0.
NoActiveNode == \A n \in Nodes : node[n] # "RUNNING"

\* recover_cancellations: the run is closed once no node row is RUNNING.
RecoverCancellation ==
    /\ status = "cancelling"
    /\ NoActiveNode
    /\ CloseCancelled
    /\ UNCHANGED <<dispatch, rowVars, wfVars, callVars, procVars, reapVars>>

\* stale_execution_runs
IsStaleExecution == status = "running" /\ token # 0 /\ left = 0

\* recover_stale_executions reads the row.
ReapScan ==
    /\ scanned = 0
    /\ IsStaleExecution
    /\ scanned' = token
    /\ UNCHANGED <<runVars, rowVars, wfVars, callVars, procVars, reaped>>

\* _expired_execution_state: what was committed decides.
ExpiredStatus == IF committed # {} THEN "partial" ELSE "failed"

\* expire_run_execution: compare-and-set on the status, the token and the expiry.
Expirable ==
    /\ token = scanned /\ left = 0
    /\ \/ ExpiredStatus = "partial" /\ status \in {"running", "cancelling"}
       \/ ExpiredStatus = "failed" /\ status \in {"queued", "running"}

\* expire_stale_pipeline_run
ReapExpire ==
    /\ scanned # 0
    /\ scanned' = 0
    /\ IF Expirable
       THEN status' = ExpiredStatus /\ token' = 0 /\ left' = 0 /\ reaped' = TRUE
       ELSE UNCHANGED <<status, token, left, reaped>>
    /\ UNCHANGED <<dispatch, rowVars, wfVars, callVars, procVars>>

-----------------------------------------------------------------------------
(* The environment *)

\* A node's process dies, or is suspended and may go on where it was.
Stall(d) ==
    /\ pc[d] \in Live
    /\ stalls < MaxStalls
    /\ stalls' = stalls + 1
    /\ stalled' = stalled \cup {d}
    /\ UNCHANGED <<runVars, rowVars, wfVars, callVars, pc, held, lost, reapVars>>

Resume(d) ==
    /\ d \in stalled
    /\ stalled' = stalled \ {d}
    /\ UNCHANGED <<runVars, rowVars, wfVars, callVars, pc, held, lost, stalls, reapVars>>

\* The renewals run several times per lease, so a lease does not get to its
\* last tick while a process that may renew it is well.
RenewalsInTime ==
    \A d \in Deliveries \ stalled :
        /\ pc[d] \in Live /\ Guarded(d) => left > 1
        /\ pc[d] \in Claimed /\ HoldsLease(d) => attLeft[d] > 2

Tick ==
    /\ RenewalsInTime
    /\ left' = IF left = 0 THEN 0 ELSE left - 1
    /\ attLeft' = [d \in Deliveries |-> IF attLeft[d] = 0 THEN 0 ELSE attLeft[d] - 1]
    /\ UNCHANGED <<status, token, dispatch, node, count, att, attNo, committed, wfVars,
                   callVars, procVars, reapVars>>

-----------------------------------------------------------------------------

DispatchStep == StartDispatch \/ CallWorkflow \/ RecordDispatch

WorkflowStep ==
    \/ Begin \/ ForkWave \/ JoinNodes
    \/ FinalizeRead \/ FinalizeWrite \/ FinalizeCancelled \/ FinalizeExhausted

DeliveryStep(d) ==
    \/ Load(d) \/ StartAttempt(d) \/ RefuseAttempt(d)
    \/ Compute(d) \/ CommitOutput(d)
    \/ Succeed(d) \/ Fail(d) \/ FailLate(d) \/ Return(d)

Next ==
    \/ DispatchStep \/ RequestCancel \/ ReplayCancel \/ CancelWorkflow
    \/ WorkflowStep
    \/ \E d \in Deliveries \ stalled :
         DeliveryStep(d) \/ RenewRunLease(d) \/ HeartbeatAttempt(d) \/ Stall(d)
    \/ \E d \in Deliveries : TimeOut(d) \/ CancelNode(d) \/ Resume(d)
    \/ RecoverCancellation \/ ReapScan \/ ReapExpire
    \/ Tick

Spec == Init /\ [][Next]_vars

\* Temporal delivers and times out activities, processes that are well go on,
\* the control worker ticks, and time passes.  Nothing is assumed of operators
\* or of a stalled process.
Fairness ==
    /\ WF_vars(DispatchStep) /\ WF_vars(WorkflowStep)
    /\ \A d \in Deliveries :
         /\ WF_vars(d \notin stalled /\ DeliveryStep(d))
         /\ WF_vars(d \notin stalled /\ RenewRunLease(d))
         /\ WF_vars(d \notin stalled /\ HeartbeatAttempt(d))
         /\ WF_vars(TimeOut(d))
    /\ WF_vars(RecoverCancellation) /\ WF_vars(ReapScan) /\ WF_vars(ReapExpire)
    /\ WF_vars(Tick)

FairSpec == Spec /\ Fairness

-----------------------------------------------------------------------------
(* Properties *)

\* Every column, workflow and process value is one the code writes; tokens,
\* deliveries and leases stay within what begin, the retry policy and the lease
\* durations allow.
TypeOK ==
    /\ status \in RunStatuses /\ token \in 0..MaxBegins /\ left \in 0..RunLease
    /\ dispatch \in {"pending", "unknown", "dispatched"}
    /\ node \in [Nodes -> NodeStatuses]
    /\ count \in [Nodes -> Nat]
    /\ att \in [Deliveries -> AttStatuses]
    /\ attNo \in [Deliveries -> Nat]
    /\ attLeft \in [Deliveries -> 0..(AttemptLease + 1)]
    /\ committed \subseteq Outputs /\ shown \subseteq Outputs
    /\ wf \in WfStates /\ wave \subseteq Nodes
    /\ tries \in [Nodes -> Nat] /\ \A n \in Nodes : tries[n] <= MaxAttempts[n]
    /\ outcome \in [Nodes -> Outcomes]
    /\ call \in {"none", "calling", "dispatched", "unknown"} /\ signal \in BOOLEAN
    /\ finToken \in 0..MaxBegins /\ scanned \in 0..MaxBegins /\ reaped \in BOOLEAN
    /\ pc \in [Deliveries -> PCs]
    /\ held \in [Deliveries -> 0..MaxBegins]
    /\ lost \subseteq Deliveries /\ stalled \subseteq Deliveries
    /\ begins \in 0..MaxBegins /\ unknowns \in 0..MaxUnknown /\ stalls \in 0..MaxStalls

\* The node row and its attempt rows are written by overlapping deliveries and
\* still tell one story: all attempts but the latest are LOST, a RUNNING,
\* SUCCEEDED or FAILED node has a latest attempt that is the same, and an
\* attempt closes only together with its node.
EvidenceAgrees ==
    \A d \in Deliveries :
        LET n == d[1] IN
        att[d] # "none" =>
            /\ attNo[d] < count[n] => att[d] = "LOST"
            /\ attNo[d] = count[n] =>
                 /\ node[n] \in {"RUNNING", "SUCCEEDED", "FAILED"} => att[d] = node[n]
                 /\ att[d] \in {"SUCCEEDED", "FAILED"} => node[n] = att[d]

\* A node is attempted only after every upstream node row is SUCCEEDED, also
\* when upstream deliveries overlapped, lost their lease or were timed out.
DownstreamAfterUpstream ==
    \A d \in Deliveries :
        att[d] # "none" => \A u \in Upstream[d[1]] : node[u] = "SUCCEEDED"

\* While the run is being cancelled no node row is RUNNING, because
\* cancel_inactive_node_runs marks those too: a step of the induction, and the
\* reason why CancelledAfterNodesStop fails.
NoNodeRunsOn ==
    status = "cancelling" => \A n \in Nodes : node[n] # "RUNNING"

\* The parts of the inductive invariant behind EvidenceAgrees.
EvidenceTypes ==
    /\ status \in RunStatuses
    /\ node \in [Nodes -> NodeStatuses] /\ count \in [Nodes -> Nat]
    /\ att \in [Deliveries -> AttStatuses] /\ attNo \in [Deliveries -> Nat]
    /\ pc \in [Deliveries -> PCs]

\* Attempt numbers are given out once, to deliveries that have started.
AttemptsNumbered ==
    /\ \A n \in Nodes : node[n] = "PENDING" => count[n] = 0
    /\ \A d \in Deliveries :
         /\ att[d] = "none" <=> attNo[d] = 0
         /\ attNo[d] <= count[d[1]]
         /\ pc[d] \in {"idle", "loaded"} => att[d] = "none"
    /\ \A d, e \in Deliveries :
         d[1] = e[1] /\ attNo[d] = attNo[e] /\ attNo[d] # 0 => d = e

\* Until a cancellation a running attempt has a running node.
OpenAttempts ==
    status \in {"queued", "running"} =>
        \A d \in Deliveries : att[d] = "RUNNING" => node[d[1]] = "RUNNING"

\* The evidence is inductive: claim_node_attempt numbers the attempts of a node
\* without gaps or repeats, and the run's lease keeps a cancelled or closed run
\* from being written by a delivery that has not noticed.
EvidenceInv ==
    /\ EvidenceTypes /\ AttemptsNumbered /\ OpenAttempts
    /\ EvidenceAgrees /\ NoNodeRunsOn

\* A delivery of begin takes at most one token, and begin has MaxBegins of them.
BeginsCounted ==
    /\ wf = "none" => token = 0 /\ begins = 0
    /\ wf = "begin" => token <= begins /\ begins < MaxBegins

\* What the workflow holds is what the rows say: a good delivery has closed its
\* attempt as SUCCEEDED, a succeeded outcome has a SUCCEEDED node row, and the
\* upstream outcomes of a forked node, and of one with a delivery, succeeded.
OutcomesBacked ==
    /\ \A d \in Deliveries : pc[d] = "good" => att[d] = "SUCCEEDED"
    /\ \A n \in Nodes : outcome[n] = "succeeded" => node[n] = "SUCCEEDED"
    /\ \A n \in wave : \A u \in Upstream[n] : outcome[u] = "succeeded"
    /\ \A d \in Deliveries :
         pc[d] # "idle" => \A u \in Upstream[d[1]] : outcome[u] = "succeeded"

\* The inductive invariant of the run: its rows, its workflow and its deliveries
\* tell one story, within what begin and the retry policy allow.
RunInv == TypeOK /\ BeginsCounted /\ EvidenceInv /\ OutcomesBacked

\* Once the run is terminal no orphaned delivery, late commit, reaper or
\* cancellation changes its node rows, its attempts' states or its outputs, or
\* opens it again.  (reconcile_unknown_commit_outputs, which revisits partial
\* runs, is not part of this module.)
TerminalEvidenceFrozen ==
    [][(status \in Terminal) =>
         UNCHANGED <<status, node, count, att, committed>>]_vars

\* An accepted cancellation is not overtaken by a finalize already under way:
\* the run ends cancelled, or partial when the reaper finds a committed output.
CancelWins ==
    [][status = "cancelling" => status' \in {"cancelling", "cancelled", "partial"}]_vars

\* From the moment a cancellation is accepted, cancelling is all that goes on: a
\* delivery that read the run before takes up no node, commits no output and
\* closes no attempt, although it holds the run's token and its own attempt
\* under leases that have not run out (require_active in each of its writes).
CancelBlocksWork ==
    [][status = "cancelling" =>
         /\ UNCHANGED <<count, committed>>
         /\ \A n \in Nodes : node'[n] \in {node[n], "CANCELLED"}
         /\ \A d \in Deliveries : att'[d] \in {att[d], "CANCELLED"}]_vars

\* Every run comes to an end, whatever is lost, stalled or timed out; the one
\* way out is a begin activity that used up its deliveries before the claim.
RunTerminates ==
    <>(status \in Terminal \/ (wf = "failed" /\ status = "queued"))

\* "Choose success, partial, or failed": a run is succeeded only if all of its
\* nodes are.
SucceededMeansNodesSucceeded ==
    status = "succeeded" => \A n \in Nodes : node[n] = "SUCCEEDED"

\* "completes cancellation after active nodes stop": no delivery of a cancelled
\* run is still at work under a running attempt.
CancelledAfterNodesStop ==
    status = "cancelled" =>
        \A d \in Deliveries : ~(pc[d] \in Claimed /\ att[d] = "RUNNING")

\* "stale or expired owners cannot ... commit serving outputs": a serving
\* output is committed only by a delivery whose attempt is open and in its lease.
ExpiredOwnersCannotCommit ==
    [][\A d \in Deliveries :
         CommitOutput(d) /\ committed' # committed => HoldsAttempt(d)]_vars

\* "a lapsed lease is a crash, not a slow node": a run is reaped only if one of
\* its node processes died or was suspended, or its workflow failed.
LapsedLeaseIsACrash == reaped => stalls > 0 \/ wf = "failed"

\* "coordinates changed under the same run and node id": a delivery that owns
\* its node and its run has coordinates that are accepted.
OwnersPassTheContract ==
    \A d \in Deliveries :
        pc[d] \in Claimed /\ HoldsAttempt(d) /\ Guarded(d) => Contract(d[1])
=============================================================================
