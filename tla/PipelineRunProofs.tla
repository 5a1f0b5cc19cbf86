------------------------- MODULE PipelineRunProofs -------------------------
(***************************************************************************)
(* Proofs about PipelineRun, for every plan and every number of            *)
(* deliveries: the node and attempt rows written by overlapping deliveries *)
(* agree, a node is attempted only behind its upstream nodes, a            *)
(* cancellation is not undone, and a terminal run is frozen.               *)
(***************************************************************************)
EXTENDS PipelineRun, TLAPS

(* A delivery belongs to a node of the plan. *)
LEMMA DeliveryNode ==
    ASSUME NEW d \in Deliveries
    PROVE  d[1] \in Nodes
<1>1. PICK n \in Nodes : d \in {n} \X (1..MaxAttempts[n])
  BY DEF Deliveries
<1> QED BY <1>1

(* What a step does when it writes no node or attempt row: the run is not    *)
(* opened again, and no process goes back to before its attempt.             *)
Quiet ==
    /\ UNCHANGED <<node, count, att, attNo>>
    /\ pc' \in [Deliveries -> PCs]
    /\ \A d \in Deliveries :
         pc'[d] \in {"idle", "loaded"} => pc[d] \in {"idle", "loaded"}
    /\ status' \in RunStatuses
    /\ status' \in {"queued", "running"} => status \in {"queued", "running"}
    /\ status' = "cancelling" => status = "cancelling"

LEMMA QuietKeeps ==
    ASSUME EvidenceInv, Quiet
    PROVE  EvidenceInv'
<1> USE DEF EvidenceInv, Quiet
<1>1. EvidenceTypes'
  BY DEF EvidenceTypes
<1>2. AttemptsNumbered'
  BY DEF AttemptsNumbered
<1>3. OpenAttempts' /\ NoNodeRunsOn'
  BY DEF OpenAttempts, NoNodeRunsOn
<1>4. EvidenceAgrees'
  BY DEF EvidenceAgrees
<1> QED BY <1>1, <1>2, <1>3, <1>4

(* The workflow and the control worker write the run row only, and open no   *)
(* run that is closed or being cancelled.                                    *)
LEMMA RunRowStepsAreQuiet ==
    ASSUME EvidenceTypes,
           \/ StartDispatch \/ CallWorkflow \/ RecordDispatch
           \/ ReplayCancel \/ CancelWorkflow
           \/ WorkflowStep
           \/ RecoverCancellation \/ ReapScan \/ ReapExpire \/ Tick
    PROVE  Quiet
<1> USE DEF EvidenceTypes, Quiet, RunStatuses, Terminal, runVars, rowVars, procVars
<1>1. CASE StartDispatch \/ CallWorkflow \/ RecordDispatch \/ ReplayCancel \/ CancelWorkflow
  BY <1>1 DEF StartDispatch, CallWorkflow, RecordDispatch, ReplayCancel, CancelWorkflow
<1>2. CASE Begin
  BY <1>2 DEF Begin, ClaimRun
<1>3. CASE ForkWave \/ JoinNodes \/ FinalizeRead \/ FinalizeExhausted
  BY <1>3 DEF ForkWave, JoinNodes, FinalizeRead, FinalizeExhausted
<1>4. CASE FinalizeWrite
  BY <1>4 DEF FinalizeWrite, Renewable, TerminalStatus
<1>5. CASE FinalizeCancelled \/ RecoverCancellation
  BY <1>5 DEF FinalizeCancelled, RecoverCancellation, CloseCancelled
<1>6. CASE ReapScan \/ Tick
  BY <1>6 DEF ReapScan, Tick
<1>7. CASE ReapExpire
  BY <1>7 DEF ReapExpire, Expirable, ExpiredStatus
<1> QED BY <1>1, <1>2, <1>3, <1>4, <1>5, <1>6, <1>7 DEF WorkflowStep

(* So are the steps of a delivery and of its process that write no row of    *)
(* the evidence.                                                             *)
LEMMA ProcessStepsAreQuiet ==
    ASSUME EvidenceTypes, NEW d \in Deliveries,
           \/ Load(d) \/ RefuseAttempt(d) \/ Compute(d) \/ CommitOutput(d) \/ Return(d)
           \/ RenewRunLease(d) \/ HeartbeatAttempt(d) \/ TimeOut(d)
           \/ Stall(d) \/ Resume(d)
    PROVE  Quiet
<1> USE DEF EvidenceTypes, Quiet, RunStatuses, Terminal, PCs, Live, Claimed,
            runVars, rowVars, procVars, GoTo, Exit
<1>1. CASE Load(d)
  BY <1>1 DEF Load
<1>2. CASE RefuseAttempt(d)
  BY <1>2 DEF RefuseAttempt
<1>3. CASE Compute(d)
  BY <1>3 DEF Compute
<1>4. CASE CommitOutput(d)
  BY <1>4 DEF CommitOutput
<1>5. CASE Return(d)
  BY <1>5 DEF Return
<1>6. CASE RenewRunLease(d) \/ HeartbeatAttempt(d) \/ TimeOut(d) \/ Stall(d) \/ Resume(d)
  BY <1>6 DEF RenewRunLease, HeartbeatAttempt, TimeOut, Stall, Resume
<1> QED BY <1>1, <1>2, <1>3, <1>4, <1>5, <1>6

(* A cancellation leaves the attempts alone and no node RUNNING. *)
LEMMA RequestCancelKeeps ==
    ASSUME EvidenceInv, RequestCancel
    PROVE  EvidenceInv'
<1> USE DEF EvidenceInv, EvidenceTypes, RequestCancel, CancelInactiveNodes, procVars
<1>1. EvidenceTypes'
  BY DEF RunStatuses, NodeStatuses
<1>2. AttemptsNumbered'
  BY DEF AttemptsNumbered
<1>3. OpenAttempts' /\ NoNodeRunsOn'
  BY DEF OpenAttempts, NoNodeRunsOn
<1>4. EvidenceAgrees'
  BY DeliveryNode DEF EvidenceAgrees
<1> QED BY <1>1, <1>2, <1>3, <1>4

(* A delivery that starts gets the next number; every earlier attempt of the *)
(* node is LOST, because the node was PENDING without any or RUNNING with    *)
(* its latest.                                                               *)
LEMMA StartAttemptKeeps ==
    ASSUME EvidenceInv, NEW d \in Deliveries, StartAttempt(d)
    PROVE  EvidenceInv'
<1> DEFINE n == d[1]
<1>1. n \in Nodes
  BY DeliveryNode
<1>2. /\ status = "running" /\ status' = status
      /\ node[n] \in {"PENDING", "RUNNING"}
      /\ pc[d] = "loaded" /\ pc' = [pc EXCEPT ![d] = "started"]
      /\ ClaimNodeAttempt(d)
  BY DEF StartAttempt, Guarded, Renewable, Claimable, GoTo
<1>3. att[d] = "none" /\ attNo[d] = 0
  BY <1>2 DEF EvidenceInv, AttemptsNumbered
<1>4. /\ node' = [node EXCEPT ![n] = "RUNNING"]
      /\ count' = [count EXCEPT ![n] = count[n] + 1]
      /\ attNo' = [attNo EXCEPT ![d] = count[n] + 1]
      /\ att' = [e \in Deliveries |->
                   IF e = d THEN "RUNNING"
                   ELSE IF e[1] = n /\ att[e] = "RUNNING" THEN "LOST" ELSE att[e]]
  BY <1>1, <1>2 DEF ClaimNodeAttempt, EvidenceInv, EvidenceTypes
<1>5. \A e \in Deliveries : e # d /\ e[1] = n => att'[e] \in {"none", "LOST"}
  BY <1>1, <1>2, <1>4 DEF EvidenceInv, EvidenceTypes, AttemptsNumbered, EvidenceAgrees
<1>6. EvidenceTypes'
  BY <1>1, <1>2, <1>4
     DEF EvidenceInv, EvidenceTypes, NodeStatuses, AttStatuses, PCs, Live, Claimed
<1>7. AttemptsNumbered'
  BY <1>1, <1>2, <1>3, <1>4, DeliveryNode DEF EvidenceInv, EvidenceTypes, AttemptsNumbered
<1>8. OpenAttempts' /\ NoNodeRunsOn'
  BY <1>1, <1>2, <1>4, <1>5, DeliveryNode
     DEF EvidenceInv, EvidenceTypes, OpenAttempts, NoNodeRunsOn
<1>9. EvidenceAgrees'
  <2> SUFFICES ASSUME NEW e \in Deliveries, att'[e] # "none"
               PROVE  /\ attNo'[e] < count'[e[1]] => att'[e] = "LOST"
                      /\ attNo'[e] = count'[e[1]] =>
                           /\ node'[e[1]] \in {"RUNNING", "SUCCEEDED", "FAILED"}
                                => att'[e] = node'[e[1]]
                           /\ att'[e] \in {"SUCCEEDED", "FAILED"} => node'[e[1]] = att'[e]
    BY DEF EvidenceAgrees
  <2>1. CASE e = d
    BY <1>1, <1>4, <2>1 DEF EvidenceInv, EvidenceTypes
  <2>2. CASE e # d /\ e[1] = n
    BY <1>1, <1>4, <1>5, <2>2 DEF EvidenceInv, EvidenceTypes, AttemptsNumbered
  <2>3. CASE e[1] # n
    BY <1>1, <1>4, <2>3, DeliveryNode DEF EvidenceInv, EvidenceTypes, EvidenceAgrees
  <2> QED BY <2>1, <2>2, <2>3
<1> QED BY <1>6, <1>7, <1>8, <1>9 DEF EvidenceInv

(* An attempt that may close is the latest of a RUNNING node, so the two      *)
(* rows close together.                                                       *)
LEMMA CloseAttemptKeeps ==
    ASSUME EvidenceInv, NEW d \in Deliveries, NEW result \in {"SUCCEEDED", "FAILED"},
           CanClose(d), CloseAttempt(d, result),
           pc[d] \in {"ok", "err", "late"},
           pc' \in [Deliveries -> PCs],
           \A e \in Deliveries :
               pc'[e] \in {"idle", "loaded"} => pc[e] \in {"idle", "loaded"}
    PROVE  EvidenceInv'
<1> DEFINE n == d[1]
<1>1. n \in Nodes
  BY DeliveryNode
<1>2. status = "running" /\ status' = status /\ att[d] = "RUNNING"
  BY DEF CanClose, Guarded, Renewable, HoldsAttempt, CloseAttempt
<1>3. node[n] = "RUNNING" /\ attNo[d] = count[n] /\ attNo[d] # 0
  BY <1>1, <1>2 DEF EvidenceInv, EvidenceTypes, OpenAttempts, AttemptsNumbered, EvidenceAgrees
<1>4. /\ node' = [node EXCEPT ![n] = result]
      /\ att' = [att EXCEPT ![d] = result]
      /\ count' = count /\ attNo' = attNo
  BY <1>3 DEF CloseAttempt, UpdateNodeAfterAttempt
<1>5. \A e \in Deliveries : e # d /\ e[1] = n => attNo[e] # count[n]
  BY <1>3 DEF EvidenceInv, AttemptsNumbered
<1>6. EvidenceTypes'
  BY <1>1, <1>2, <1>4 DEF EvidenceInv, EvidenceTypes, NodeStatuses, AttStatuses
<1>7. AttemptsNumbered'
  BY <1>1, <1>2, <1>3, <1>4 DEF EvidenceInv, EvidenceTypes, AttemptsNumbered
<1>8. OpenAttempts' /\ NoNodeRunsOn'
  BY <1>1, <1>2, <1>3, <1>4, <1>5, DeliveryNode
     DEF EvidenceInv, EvidenceTypes, AttemptsNumbered, OpenAttempts, EvidenceAgrees,
         NoNodeRunsOn
<1>9. EvidenceAgrees'
  BY <1>1, <1>2, <1>3, <1>4, <1>5, DeliveryNode
     DEF EvidenceInv, EvidenceTypes, EvidenceAgrees
<1> QED BY <1>6, <1>7, <1>8, <1>9 DEF EvidenceInv

(* A delivery's last write either closes its attempt or changes no row. *)
LEMMA LastWriteKeeps ==
    ASSUME EvidenceInv, NEW d \in Deliveries, Succeed(d) \/ Fail(d) \/ FailLate(d)
    PROVE  EvidenceInv'
<1> DEFINE Forward == /\ pc' \in [Deliveries -> PCs]
                      /\ \A e \in Deliveries : pc'[e] \in {"idle", "loaded"} =>
                                               pc[e] \in {"idle", "loaded"}
<1>1. Forward /\ pc[d] \in {"ok", "err", "late"}
  BY DEF EvidenceInv, EvidenceTypes, Succeed, Fail, FailLate, GoTo, Exit, PCs, Live, Claimed
<1>2. CASE CanClose(d)
  <2>1. \E result \in {"SUCCEEDED", "FAILED"} : CloseAttempt(d, result)
    BY <1>2 DEF Succeed, Fail, FailLate
  <2> QED BY <1>1, <1>2, <2>1, CloseAttemptKeeps
<1>3. CASE ~CanClose(d)
  <2>1. UNCHANGED <<runVars, rowVars>>
    BY <1>3 DEF Succeed, Fail, FailLate
  <2>2. Quiet
    BY <1>1, <2>1 DEF Quiet, runVars, rowVars, EvidenceInv, EvidenceTypes
  <2> QED BY <2>2, QuietKeeps
<1> QED BY <1>2, <1>3

(* cancel_node closes a node and its latest attempt together. *)
LEMMA CancelNodeKeeps ==
    ASSUME EvidenceInv, NEW d \in Deliveries, CancelNode(d)
    PROVE  EvidenceInv'
<1>1. /\ status' = status /\ count' = count /\ attNo' = attNo
      /\ pc' = [pc EXCEPT ![d] = "gone"]
  BY DEF CancelNode, Exit, runVars
<1>2. CASE status = "cancelling" /\ IsCancelOwner(d)
  BY <1>2, DeliveryNode DEF EvidenceInv, NoNodeRunsOn, IsCancelOwner
<1>3. CASE ~(status = "cancelling" /\ IsCancelOwner(d))
  <2>1. node' = node /\ att' = att
    BY <1>3 DEF CancelNode
  <2>2. Quiet
    BY <1>1, <2>1 DEF Quiet, EvidenceInv, EvidenceTypes, PCs
  <2> QED BY <2>2, QuietKeeps
<1> QED BY <1>2, <1>3

(* At first there is no attempt. *)
LEMMA InitEvidence == Init => EvidenceInv
<1> SUFFICES ASSUME Init PROVE EvidenceInv
  OBVIOUS
<1>1. EvidenceTypes
  BY DEF Init, EvidenceTypes, RunStatuses, NodeStatuses, AttStatuses, PCs
<1>2. AttemptsNumbered
  BY DeliveryNode DEF Init, AttemptsNumbered
<1>3. OpenAttempts /\ NoNodeRunsOn /\ EvidenceAgrees
  BY DEF Init, OpenAttempts, NoNodeRunsOn, EvidenceAgrees
<1> QED BY <1>1, <1>2, <1>3 DEF EvidenceInv

(* Every step keeps the evidence consistent. *)
LEMMA EvidenceStep == EvidenceInv /\ [Next]_vars => EvidenceInv'
<1> SUFFICES ASSUME EvidenceInv, [Next]_vars PROVE EvidenceInv'
  OBVIOUS
<1>1. EvidenceTypes
  BY DEF EvidenceInv
<1>2. CASE \/ DispatchStep \/ ReplayCancel \/ CancelWorkflow \/ WorkflowStep
           \/ RecoverCancellation \/ ReapScan \/ ReapExpire \/ Tick
  BY <1>1, <1>2, RunRowStepsAreQuiet, QuietKeeps DEF DispatchStep
<1>3. CASE RequestCancel
  BY <1>3, RequestCancelKeeps
<1>4. ASSUME NEW d \in Deliveries, DeliveryStep(d)
      PROVE  EvidenceInv'
  BY <1>1, <1>4, ProcessStepsAreQuiet, QuietKeeps, StartAttemptKeeps, LastWriteKeeps
     DEF DeliveryStep
<1>5. ASSUME NEW d \in Deliveries,
             \/ RenewRunLease(d) \/ HeartbeatAttempt(d) \/ Stall(d)
             \/ TimeOut(d) \/ CancelNode(d) \/ Resume(d)
      PROVE  EvidenceInv'
  BY <1>1, <1>5, ProcessStepsAreQuiet, QuietKeeps, CancelNodeKeeps
<1>6. CASE UNCHANGED vars
  <2>1. Quiet
    BY <1>1, <1>6 DEF Quiet, EvidenceTypes, vars, runVars, rowVars, procVars
  <2> QED BY <2>1, QuietKeeps
<1> QED BY <1>2, <1>3, <1>4, <1>5, <1>6 DEF Next

(* Every behaviour of the distributed run keeps its evidence consistent: the *)
(* inductive invariant of the node and attempt rows.                         *)
THEOREM PipelineEvidence == Spec => []EvidenceInv
BY InitEvidence, EvidenceStep, PTL DEF Spec

(* The node row and the attempt rows of overlapping deliveries agree. *)
THEOREM PipelineEvidenceAgrees == Spec => []EvidenceAgrees
<1>1. EvidenceInv => EvidenceAgrees
  BY DEF EvidenceInv
<1> QED BY <1>1, PipelineEvidence, PTL

(* Rows are written only by an owner of the run's lease while the run is     *)
(* running, by an accepted cancellation, or by cancel_node while the run is  *)
(* being cancelled: a terminal run is frozen.                                *)
THEOREM PipelineTerminalEvidenceFrozen == Spec => TerminalEvidenceFrozen
<1> DEFINE Frozen == UNCHANGED <<status, node, count, att, committed>>
<1>1. ASSUME Next, status \in Terminal PROVE Frozen
  <2> USE <1>1 DEF Terminal, runVars, rowVars
  <2>1. CASE DispatchStep \/ RequestCancel \/ ReplayCancel \/ CancelWorkflow
    BY <2>1 DEF DispatchStep, StartDispatch, CallWorkflow, RecordDispatch, RequestCancel,
       Cancellable, ReplayCancel, CancelWorkflow
  <2>2. CASE WorkflowStep
    BY <2>2 DEF WorkflowStep, Begin, ClaimRun, ForkWave, JoinNodes, FinalizeRead,
       FinalizeWrite, Renewable, FinalizeCancelled, CloseCancelled, FinalizeExhausted
  <2>3. ASSUME NEW d \in Deliveries, DeliveryStep(d)
        PROVE  Frozen
    <3>1. ~Guarded(d)
      BY DEF Guarded, Renewable
    <3>2. CASE Load(d) \/ StartAttempt(d) \/ RefuseAttempt(d) \/ Compute(d) \/ CommitOutput(d)
      BY <3>1, <3>2 DEF Load, StartAttempt, RefuseAttempt, Compute, CommitOutput
    <3>3. CASE Succeed(d) \/ Fail(d) \/ FailLate(d) \/ Return(d)
      BY <3>1, <3>3 DEF Succeed, Fail, FailLate, Return, CanClose
    <3> QED BY <2>3, <3>2, <3>3 DEF DeliveryStep
  <2>4. ASSUME NEW d \in Deliveries,
               \/ RenewRunLease(d) \/ HeartbeatAttempt(d) \/ Stall(d)
               \/ TimeOut(d) \/ CancelNode(d) \/ Resume(d)
        PROVE  Frozen
    BY <2>4 DEF RenewRunLease, HeartbeatAttempt, Stall, TimeOut, CancelNode, Resume
  <2>5. CASE RecoverCancellation \/ ReapScan \/ ReapExpire \/ Tick
    BY <2>5 DEF RecoverCancellation, ReapScan, ReapExpire, Expirable, Tick
  <2> QED BY <1>1, <2>1, <2>2, <2>3, <2>4, <2>5 DEF Next
<1>2. [Next]_vars => [(status \in Terminal) => Frozen]_vars
  BY <1>1
<1> QED BY <1>2, PTL DEF Spec, TerminalEvidenceFrozen

(* Every write of a delivery asks for a RUNNING run first, so an accepted    *)
(* cancellation stops all of them, and cancel_node only cancels.             *)
THEOREM PipelineCancelBlocksWork == Spec => CancelBlocksWork
<1> DEFINE Blocked == /\ UNCHANGED <<count, committed>>
                      /\ \A n \in Nodes : node'[n] \in {node[n], "CANCELLED"}
                      /\ \A d \in Deliveries : att'[d] \in {att[d], "CANCELLED"}
<1>1. ASSUME EvidenceTypes, Next, status = "cancelling" PROVE Blocked
  <2> USE <1>1 DEF runVars, rowVars
  <2>1. CASE UNCHANGED <<node, count, att, committed>>
    BY <2>1
  <2>2. CASE DispatchStep \/ RequestCancel \/ ReplayCancel \/ CancelWorkflow
    <3>1. UNCHANGED <<node, count, att, committed>>
      BY <2>2 DEF DispatchStep, StartDispatch, CallWorkflow, RecordDispatch, RequestCancel,
         Cancellable, ReplayCancel, CancelWorkflow
    <3> QED BY <2>1, <3>1
  <2>3. CASE WorkflowStep
    <3>1. UNCHANGED <<node, count, att, committed>>
      BY <2>3 DEF WorkflowStep, Begin, ForkWave, JoinNodes, FinalizeRead, FinalizeWrite,
         FinalizeCancelled, FinalizeExhausted
    <3> QED BY <2>1, <3>1
  <2>4. ASSUME NEW d \in Deliveries, DeliveryStep(d)
        PROVE  Blocked
    <3>1. ~Guarded(d)
      BY DEF Guarded, Renewable
    <3>2. CASE Load(d) \/ StartAttempt(d) \/ RefuseAttempt(d) \/ Compute(d) \/ CommitOutput(d)
      BY <2>1, <3>1, <3>2 DEF Load, StartAttempt, RefuseAttempt, Compute, CommitOutput
    <3>3. CASE Succeed(d) \/ Fail(d) \/ FailLate(d) \/ Return(d)
      BY <2>1, <3>1, <3>3 DEF Succeed, Fail, FailLate, Return, CanClose
    <3> QED BY <2>4, <3>2, <3>3 DEF DeliveryStep
  <2>5. ASSUME NEW d \in Deliveries,
               RenewRunLease(d) \/ HeartbeatAttempt(d) \/ Stall(d) \/ TimeOut(d) \/ Resume(d)
        PROVE  Blocked
    BY <2>1, <2>5 DEF RenewRunLease, HeartbeatAttempt, Stall, TimeOut, Resume
  <2>6. ASSUME NEW d \in Deliveries, CancelNode(d)
        PROVE  Blocked
    <3>1. CASE UNCHANGED <<att, node>>
      BY <2>1, <2>6, <3>1 DEF CancelNode
    <3>2. CASE /\ att'  = [att EXCEPT ![d] = "CANCELLED"]
               /\ node' = [node EXCEPT ![d[1]] = "CANCELLED"]
      <4>1. UNCHANGED <<count, committed>>
        BY <2>6 DEF CancelNode
      <4> QED BY <3>2, <4>1 DEF EvidenceTypes
    <3> QED BY <2>6, <3>1, <3>2 DEF CancelNode
  <2>7. CASE RecoverCancellation \/ ReapScan \/ ReapExpire \/ Tick
    <3>1. UNCHANGED <<node, count, att, committed>>
      BY <2>7 DEF RecoverCancellation, ReapScan, ReapExpire, Tick
    <3> QED BY <2>1, <3>1
  <2> QED BY <1>1, <2>2, <2>3, <2>4, <2>5, <2>6, <2>7 DEF Next
<1>2. EvidenceInv /\ [Next]_vars => [status = "cancelling" => Blocked]_vars
  BY <1>1 DEF EvidenceInv
<1> QED BY <1>2, PipelineEvidence, PTL DEF Spec, CancelBlocksWork

(* Only the closing of a cancelled run, and the reaper where it finds a      *)
(* committed output, match a run that is being cancelled.                    *)
THEOREM PipelineCancelWins == Spec => CancelWins
<1> DEFINE Won == status' \in {"cancelling", "cancelled", "partial"}
<1>1. ASSUME Next, status = "cancelling" PROVE Won
  <2> USE <1>1 DEF runVars
  <2>1. CASE DispatchStep \/ RequestCancel \/ ReplayCancel \/ CancelWorkflow
    BY <2>1 DEF DispatchStep, StartDispatch, CallWorkflow, RecordDispatch, RequestCancel,
       Cancellable, ReplayCancel, CancelWorkflow
  <2>2. CASE WorkflowStep
    BY <2>2 DEF WorkflowStep, Begin, ClaimRun, ForkWave, JoinNodes, FinalizeRead,
       FinalizeWrite, Renewable, FinalizeCancelled, CloseCancelled, FinalizeExhausted
  <2>3. ASSUME NEW d \in Deliveries, DeliveryStep(d)
        PROVE  Won
    BY <2>3 DEF DeliveryStep, Load, StartAttempt, RefuseAttempt, Compute, CommitOutput,
       Succeed, Fail, FailLate, Return, CloseAttempt
  <2>4. ASSUME NEW d \in Deliveries,
               \/ RenewRunLease(d) \/ HeartbeatAttempt(d) \/ Stall(d)
               \/ TimeOut(d) \/ CancelNode(d) \/ Resume(d)
        PROVE  Won
    BY <2>4 DEF RenewRunLease, HeartbeatAttempt, Stall, TimeOut, CancelNode, Resume
  <2>5. CASE RecoverCancellation \/ ReapScan \/ ReapExpire \/ Tick
    BY <2>5 DEF RecoverCancellation, CloseCancelled, ReapScan, ReapExpire, Expirable,
       ExpiredStatus, Tick
  <2> QED BY <1>1, <2>1, <2>2, <2>3, <2>4, <2>5 DEF Next
<1>2. [Next]_vars => [status = "cancelling" => Won]_vars
  BY <1>1
<1> QED BY <1>2, PTL DEF Spec, CancelWins

-----------------------------------------------------------------------------
(* Types and bounds *)

\* The run row, the lease tokens read from it and the counters.
LeaseTypes ==
    /\ token \in 0..MaxBegins /\ left \in 0..RunLease
    /\ dispatch \in {"pending", "unknown", "dispatched"}
    /\ finToken \in 0..MaxBegins /\ scanned \in 0..MaxBegins /\ reaped \in BOOLEAN
    /\ held \in [Deliveries -> 0..MaxBegins]
    /\ wf \in WfStates
    /\ begins \in 0..MaxBegins /\ BeginsCounted

\* The outcome of each node, and the delivery it is at.
OutcomeTypes ==
    /\ outcome \in [Nodes -> Outcomes]
    /\ tries \in [Nodes -> Nat] /\ \A n \in Nodes : tries[n] <= MaxAttempts[n]

\* What the workflow and its deliveries hold.
WorkTypes ==
    /\ OutcomeTypes
    /\ attLeft \in [Deliveries -> 0..(AttemptLease + 1)]
    /\ committed \subseteq Outputs /\ shown \subseteq Outputs /\ wave \subseteq Nodes
    /\ call \in {"none", "calling", "dispatched", "unknown"} /\ signal \in BOOLEAN
    /\ lost \subseteq Deliveries /\ stalled \subseteq Deliveries
    /\ unknowns \in 0..MaxUnknown /\ stalls \in 0..MaxStalls

(* The type invariant is the sum of its parts. *)
LEMMA TypeParts ==
    TypeOK /\ BeginsCounted /\ EvidenceTypes <=> LeaseTypes /\ WorkTypes /\ EvidenceTypes
BY DEF TypeOK, LeaseTypes, OutcomeTypes, WorkTypes, EvidenceTypes

(* A delivery is one of those its node's retry policy allows. *)
LEMMA DeliveryTries ==
    ASSUME NEW d \in Deliveries
    PROVE  d[1] \in Nodes /\ d[2] \in 1..MaxAttempts[d[1]]
<1>1. PICK n \in Nodes : d \in {n} \X (1..MaxAttempts[n])
  BY DEF Deliveries
<1> QED BY <1>1

(* An activity that raised or returned leaves the workflow with an outcome or *)
(* with a further delivery that the policy allows.                            *)
LEMMA RaisesTypes ==
    ASSUME OutcomeTypes, NEW d \in Deliveries, Raises(d)
    PROVE  OutcomeTypes'
BY PipelineConstants, DeliveryTries DEF Raises, Current, OutcomeTypes, Outcomes

LEMMA ReturnsTypes ==
    ASSUME OutcomeTypes, NEW d \in Deliveries, NEW result \in Outcomes, Returns(d, result)
    PROVE  OutcomeTypes'
BY DeliveryTries DEF Returns, OutcomeTypes, Outcomes

(* A lease token is no larger than the number of begins, wherever it was      *)
(* read: the run row's is claimed at most once per delivery of begin.         *)
LEMMA LeaseStep == LeaseTypes /\ Next => LeaseTypes'
<1> SUFFICES ASSUME LeaseTypes, Next PROVE LeaseTypes'
  OBVIOUS
<1> USE PipelineConstants DEF LeaseTypes, BeginsCounted, WfStates, runVars, rowVars,
        wfVars, callVars, procVars, reapVars
<1>1. CASE StartDispatch
  BY <1>1 DEF StartDispatch
<1>2. CASE CallWorkflow
  BY <1>2 DEF CallWorkflow
<1>3. CASE RecordDispatch
  BY <1>3 DEF RecordDispatch
<1>4. CASE RequestCancel
  BY <1>4 DEF RequestCancel, CancelInactiveNodes
<1>5. CASE ReplayCancel
  BY <1>5 DEF ReplayCancel
<1>6. CASE CancelWorkflow
  BY <1>6 DEF CancelWorkflow
<1>7. CASE Begin
  BY <1>7 DEF Begin, ClaimRun
<1>8. CASE ForkWave
  BY <1>8 DEF ForkWave, Ready
<1>9. CASE JoinNodes
  BY <1>9 DEF JoinNodes
<1>10. CASE FinalizeRead
  BY <1>10 DEF FinalizeRead
<1>11. CASE FinalizeWrite
  BY <1>11 DEF FinalizeWrite, TerminalStatus
<1>12. CASE FinalizeCancelled
  BY <1>12 DEF FinalizeCancelled, CloseCancelled
<1>13. CASE FinalizeExhausted
  BY <1>13 DEF FinalizeExhausted
<1>14. CASE RecoverCancellation
  BY <1>14 DEF RecoverCancellation, CloseCancelled
<1>15. CASE ReapScan
  BY <1>15 DEF ReapScan
<1>16. CASE ReapExpire
  <2>1. CASE Expirable
    BY <1>16, <2>1 DEF ReapExpire
  <2>2. CASE ~Expirable
    BY <1>16, <2>2 DEF ReapExpire
  <2> QED BY <2>1, <2>2
<1>17. CASE Tick
  BY <1>17 DEF Tick
<1>18. ASSUME NEW d \in Deliveries, Load(d) PROVE LeaseTypes'
  BY <1>18 DEF Load, Exit, Raises, Returns, Current
<1>19. ASSUME NEW d \in Deliveries, StartAttempt(d) PROVE LeaseTypes'
  BY <1>19 DEF StartAttempt, ClaimNodeAttempt, GoTo
<1>20. ASSUME NEW d \in Deliveries, RefuseAttempt(d) PROVE LeaseTypes'
  BY <1>20 DEF RefuseAttempt, Exit, Raises, Current
<1>21. ASSUME NEW d \in Deliveries, Compute(d) PROVE LeaseTypes'
  BY <1>21 DEF Compute, GoTo
<1>22. ASSUME NEW d \in Deliveries, CommitOutput(d) PROVE LeaseTypes'
  BY <1>22 DEF CommitOutput, GoTo
<1>23. ASSUME NEW d \in Deliveries, Succeed(d) PROVE LeaseTypes'
  BY <1>23 DEF Succeed, CloseAttempt, GoTo, RecordLoss
<1>24. ASSUME NEW d \in Deliveries, Fail(d) PROVE LeaseTypes'
  BY <1>24 DEF Fail, CloseAttempt, GoTo, Exit, Raises, Current
<1>25. ASSUME NEW d \in Deliveries, FailLate(d) PROVE LeaseTypes'
  BY <1>25 DEF FailLate, CloseAttempt, GoTo, RecordLoss
<1>26. ASSUME NEW d \in Deliveries, Return(d) PROVE LeaseTypes'
  BY <1>26 DEF Return, Exit, Raises, Returns, Current
<1>27. ASSUME NEW d \in Deliveries, RenewRunLease(d) PROVE LeaseTypes'
  BY <1>27 DEF RenewRunLease
<1>28. ASSUME NEW d \in Deliveries, HeartbeatAttempt(d) PROVE LeaseTypes'
  BY <1>28 DEF HeartbeatAttempt
<1>29. ASSUME NEW d \in Deliveries, TimeOut(d) PROVE LeaseTypes'
  BY <1>29 DEF TimeOut, Raises, Current
<1>30. ASSUME NEW d \in Deliveries, CancelNode(d) PROVE LeaseTypes'
  BY <1>30 DEF CancelNode, Exit
<1>31. ASSUME NEW d \in Deliveries, Stall(d) PROVE LeaseTypes'
  BY <1>31 DEF Stall
<1>32. ASSUME NEW d \in Deliveries, Resume(d) PROVE LeaseTypes'
  BY <1>32 DEF Resume
<1> QED
  BY <1>1, <1>2, <1>3, <1>4, <1>5, <1>6, <1>7, <1>8, <1>9, <1>10, <1>11, <1>12, <1>13,
     <1>14, <1>15, <1>16, <1>17, <1>18, <1>19, <1>20, <1>21, <1>22, <1>23, <1>24, <1>25,
     <1>26, <1>27, <1>28, <1>29, <1>30, <1>31, <1>32 DEF Next, DispatchStep, WorkflowStep,
     DeliveryStep

(* Outcomes, waves and deliveries stay within the plan and the retry policy.  *)
LEMMA WorkStep == WorkTypes /\ EvidenceTypes /\ Next => WorkTypes'
<1> SUFFICES ASSUME WorkTypes /\ EvidenceTypes, Next PROVE WorkTypes'
  OBVIOUS
<1> USE PipelineConstants, DeliveryTries DEF WorkTypes, EvidenceTypes, runVars, rowVars,
        wfVars, callVars, procVars, reapVars
<1>1. CASE StartDispatch
  BY <1>1 DEF StartDispatch, OutcomeTypes
<1>2. CASE CallWorkflow
  BY <1>2 DEF CallWorkflow, OutcomeTypes
<1>3. CASE RecordDispatch
  BY <1>3 DEF RecordDispatch, OutcomeTypes
<1>4. CASE RequestCancel
  BY <1>4 DEF RequestCancel, CancelInactiveNodes, OutcomeTypes
<1>5. CASE ReplayCancel
  BY <1>5 DEF ReplayCancel, OutcomeTypes
<1>6. CASE CancelWorkflow
  BY <1>6 DEF CancelWorkflow, OutcomeTypes
<1>7. CASE Begin
  BY <1>7 DEF Begin, ClaimRun, OutcomeTypes
<1>8. CASE ForkWave
  BY <1>8 DEF ForkWave, Ready, OutcomeTypes
<1>9. CASE JoinNodes
  BY <1>9 DEF JoinNodes, OutcomeTypes, Outcomes
<1>10. CASE FinalizeRead
  BY <1>10 DEF FinalizeRead, OutcomeTypes
<1>11. CASE FinalizeWrite
  BY <1>11 DEF FinalizeWrite, TerminalStatus, OutcomeTypes
<1>12. CASE FinalizeCancelled
  BY <1>12 DEF FinalizeCancelled, CloseCancelled, OutcomeTypes
<1>13. CASE FinalizeExhausted
  BY <1>13 DEF FinalizeExhausted, OutcomeTypes
<1>14. CASE RecoverCancellation
  BY <1>14 DEF RecoverCancellation, CloseCancelled, OutcomeTypes
<1>15. CASE ReapScan
  BY <1>15 DEF ReapScan, OutcomeTypes
<1>16. CASE ReapExpire
  BY <1>16 DEF ReapExpire, OutcomeTypes
<1>17. CASE Tick
  BY <1>17 DEF Tick, OutcomeTypes
<1>18. ASSUME NEW d \in Deliveries, Load(d) PROVE WorkTypes'
  <2>1. OutcomeTypes'
    BY <1>18, RaisesTypes, ReturnsTypes DEF Load, Outcomes, OutcomeTypes
  <2> QED BY <1>18, <2>1 DEF Load, Exit, Raises
<1>19. ASSUME NEW d \in Deliveries, StartAttempt(d) PROVE WorkTypes'
  BY <1>19 DEF StartAttempt, ClaimNodeAttempt, GoTo, OutcomeTypes
<1>20. ASSUME NEW d \in Deliveries, RefuseAttempt(d) PROVE WorkTypes'
  <2>1. OutcomeTypes'
    BY <1>20, RaisesTypes DEF RefuseAttempt
  <2> QED BY <1>20, <2>1 DEF RefuseAttempt, Exit, Raises
<1>21. ASSUME NEW d \in Deliveries, Compute(d) PROVE WorkTypes'
  BY <1>21 DEF Compute, GoTo, OutcomeTypes
<1>22. ASSUME NEW d \in Deliveries, CommitOutput(d) PROVE WorkTypes'
  BY <1>22 DEF CommitOutput, GoTo, OutcomeTypes
<1>23. ASSUME NEW d \in Deliveries, Succeed(d) PROVE WorkTypes'
  <2>1. lost' \subseteq Deliveries
    BY <1>23 DEF Succeed, RecordLoss
  <2>2. UNCHANGED <<attLeft, committed>> \/ CloseAttempt(d, "SUCCEEDED")
    BY <1>23 DEF Succeed
  <2>3. attLeft' \in [Deliveries -> 0..(AttemptLease + 1)] /\ committed' = committed
    BY <2>2 DEF CloseAttempt
  <2> QED BY <1>23, <2>1, <2>3 DEF Succeed, GoTo, OutcomeTypes
<1>24. ASSUME NEW d \in Deliveries, Fail(d) PROVE WorkTypes'
  <2>1. CASE CanClose(d)
    <3>1. UNCHANGED <<tries, outcome, shown, lost>> /\ CloseAttempt(d, "FAILED")
      BY <1>24, <2>1 DEF Fail
    <3>2. attLeft' \in [Deliveries -> 0..(AttemptLease + 1)] /\ committed' = committed
      BY <3>1 DEF CloseAttempt
    <3> QED BY <1>24, <2>1, <3>1, <3>2 DEF Fail, GoTo, OutcomeTypes
  <2>2. CASE ~CanClose(d)
    <3>1. Exit(d) /\ Raises(d) /\ UNCHANGED rowVars
      BY <1>24, <2>2 DEF Fail
    <3>2. OutcomeTypes'
      BY <3>1, RaisesTypes
    <3> QED BY <1>24, <3>1, <3>2 DEF Fail, Exit, Raises
  <2> QED BY <2>1, <2>2
<1>25. ASSUME NEW d \in Deliveries, FailLate(d) PROVE WorkTypes'
  <2>1. lost' \subseteq Deliveries
    BY <1>25 DEF FailLate, RecordLoss
  <2>2. UNCHANGED <<attLeft, committed>> \/ CloseAttempt(d, "FAILED")
    BY <1>25 DEF FailLate
  <2>3. attLeft' \in [Deliveries -> 0..(AttemptLease + 1)] /\ committed' = committed
    BY <2>2 DEF CloseAttempt
  <2> QED BY <1>25, <2>1, <2>3 DEF FailLate, GoTo, OutcomeTypes
<1>26. ASSUME NEW d \in Deliveries, Return(d) PROVE WorkTypes'
  <2>1. OutcomeTypes'
    BY <1>26, RaisesTypes, ReturnsTypes DEF Return, Outcomes
  <2> QED BY <1>26, <2>1 DEF Return, Exit, Raises
<1>27. ASSUME NEW d \in Deliveries, RenewRunLease(d) PROVE WorkTypes'
  BY <1>27 DEF RenewRunLease, OutcomeTypes
<1>28. ASSUME NEW d \in Deliveries, HeartbeatAttempt(d) PROVE WorkTypes'
  BY <1>28 DEF HeartbeatAttempt, OutcomeTypes
<1>29. ASSUME NEW d \in Deliveries, TimeOut(d) PROVE WorkTypes'
  <2>1. OutcomeTypes'
    BY <1>29, RaisesTypes DEF TimeOut
  <2> QED BY <1>29, <2>1 DEF TimeOut, Raises
<1>30. ASSUME NEW d \in Deliveries, CancelNode(d) PROVE WorkTypes'
  BY <1>30 DEF CancelNode, Exit, OutcomeTypes
<1>31. ASSUME NEW d \in Deliveries, Stall(d) PROVE WorkTypes'
  BY <1>31 DEF Stall, OutcomeTypes
<1>32. ASSUME NEW d \in Deliveries, Resume(d) PROVE WorkTypes'
  BY <1>32 DEF Resume, OutcomeTypes
<1> QED
  BY <1>1, <1>2, <1>3, <1>4, <1>5, <1>6, <1>7, <1>8, <1>9, <1>10, <1>11, <1>12, <1>13,
     <1>14, <1>15, <1>16, <1>17, <1>18, <1>19, <1>20, <1>21, <1>22, <1>23, <1>24, <1>25,
     <1>26, <1>27, <1>28, <1>29, <1>30, <1>31, <1>32 DEF Next, DispatchStep, WorkflowStep,
     DeliveryStep

-----------------------------------------------------------------------------
(* The workflow and the rows *)

\* A node row and an attempt row that are SUCCEEDED stay so.
Settled ==
    /\ \A n \in Nodes : node[n] = "SUCCEEDED" => node'[n] = "SUCCEEDED"
    /\ \A d \in Deliveries : att[d] = "SUCCEEDED" => att'[d] = "SUCCEEDED"

(* claim_node_attempt takes an attempt from a node that is PENDING or RUNNING, *)
(* and only an attempt that is RUNNING is closed, lost or cancelled.            *)
LEMMA SuccessStays == EvidenceInv /\ Next => Settled
<1> SUFFICES ASSUME EvidenceInv, Next PROVE Settled
  OBVIOUS
<1> USE DeliveryNode DEF Settled, EvidenceInv, EvidenceTypes, runVars, rowVars, wfVars,
        callVars, procVars, reapVars
<1>1. CASE StartDispatch
  BY <1>1 DEF StartDispatch
<1>2. CASE CallWorkflow
  BY <1>2 DEF CallWorkflow
<1>3. CASE RecordDispatch
  BY <1>3 DEF RecordDispatch
<1>4. CASE RequestCancel
  BY <1>4 DEF RequestCancel, CancelInactiveNodes
<1>5. CASE ReplayCancel
  BY <1>5 DEF ReplayCancel
<1>6. CASE CancelWorkflow
  BY <1>6 DEF CancelWorkflow
<1>7. CASE Begin
  BY <1>7 DEF Begin
<1>8. CASE ForkWave
  BY <1>8 DEF ForkWave
<1>9. CASE JoinNodes
  BY <1>9 DEF JoinNodes
<1>10. CASE FinalizeRead
  BY <1>10 DEF FinalizeRead
<1>11. CASE FinalizeWrite
  BY <1>11 DEF FinalizeWrite
<1>12. CASE FinalizeCancelled
  BY <1>12 DEF FinalizeCancelled
<1>13. CASE FinalizeExhausted
  BY <1>13 DEF FinalizeExhausted
<1>14. CASE RecoverCancellation
  BY <1>14 DEF RecoverCancellation
<1>15. CASE ReapScan
  BY <1>15 DEF ReapScan
<1>16. CASE ReapExpire
  BY <1>16 DEF ReapExpire
<1>17. CASE Tick
  BY <1>17 DEF Tick
<1>18. ASSUME NEW d \in Deliveries, Load(d) PROVE Settled
  BY <1>18 DEF Load
<1>19. ASSUME NEW d \in Deliveries, StartAttempt(d) PROVE Settled
  <2>1. att[d] = "none" /\ node[d[1]] \in {"PENDING", "RUNNING"}
    BY <1>19 DEF StartAttempt, Claimable, AttemptsNumbered
  <2> QED BY <1>19, <2>1 DEF StartAttempt, ClaimNodeAttempt
<1>20. ASSUME NEW d \in Deliveries, RefuseAttempt(d) PROVE Settled
  BY <1>20 DEF RefuseAttempt
<1>21. ASSUME NEW d \in Deliveries, Compute(d) PROVE Settled
  BY <1>21 DEF Compute
<1>22. ASSUME NEW d \in Deliveries, CommitOutput(d) PROVE Settled
  BY <1>22 DEF CommitOutput
<1>23. ASSUME NEW d \in Deliveries, Succeed(d) PROVE Settled
  <2>1. CASE CanClose(d)
    <3>1. CloseAttempt(d, "SUCCEEDED") /\ att[d] = "RUNNING"
      BY <1>23, <2>1 DEF Succeed, CanClose, HoldsAttempt
    <3> QED BY <3>1 DEF CloseAttempt, UpdateNodeAfterAttempt
  <2>2. CASE ~CanClose(d)
    BY <1>23, <2>2 DEF Succeed
  <2> QED BY <2>1, <2>2
<1>24. ASSUME NEW d \in Deliveries, Fail(d) PROVE Settled
  <2>1. CASE CanClose(d)
    <3>1. CloseAttempt(d, "FAILED") /\ att[d] = "RUNNING"
      BY <1>24, <2>1 DEF Fail, CanClose, HoldsAttempt
    <3> QED BY <3>1 DEF CloseAttempt, UpdateNodeAfterAttempt
  <2>2. CASE ~CanClose(d)
    BY <1>24, <2>2 DEF Fail
  <2> QED BY <2>1, <2>2
<1>25. ASSUME NEW d \in Deliveries, FailLate(d) PROVE Settled
  <2>1. CASE CanClose(d)
    <3>1. CloseAttempt(d, "FAILED") /\ att[d] = "RUNNING"
      BY <1>25, <2>1 DEF FailLate, CanClose, HoldsAttempt
    <3> QED BY <3>1 DEF CloseAttempt, UpdateNodeAfterAttempt
  <2>2. CASE ~CanClose(d)
    BY <1>25, <2>2 DEF FailLate
  <2> QED BY <2>1, <2>2
<1>26. ASSUME NEW d \in Deliveries, Return(d) PROVE Settled
  BY <1>26 DEF Return
<1>27. ASSUME NEW d \in Deliveries, RenewRunLease(d) PROVE Settled
  BY <1>27 DEF RenewRunLease
<1>28. ASSUME NEW d \in Deliveries, HeartbeatAttempt(d) PROVE Settled
  BY <1>28 DEF HeartbeatAttempt
<1>29. ASSUME NEW d \in Deliveries, TimeOut(d) PROVE Settled
  BY <1>29 DEF TimeOut
<1>30. ASSUME NEW d \in Deliveries, CancelNode(d) PROVE Settled
  BY <1>30 DEF CancelNode, IsCancelOwner
<1>31. ASSUME NEW d \in Deliveries, Stall(d) PROVE Settled
  BY <1>31 DEF Stall
<1>32. ASSUME NEW d \in Deliveries, Resume(d) PROVE Settled
  BY <1>32 DEF Resume
<1> QED
  BY <1>1, <1>2, <1>3, <1>4, <1>5, <1>6, <1>7, <1>8, <1>9, <1>10, <1>11, <1>12, <1>13,
     <1>14, <1>15, <1>16, <1>17, <1>18, <1>19, <1>20, <1>21, <1>22, <1>23, <1>24, <1>25,
     <1>26, <1>27, <1>28, <1>29, <1>30, <1>31, <1>32 DEF Next, DispatchStep, WorkflowStep,
     DeliveryStep

\* What a step does to the outcomes, the wave and the deliveries.
Backed ==
    /\ \A n \in Nodes : outcome[n] = "succeeded" => outcome'[n] = "succeeded"
    /\ \A n \in Nodes : outcome'[n] = "succeeded" =>
           outcome[n] = "succeeded" \/ \E d \in Deliveries : d[1] = n /\ pc[d] = "good"
    /\ \A n \in wave' : n \in wave \/ n \in Ready
    /\ \A d \in Deliveries : pc'[d] # "idle" => pc[d] # "idle" \/ d[1] \in wave
    /\ \A d \in Deliveries : pc'[d] = "good" => pc[d] = "good" \/ att'[d] = "SUCCEEDED"

\* The outcomes after an activity that raised: none of them succeeded by it.
NoSuccess ==
    \A n \in Nodes : outcome[n] = "succeeded" <=> outcome'[n] = "succeeded"

(* An activity that raises does not make a node succeed. *)
LEMMA RaisesNoSuccess ==
    ASSUME OutcomeTypes, NEW d \in Deliveries, Raises(d)
    PROVE  NoSuccess
BY DeliveryNode DEF Raises, Current, OutcomeTypes, NoSuccess

(* A node succeeds by a good delivery, is forked when it is ready, and gets   *)
(* deliveries while it is in the wave.                                        *)
LEMMA StepsAreBacked == OutcomeTypes /\ EvidenceTypes /\ Next => Backed
<1> SUFFICES ASSUME OutcomeTypes /\ EvidenceTypes, Next PROVE Backed
  OBVIOUS
<1> USE DeliveryNode DEF Backed, OutcomeTypes, EvidenceTypes, runVars, rowVars, wfVars,
        callVars, procVars, reapVars
<1>1. CASE StartDispatch
  BY <1>1 DEF StartDispatch
<1>2. CASE CallWorkflow
  BY <1>2 DEF CallWorkflow
<1>3. CASE RecordDispatch
  BY <1>3 DEF RecordDispatch
<1>4. CASE RequestCancel
  BY <1>4 DEF RequestCancel
<1>5. CASE ReplayCancel
  BY <1>5 DEF ReplayCancel
<1>6. CASE CancelWorkflow
  BY <1>6 DEF CancelWorkflow
<1>7. CASE Begin
  BY <1>7 DEF Begin
<1>8. CASE ForkWave
  BY <1>8 DEF ForkWave
<1>9. CASE JoinNodes
  BY <1>9 DEF JoinNodes
<1>10. CASE FinalizeRead
  BY <1>10 DEF FinalizeRead
<1>11. CASE FinalizeWrite
  BY <1>11 DEF FinalizeWrite
<1>12. CASE FinalizeCancelled
  BY <1>12 DEF FinalizeCancelled
<1>13. CASE FinalizeExhausted
  BY <1>13 DEF FinalizeExhausted
<1>14. CASE RecoverCancellation
  BY <1>14 DEF RecoverCancellation
<1>15. CASE ReapScan
  BY <1>15 DEF ReapScan
<1>16. CASE ReapExpire
  BY <1>16 DEF ReapExpire
<1>17. CASE Tick
  BY <1>17 DEF Tick
<1>18. ASSUME NEW d \in Deliveries, Load(d) PROVE Backed
  <2>1. d[1] \in wave
    BY <1>18 DEF Load, Current
  <2>2. NoSuccess
    BY <1>18, RaisesNoSuccess DEF Load, Returns, NoSuccess, Current
  <2>3. \A e \in Deliveries : e # d => pc'[e] = pc[e]
    BY <1>18 DEF Load, Exit
  <2>4. pc'[d] # "good"
    BY <1>18 DEF Load, Exit
  <2> QED BY <1>18, <2>1, <2>2, <2>3, <2>4 DEF Load, NoSuccess
<1>19. ASSUME NEW d \in Deliveries, StartAttempt(d) PROVE Backed
  BY <1>19 DEF StartAttempt, GoTo
<1>20. ASSUME NEW d \in Deliveries, RefuseAttempt(d) PROVE Backed
  <2>1. NoSuccess
    BY <1>20, RaisesNoSuccess DEF RefuseAttempt
  <2> QED BY <1>20, <2>1 DEF RefuseAttempt, Exit, NoSuccess
<1>21. ASSUME NEW d \in Deliveries, Compute(d) PROVE Backed
  BY <1>21 DEF Compute, GoTo
<1>22. ASSUME NEW d \in Deliveries, CommitOutput(d) PROVE Backed
  BY <1>22 DEF CommitOutput, GoTo
<1>23. ASSUME NEW d \in Deliveries, Succeed(d) PROVE Backed
  <2>1. CASE CanClose(d)
    <3>1. att'[d] = "SUCCEEDED" /\ pc' = [pc EXCEPT ![d] = "good"]
      BY <1>23, <2>1 DEF Succeed, CloseAttempt, GoTo
    <3> QED BY <1>23, <3>1 DEF Succeed
  <2>2. CASE ~CanClose(d)
    BY <1>23, <2>2 DEF Succeed, GoTo
  <2> QED BY <2>1, <2>2
<1>24. ASSUME NEW d \in Deliveries, Fail(d) PROVE Backed
  <2>1. NoSuccess
    BY <1>24, RaisesNoSuccess DEF Fail, NoSuccess
  <2>2. pc' = [pc EXCEPT ![d] = "bad"] \/ pc' = [pc EXCEPT ![d] = "gone"]
    BY <1>24 DEF Fail, GoTo, Exit
  <2> QED BY <1>24, <2>1, <2>2 DEF Fail, NoSuccess
<1>25. ASSUME NEW d \in Deliveries, FailLate(d) PROVE Backed
  BY <1>25 DEF FailLate, GoTo
<1>26. ASSUME NEW d \in Deliveries, Return(d) PROVE Backed
  <2>1. pc' = [pc EXCEPT ![d] = "gone"] /\ UNCHANGED wave /\ pc[d] # "idle"
    BY <1>26 DEF Return, Exit
  <2>2. CASE Raises(d)
    BY <1>26, <2>1, <2>2, RaisesNoSuccess DEF Return, NoSuccess
  <2>3. CASE Returns(d, IF pc[d] = "good" THEN "succeeded" ELSE "failed")
    <3>1. outcome' = outcome \/
            outcome' = [outcome EXCEPT ![d[1]] = IF pc[d] = "good" THEN "succeeded" ELSE "failed"]
      BY <2>3 DEF Returns
    <3>2. outcome[d[1]] = "succeeded" => outcome' = outcome
      BY <2>3 DEF Returns, Current
    <3> QED BY <2>1, <3>1, <3>2 DEF OutcomeTypes
  <2> QED BY <1>26, <2>2, <2>3 DEF Return
<1>27. ASSUME NEW d \in Deliveries, RenewRunLease(d) PROVE Backed
  BY <1>27 DEF RenewRunLease
<1>28. ASSUME NEW d \in Deliveries, HeartbeatAttempt(d) PROVE Backed
  BY <1>28 DEF HeartbeatAttempt
<1>29. ASSUME NEW d \in Deliveries, TimeOut(d) PROVE Backed
  <2>1. NoSuccess
    BY <1>29, RaisesNoSuccess DEF TimeOut
  <2> QED BY <1>29, <2>1 DEF TimeOut, NoSuccess
<1>30. ASSUME NEW d \in Deliveries, CancelNode(d) PROVE Backed
  BY <1>30 DEF CancelNode, Exit, Live, Claimed
<1>31. ASSUME NEW d \in Deliveries, Stall(d) PROVE Backed
  BY <1>31 DEF Stall
<1>32. ASSUME NEW d \in Deliveries, Resume(d) PROVE Backed
  BY <1>32 DEF Resume
<1> QED
  BY <1>1, <1>2, <1>3, <1>4, <1>5, <1>6, <1>7, <1>8, <1>9, <1>10, <1>11, <1>12, <1>13,
     <1>14, <1>15, <1>16, <1>17, <1>18, <1>19, <1>20, <1>21, <1>22, <1>23, <1>24, <1>25,
     <1>26, <1>27, <1>28, <1>29, <1>30, <1>31, <1>32 DEF Next, DispatchStep, WorkflowStep,
     DeliveryStep

(* The outcomes that gate a node are backed by the rows: what _ready_nodes     *)
(* reads is what claim_node_attempt and complete_attempt wrote.                *)
LEMMA OutcomesStayBacked ==
    ASSUME EvidenceInv, OutcomesBacked, Settled, Backed, wave \subseteq Nodes
    PROVE  OutcomesBacked'
<1> USE DEF OutcomesBacked, Settled, Backed
<1>1. \A d \in Deliveries : pc'[d] = "good" => att'[d] = "SUCCEEDED"
  OBVIOUS
<1>2. \A d \in Deliveries : pc[d] = "good" => node[d[1]] = "SUCCEEDED"
  <2> SUFFICES ASSUME NEW d \in Deliveries, pc[d] = "good" PROVE node[d[1]] = "SUCCEEDED"
    OBVIOUS
  <2>1. att[d] = "SUCCEEDED" /\ d[1] \in Nodes
    BY DeliveryNode
  <2>2. attNo[d] <= count[d[1]] /\ attNo[d] \in Nat /\ count[d[1]] \in Nat
    BY <2>1 DEF EvidenceInv, EvidenceTypes, AttemptsNumbered
  <2>3. attNo[d] = count[d[1]]
    BY <2>1, <2>2 DEF EvidenceInv, EvidenceAgrees
  <2> QED BY <2>1, <2>3 DEF EvidenceInv, EvidenceAgrees
<1>3. \A n \in Nodes : outcome'[n] = "succeeded" => node'[n] = "SUCCEEDED"
  BY <1>2
<1>4. \A n \in wave' : \A u \in Upstream[n] : outcome'[u] = "succeeded"
  <2> SUFFICES ASSUME NEW n \in wave', NEW u \in Upstream[n]
               PROVE  outcome'[u] = "succeeded"
    OBVIOUS
  <2>1. outcome[u] = "succeeded" /\ n \in Nodes
    BY DEF Ready, EvidenceInv
  <2> QED BY <2>1, PipelineConstants
<1>5. \A d \in Deliveries :
        pc'[d] # "idle" => \A u \in Upstream[d[1]] : outcome'[u] = "succeeded"
  <2> SUFFICES ASSUME NEW d \in Deliveries, pc'[d] # "idle", NEW u \in Upstream[d[1]]
               PROVE  outcome'[u] = "succeeded"
    OBVIOUS
  <2>1. outcome[u] = "succeeded"
    OBVIOUS
  <2> QED BY <2>1, PipelineConstants, DeliveryNode
<1> QED BY <1>1, <1>3, <1>4, <1>5

(* The run's inductive invariant: types and bounds, the evidence of the node   *)
(* and attempt rows, and the outcomes the workflow schedules by.               *)
THEOREM RunStaysConsistent == Spec => []RunInv
<1>1. Init => RunInv
  <2> SUFFICES ASSUME Init PROVE RunInv
    OBVIOUS
  <2>1. EvidenceInv
    BY InitEvidence
  <2>2. TypeOK
    <3>1. EvidenceTypes /\ OutcomeTypes
      BY <2>1, PipelineConstants DEF Init, EvidenceInv, OutcomeTypes, Outcomes
    <3>2. LeaseTypes
      <4>1. 0 \in 0..MaxBegins /\ 0 \in 0..RunLease
        BY PipelineConstants
      <4>2. held \in [Deliveries -> 0..MaxBegins]
        BY <4>1 DEF Init
      <4>3. BeginsCounted
        BY DEF Init, BeginsCounted
      <4> QED BY <4>1, <4>2, <4>3 DEF Init, LeaseTypes, WfStates
    <3>3. WorkTypes
      <4>1. 0 \in 0..(AttemptLease + 1) /\ 0 \in 0..MaxUnknown /\ 0 \in 0..MaxStalls
        BY PipelineConstants
      <4>2. attLeft \in [Deliveries -> 0..(AttemptLease + 1)]
        BY <4>1 DEF Init
      <4> QED BY <3>1, <4>1, <4>2 DEF Init, WorkTypes
    <3> QED BY <3>1, <3>2, <3>3, TypeParts
  <2>3. BeginsCounted /\ OutcomesBacked
    BY DEF Init, BeginsCounted, OutcomesBacked
  <2> QED BY <2>1, <2>2, <2>3 DEF RunInv
<1>2. RunInv /\ [Next]_vars => RunInv'
  <2>1. ASSUME RunInv, Next PROVE RunInv'
    <3>1. LeaseTypes /\ WorkTypes /\ EvidenceTypes /\ EvidenceInv /\ OutcomesBacked
      BY <2>1, TypeParts DEF RunInv, EvidenceInv
    <3>2. EvidenceInv' /\ EvidenceTypes'
      BY <2>1, <3>1, EvidenceStep DEF EvidenceInv
    <3>3. LeaseTypes' /\ WorkTypes'
      BY <2>1, <3>1, LeaseStep, WorkStep
    <3>4. OutcomesBacked'
      BY <2>1, <3>1, SuccessStays, StepsAreBacked, OutcomesStayBacked DEF WorkTypes
    <3>5. (TypeOK /\ BeginsCounted)'
      BY <3>2, <3>3 DEF TypeOK, LeaseTypes, OutcomeTypes, WorkTypes, EvidenceTypes
    <3> QED BY <3>2, <3>4, <3>5 DEF RunInv
  <2>2. ASSUME RunInv, UNCHANGED vars PROVE RunInv'
    BY <2>2
       DEF RunInv, TypeOK, BeginsCounted, EvidenceInv, EvidenceTypes, AttemptsNumbered,
           OpenAttempts, EvidenceAgrees, NoNodeRunsOn, OutcomesBacked, vars,
           runVars, rowVars, wfVars, callVars, procVars, reapVars
  <2> QED BY <2>1, <2>2
<1> QED BY <1>1, <1>2, PTL DEF Spec

(* Every value is one the code writes, and no begin, delivery or lease exceeds *)
(* what the plan, the retry policy and the lease durations allow.              *)
THEOREM RunTypes == Spec => []TypeOK
<1>1. RunInv => TypeOK
  BY DEF RunInv
<1> QED BY <1>1, RunStaysConsistent, PTL

(* A node has an attempt only when all of its upstream nodes are SUCCEEDED:    *)
(* its deliveries come from a wave, the wave from the outcomes, and the        *)
(* outcomes from closed attempts.                                              *)
THEOREM UpstreamBeforeDownstream == Spec => []DownstreamAfterUpstream
<1>1. RunInv => DownstreamAfterUpstream
  BY PipelineConstants, DeliveryNode
     DEF RunInv, EvidenceInv, EvidenceTypes, AttemptsNumbered, OutcomesBacked,
         DownstreamAfterUpstream
<1> QED BY <1>1, RunStaysConsistent, PTL
=============================================================================
