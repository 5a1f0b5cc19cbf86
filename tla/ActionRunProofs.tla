-------------------------- MODULE ActionRunProofs --------------------------
(***************************************************************************)
(* Theorems about ActionRun: for any number of workers, callers, attempts, *)
(* deliveries and mishaps, the edits of a run are applied once and only    *)
(* behind its effect, and the provider of the effect is called once.       *)
(***************************************************************************)
EXTENDS ActionRun, TLAPS

-----------------------------------------------------------------------------
(* The parts of TypeOK, which different actions touch *)

\* The run and the callers.
RunTypes ==
    /\ status \in RunStatuses /\ step \in StepStatuses
    /\ dispatch \in {"pending", "unknown", "dispatched"} /\ edits \in Nat
    /\ subprocess \in BOOLEAN /\ before \in BOOLEAN
    /\ cpc \in [Callers -> {"idle", "call", "record"}]
    /\ reply \in [Callers -> {"none", "dispatched", "unknown"}]
    /\ \A c \in Callers : cpc[c] = "record" => reply[c] # "none"

\* The latest attempt.
AttTypes == att \in Attempts /\ signal \in BOOLEAN

\* The receipt of the effect.
EffectTypes == receipt \in Receipts /\ sent \in Nat /\ landed \in Nat

\* Temporal.
FlowTypes ==
    /\ workflow \in {"none", "open", "closed"} /\ flight \in Workers \cup {NoWorker}
    /\ deliveries \in Nat /\ mishaps \in 0..MaxMishaps

\* What a worker holds.
WorkerTypes ==
    /\ pc \in [Workers -> PCs] /\ seen \in [Workers -> RunStatuses]
    /\ mine \in [Workers -> Nat] /\ fence \in [Workers -> Nat]
    /\ rseen \in [Workers -> Receipts]
    /\ kind \in [Workers -> Failures \cup Outcomes \cup {"none"}]

\* How a step may change the run's status.
StatusStep ==
    \/ status' = status
    \/ status \in {"none", "queued", "running"}
    \/ status = "cancelling" /\ status' \in {"cancelled", "failed"}

\* How a step may change the edits and the contract.
EditStep == (edits' = edits \/ \E w \in Workers : Commit(w)) /\ before' = before

\* How a step may change a closed receipt.
ReceiptStep == receipt.status = "succeeded" => receipt'.status = "succeeded"

\* TypeOK, part by part.
LEMMA TypesAreParts == TypeOK <=> RunTypes /\ AttTypes /\ EffectTypes /\ FlowTypes /\ WorkerTypes
BY DEF TypeOK, RunTypes, AttTypes, EffectTypes, FlowTypes, WorkerTypes

\* A worker that read no receipt holds a well-formed one.
LEMMA NothingTyped == NoReceipt \in Receipts
BY DEF NoReceipt, Receipts, ReceiptStatuses

\* Taking over a step for cancellation makes a well-formed attempt (CancelRun).
LEMMA CancelRunTyped == ASSUME AttTypes, CancelRun PROVE att' \in Attempts
<1>1. [n |-> att.n + 1, status |-> "cancelled", live |-> FALSE, due |-> TRUE] \in Attempts
  BY DEF AttTypes, Attempts
<1> QED
  BY <1>1, Zenon DEF AttTypes, CancelRun

\* A worker that forgets holds nothing odd (Forget).
LEMMA ForgetTyped == ASSUME WorkerTypes, NEW w \in Workers, Forget(w) PROVE WorkerTypes'
BY NothingTyped DEF WorkerTypes, Forget, PCs, RunStatuses

\* A worker that forgets, with the effect untouched, leaves the call fenced.
LEMMA ForgetFenced ==
  ASSUME TypeOK, CallIsFenced, NEW w \in Workers, Forget(w), UNCHANGED effectVars PROVE CallIsFenced'
BY DEF TypeOK, CallIsFenced, Forget, effectVars, NoReceipt

\* So does one whose execution fails (Raise).
LEMMA RaiseFenced ==
  ASSUME TypeOK, CallIsFenced, NEW w \in Workers, NEW k \in Failures, Raise(w, k),
         UNCHANGED <<effectVars, rseen>>
  PROVE  CallIsFenced'
BY DEF TypeOK, CallIsFenced, Raise, Goto, effectVars

\* A worker that ends its attempt, and forgets it, leaves the others as they
\* were (EndAttempt).
LEMMA EndKeepsOwners ==
  ASSUME TypeOK, AttemptsAreOwned, NEW w \in Workers, Forget(w),
         att'.n = att.n, att'.status # "running", step' # "running", status' # "none",
         att.status = "running", mine[w] = att.n
  PROVE  AttemptsAreOwned'
<1>1. \A v \in Workers \ {w} : pc[v] # "persist"
  BY DEF AttemptsAreOwned
<1>2. \A v \in Workers : mine'[v] = (IF v = w THEN 0 ELSE mine[v])
  BY DEF TypeOK, Forget
<1>3. \A v \in Workers : pc'[v] # "persist"
  BY <1>1 DEF TypeOK, Forget
<1>4. \A v \in Workers : mine'[v] <= att'.n
  BY <1>2 DEF TypeOK, Attempts, AttemptsAreOwned
<1>5. \A u, v \in Workers : mine'[u] = mine'[v] /\ mine'[u] # 0 => u = v
  BY <1>2 DEF AttemptsAreOwned
<1> QED
  BY <1>3, <1>4, <1>5 DEF AttemptsAreOwned


\* A run that was not started.
LEMMA InitHolds == Init => ActionInv /\ CommittedOnce
<1> SUFFICES ASSUME Init PROVE ActionInv /\ CommittedOnce
  OBVIOUS
<1> USE ActionConstants DEF Init, NoAttempt, NoReceipt
<1>1. TypeOK
  <2>1. NoReceipt \in Receipts /\ NoAttempt \in Attempts
    BY DEF Receipts, Attempts, ReceiptStatuses
  <2>2. subprocess \in BOOLEAN /\ before \in BOOLEAN
    <3>1. PICK s \in Settings : subprocess = s[1] /\ before = s[2]
      OBVIOUS
    <3>2. s \in BOOLEAN \X BOOLEAN
      OBVIOUS
    <3> QED
      BY <3>1, <3>2
  <2>3. rseen \in [Workers -> Receipts]
    BY <2>1
  <2>4. pc \in [Workers -> PCs] /\ seen \in [Workers -> RunStatuses]
    BY DEF PCs, RunStatuses
  <2>5. kind \in [Workers -> Failures \cup Outcomes \cup {"none"}]
    OBVIOUS
  <2>6. RunTypes /\ FlowTypes
    BY <2>2 DEF RunTypes, FlowTypes, RunStatuses, StepStatuses
  <2>7. AttTypes /\ EffectTypes /\ WorkerTypes
    BY <2>1, <2>3, <2>4, <2>5 DEF AttTypes, EffectTypes, WorkerTypes
  <2> QED
    BY <2>6, <2>7, TypesAreParts
<1>2. StepFollowsRun /\ AttemptsAreOwned /\ CallIsFenced /\ PlanBehindEffect /\ CommittedOnce
  BY DEF StepFollowsRun, AttemptsAreOwned, CallIsFenced, PlanBehindEffect, CommittedOnce, Terminal
<1> QED
  BY <1>1, <1>2 DEF ActionInv

-----------------------------------------------------------------------------
(* Types *)

\* The run's row and the callers stay within their types; a caller that records
\* has an answer (_dispatch).
LEMMA RunTypesKept == RunTypes /\ Next => RunTypes'
<1> SUFFICES ASSUME RunTypes, Next PROVE RunTypes'
  OBVIOUS
<1> USE ActionConstants DEF RunTypes, RunStatuses, StepStatuses, Terminal, runVars, callVars,
        boundVars, setting
<1>1. CASE CreateRun
  BY <1>1 DEF CreateRun
<1>2. CASE RequestCancel
  BY <1>2 DEF RequestCancel, StepOnCancel
<1>3. CASE CancelArrives
  BY <1>3 DEF CancelArrives
<1>4. CASE CancelIsLost
  BY <1>4 DEF CancelIsLost
<1>5. CASE RecoverCancellation
  BY <1>5 DEF RecoverCancellation, CancelRun
<1>6. CASE LeaseExpires
  BY <1>6 DEF LeaseExpires
<1>7. CASE RetryDue
  BY <1>7 DEF RetryDue
<1>8. CASE ReceiptLeaseExpires
  BY <1>8 DEF ReceiptLeaseExpires
<1>9. CASE DeliveryTimesOut
  BY <1>9 DEF DeliveryTimesOut
<1>10. ASSUME NEW c \in Callers, DispatchRead(c) PROVE RunTypes'
  BY <1>10 DEF DispatchRead
<1>11. ASSUME NEW c \in Callers, DispatchCall(c) PROVE RunTypes'
  BY <1>11 DEF DispatchCall
<1>12. ASSUME NEW c \in Callers, DispatchRecord(c) PROVE RunTypes'
  <2>1. reply[c] \in {"dispatched", "unknown"}
    BY <1>12 DEF DispatchRecord
  <2> QED
    BY <1>12, <2>1 DEF DispatchRecord
<1>13. ASSUME NEW c \in Callers, DispatchDies(c) PROVE RunTypes'
  BY <1>13 DEF DispatchDies
<1>14. ASSUME NEW w \in Workers, Deliver(w) PROVE RunTypes'
  BY <1>14 DEF Deliver
<1>15. ASSUME NEW w \in Workers, WorkerDies(w) PROVE RunTypes'
  BY <1>15 DEF WorkerDies
<1>16. ASSUME NEW w \in Workers, Load(w) PROVE RunTypes'
  BY <1>16 DEF Load
<1>17. ASSUME NEW w \in Workers, Claim(w) PROVE RunTypes'
  BY <1>17 DEF Claim, RunOnClaim
<1>18. ASSUME NEW w \in Workers, NotClaimed(w) PROVE RunTypes'
  BY <1>18 DEF NotClaimed
<1>19. ASSUME NEW w \in Workers, ResolveUnclaimed(w) PROVE RunTypes'
  BY <1>19 DEF ResolveUnclaimed
<1>20. ASSUME NEW w \in Workers, PrepareBefore(w) PROVE RunTypes'
  BY <1>20 DEF PrepareBefore
<1>21. ASSUME NEW w \in Workers, ResumeBefore(w) PROVE RunTypes'
  BY <1>21 DEF ResumeBefore
<1>22. ASSUME NEW w \in Workers, DispatchBefore(w) PROVE RunTypes'
  BY <1>22 DEF DispatchBefore
<1>23. ASSUME NEW w \in Workers, ProviderAnswers(w) PROVE RunTypes'
  BY <1>23 DEF ProviderAnswers
<1>24. ASSUME NEW w \in Workers, CloseBefore(w) PROVE RunTypes'
  BY <1>24 DEF CloseBefore
<1>25. ASSUME NEW w \in Workers, ExecutePlan(w) PROVE RunTypes'
  BY <1>25 DEF ExecutePlan
<1>26. ASSUME NEW w \in Workers, LeaseLost(w) PROVE RunTypes'
  BY <1>26 DEF LeaseLost
<1>27. ASSUME NEW w \in Workers, CommitCancels(w) PROVE RunTypes'
  BY <1>27 DEF CommitCancels, CancelClaimed
<1>28. ASSUME NEW w \in Workers, Commit(w) PROVE RunTypes'
  BY <1>28 DEF Commit
<1>29. ASSUME NEW w \in Workers, CommitFails(w) PROVE RunTypes'
  BY <1>29 DEF CommitFails
<1>30. ASSUME NEW w \in Workers, FailureRead(w) PROVE RunTypes'
  BY <1>30 DEF FailureRead
<1>31. ASSUME NEW w \in Workers, PersistFailure(w) PROVE RunTypes'
  BY <1>31 DEF PersistFailure, Verdict
<1>32. ASSUME NEW w \in Workers, FailureCancels(w) PROVE RunTypes'
  BY <1>32 DEF FailureCancels
<1>33. ASSUME NEW w \in Workers, FinalizeCancellation(w) PROVE RunTypes'
  BY <1>33 DEF FinalizeCancellation, CancelRun
<1>34. ASSUME NEW w \in Workers, LockCycle(w) PROVE RunTypes'
  BY <1>34 DEF LockCycle
<1> QED
  BY <1>1, <1>2, <1>3, <1>4, <1>5, <1>6, <1>7, <1>8, <1>9, <1>10, <1>11, <1>12, <1>13, <1>14,
     <1>15, <1>16, <1>17, <1>18, <1>19, <1>20, <1>21, <1>22, <1>23, <1>24, <1>25, <1>26, <1>27,
     <1>28, <1>29, <1>30, <1>31, <1>32, <1>33, <1>34 DEF Next, Drive

\* The latest attempt keeps its shape (claim_step, EndAttempt).
LEMMA AttTypesKept == AttTypes /\ Next => AttTypes'
<1> SUFFICES ASSUME AttTypes, Next PROVE AttTypes'
  OBVIOUS
<1> USE ActionConstants DEF AttTypes, Attempts, runVars
<1>1. CASE CreateRun
  BY <1>1 DEF CreateRun
<1>2. CASE RequestCancel
  BY <1>2 DEF RequestCancel
<1>3. CASE CancelArrives
  BY <1>3 DEF CancelArrives
<1>4. CASE CancelIsLost
  BY <1>4 DEF CancelIsLost
<1>5. CASE RecoverCancellation
  BY <1>5, CancelRunTyped DEF RecoverCancellation
<1>6. CASE LeaseExpires
  BY <1>6 DEF LeaseExpires
<1>7. CASE RetryDue
  BY <1>7 DEF RetryDue
<1>8. CASE ReceiptLeaseExpires
  BY <1>8 DEF ReceiptLeaseExpires
<1>9. CASE DeliveryTimesOut
  BY <1>9 DEF DeliveryTimesOut
<1>10. ASSUME NEW c \in Callers, DispatchRead(c) PROVE AttTypes'
  BY <1>10 DEF DispatchRead
<1>11. ASSUME NEW c \in Callers, DispatchCall(c) PROVE AttTypes'
  BY <1>11 DEF DispatchCall
<1>12. ASSUME NEW c \in Callers, DispatchRecord(c) PROVE AttTypes'
  BY <1>12 DEF DispatchRecord
<1>13. ASSUME NEW c \in Callers, DispatchDies(c) PROVE AttTypes'
  BY <1>13 DEF DispatchDies
<1>14. ASSUME NEW w \in Workers, Deliver(w) PROVE AttTypes'
  BY <1>14 DEF Deliver
<1>15. ASSUME NEW w \in Workers, WorkerDies(w) PROVE AttTypes'
  BY <1>15 DEF WorkerDies
<1>16. ASSUME NEW w \in Workers, Load(w) PROVE AttTypes'
  BY <1>16 DEF Load
<1>17. ASSUME NEW w \in Workers, Claim(w) PROVE AttTypes'
  BY <1>17 DEF Claim
<1>18. ASSUME NEW w \in Workers, NotClaimed(w) PROVE AttTypes'
  BY <1>18 DEF NotClaimed
<1>19. ASSUME NEW w \in Workers, ResolveUnclaimed(w) PROVE AttTypes'
  BY <1>19 DEF ResolveUnclaimed
<1>20. ASSUME NEW w \in Workers, PrepareBefore(w) PROVE AttTypes'
  BY <1>20 DEF PrepareBefore
<1>21. ASSUME NEW w \in Workers, ResumeBefore(w) PROVE AttTypes'
  BY <1>21 DEF ResumeBefore
<1>22. ASSUME NEW w \in Workers, DispatchBefore(w) PROVE AttTypes'
  BY <1>22 DEF DispatchBefore
<1>23. ASSUME NEW w \in Workers, ProviderAnswers(w) PROVE AttTypes'
  BY <1>23 DEF ProviderAnswers
<1>24. ASSUME NEW w \in Workers, CloseBefore(w) PROVE AttTypes'
  BY <1>24 DEF CloseBefore
<1>25. ASSUME NEW w \in Workers, ExecutePlan(w) PROVE AttTypes'
  BY <1>25 DEF ExecutePlan
<1>26. ASSUME NEW w \in Workers, LeaseLost(w) PROVE AttTypes'
  BY <1>26 DEF LeaseLost
<1>27. ASSUME NEW w \in Workers, CommitCancels(w) PROVE AttTypes'
  BY <1>27 DEF CommitCancels, CancelClaimed, EndAttempt
<1>28. ASSUME NEW w \in Workers, Commit(w) PROVE AttTypes'
  BY <1>28 DEF Commit, EndAttempt
<1>29. ASSUME NEW w \in Workers, CommitFails(w) PROVE AttTypes'
  BY <1>29 DEF CommitFails
<1>30. ASSUME NEW w \in Workers, FailureRead(w) PROVE AttTypes'
  BY <1>30 DEF FailureRead
<1>31. ASSUME NEW w \in Workers, PersistFailure(w) PROVE AttTypes'
  BY <1>31 DEF PersistFailure, EndAttempt
<1>32. ASSUME NEW w \in Workers, FailureCancels(w) PROVE AttTypes'
  BY <1>32 DEF FailureCancels, EndAttempt
<1>33. ASSUME NEW w \in Workers, FinalizeCancellation(w) PROVE AttTypes'
  BY <1>33, CancelRunTyped DEF FinalizeCancellation
<1>34. ASSUME NEW w \in Workers, LockCycle(w) PROVE AttTypes'
  BY <1>34 DEF LockCycle
<1> QED
  BY <1>1, <1>2, <1>3, <1>4, <1>5, <1>6, <1>7, <1>8, <1>9, <1>10, <1>11, <1>12, <1>13, <1>14,
     <1>15, <1>16, <1>17, <1>18, <1>19, <1>20, <1>21, <1>22, <1>23, <1>24, <1>25, <1>26, <1>27,
     <1>28, <1>29, <1>30, <1>31, <1>32, <1>33, <1>34 DEF Next, Drive

\* The receipt keeps its shape (_prepare_before, _resume_before, _complete_before).
LEMMA EffectTypesKept == EffectTypes /\ Next => EffectTypes'
<1> SUFFICES ASSUME EffectTypes, Next PROVE EffectTypes'
  OBVIOUS
<1> USE ActionConstants DEF EffectTypes, Receipts, ReceiptStatuses, effectVars
<1>1. CASE CreateRun
  BY <1>1 DEF CreateRun
<1>2. CASE RequestCancel
  BY <1>2 DEF RequestCancel
<1>3. CASE CancelArrives
  BY <1>3 DEF CancelArrives
<1>4. CASE CancelIsLost
  BY <1>4 DEF CancelIsLost
<1>5. CASE RecoverCancellation
  BY <1>5 DEF RecoverCancellation
<1>6. CASE LeaseExpires
  BY <1>6 DEF LeaseExpires
<1>7. CASE RetryDue
  BY <1>7 DEF RetryDue
<1>8. CASE ReceiptLeaseExpires
  BY <1>8 DEF ReceiptLeaseExpires
<1>9. CASE DeliveryTimesOut
  BY <1>9 DEF DeliveryTimesOut
<1>10. ASSUME NEW c \in Callers, DispatchRead(c) PROVE EffectTypes'
  BY <1>10 DEF DispatchRead
<1>11. ASSUME NEW c \in Callers, DispatchCall(c) PROVE EffectTypes'
  BY <1>11 DEF DispatchCall
<1>12. ASSUME NEW c \in Callers, DispatchRecord(c) PROVE EffectTypes'
  BY <1>12 DEF DispatchRecord
<1>13. ASSUME NEW c \in Callers, DispatchDies(c) PROVE EffectTypes'
  BY <1>13 DEF DispatchDies
<1>14. ASSUME NEW w \in Workers, Deliver(w) PROVE EffectTypes'
  BY <1>14 DEF Deliver
<1>15. ASSUME NEW w \in Workers, WorkerDies(w) PROVE EffectTypes'
  BY <1>15 DEF WorkerDies
<1>16. ASSUME NEW w \in Workers, Load(w) PROVE EffectTypes'
  BY <1>16 DEF Load
<1>17. ASSUME NEW w \in Workers, Claim(w) PROVE EffectTypes'
  BY <1>17 DEF Claim
<1>18. ASSUME NEW w \in Workers, NotClaimed(w) PROVE EffectTypes'
  BY <1>18 DEF NotClaimed
<1>19. ASSUME NEW w \in Workers, ResolveUnclaimed(w) PROVE EffectTypes'
  BY <1>19 DEF ResolveUnclaimed
<1>20. ASSUME NEW w \in Workers, PrepareBefore(w) PROVE EffectTypes'
  <2>1. [status |-> "delivering", fence |-> 1, live |-> TRUE, started |-> FALSE] \in Receipts
    OBVIOUS
  <2>2. receipt' \in Receipts
    BY <1>20, <2>1, Zenon DEF PrepareBefore
  <2> QED
    BY <1>20, <2>2 DEF PrepareBefore
<1>21. ASSUME NEW w \in Workers, ResumeBefore(w) PROVE EffectTypes'
  <2>1. [receipt EXCEPT !.fence = @ + 1, !.live = TRUE] \in Receipts
    <3>1. receipt.fence + 1 \in Nat
      OBVIOUS
    <3> QED
      BY <3>1, Zenon
  <2>2. receipt' \in Receipts
    BY <1>21, <2>1, Zenon DEF ResumeBefore
  <2> QED
    BY <1>21, <2>2 DEF ResumeBefore
<1>22. ASSUME NEW w \in Workers, DispatchBefore(w) PROVE EffectTypes'
  <2>1. [receipt EXCEPT !.started = TRUE] \in Receipts
    OBVIOUS
  <2>2. receipt' \in Receipts
    BY <1>22, <2>1, Zenon DEF DispatchBefore
  <2> QED
    BY <1>22, <2>2 DEF DispatchBefore, Raise
<1>23. ASSUME NEW w \in Workers, ProviderAnswers(w) PROVE EffectTypes'
  BY <1>23 DEF ProviderAnswers
<1>24. ASSUME NEW w \in Workers, CloseBefore(w) PROVE EffectTypes'
  BY <1>24 DEF CloseBefore
<1>25. ASSUME NEW w \in Workers, ExecutePlan(w) PROVE EffectTypes'
  BY <1>25 DEF ExecutePlan
<1>26. ASSUME NEW w \in Workers, LeaseLost(w) PROVE EffectTypes'
  BY <1>26 DEF LeaseLost
<1>27. ASSUME NEW w \in Workers, CommitCancels(w) PROVE EffectTypes'
  BY <1>27 DEF CommitCancels
<1>28. ASSUME NEW w \in Workers, Commit(w) PROVE EffectTypes'
  BY <1>28 DEF Commit
<1>29. ASSUME NEW w \in Workers, CommitFails(w) PROVE EffectTypes'
  BY <1>29 DEF CommitFails
<1>30. ASSUME NEW w \in Workers, FailureRead(w) PROVE EffectTypes'
  BY <1>30 DEF FailureRead
<1>31. ASSUME NEW w \in Workers, PersistFailure(w) PROVE EffectTypes'
  BY <1>31 DEF PersistFailure
<1>32. ASSUME NEW w \in Workers, FailureCancels(w) PROVE EffectTypes'
  BY <1>32 DEF FailureCancels
<1>33. ASSUME NEW w \in Workers, FinalizeCancellation(w) PROVE EffectTypes'
  BY <1>33 DEF FinalizeCancellation
<1>34. ASSUME NEW w \in Workers, LockCycle(w) PROVE EffectTypes'
  BY <1>34 DEF LockCycle
<1> QED
  BY <1>1, <1>2, <1>3, <1>4, <1>5, <1>6, <1>7, <1>8, <1>9, <1>10, <1>11, <1>12, <1>13, <1>14,
     <1>15, <1>16, <1>17, <1>18, <1>19, <1>20, <1>21, <1>22, <1>23, <1>24, <1>25, <1>26, <1>27,
     <1>28, <1>29, <1>30, <1>31, <1>32, <1>33, <1>34 DEF Next, Drive

\* The workflow and its deliveries stay within their types.
LEMMA FlowTypesKept == FlowTypes /\ Next => FlowTypes'
<1> SUFFICES ASSUME FlowTypes, Next PROVE FlowTypes'
  OBVIOUS
<1> USE ActionConstants DEF FlowTypes, flowVars, boundVars
<1>1. CASE CreateRun
  BY <1>1 DEF CreateRun
<1>2. CASE RequestCancel
  BY <1>2 DEF RequestCancel
<1>3. CASE CancelArrives
  BY <1>3 DEF CancelArrives
<1>4. CASE CancelIsLost
  BY <1>4 DEF CancelIsLost
<1>5. CASE RecoverCancellation
  BY <1>5 DEF RecoverCancellation
<1>6. CASE LeaseExpires
  BY <1>6 DEF LeaseExpires, Mishap
<1>7. CASE RetryDue
  BY <1>7 DEF RetryDue
<1>8. CASE ReceiptLeaseExpires
  BY <1>8 DEF ReceiptLeaseExpires
<1>9. CASE DeliveryTimesOut
  BY <1>9 DEF DeliveryTimesOut, Mishap
<1>10. ASSUME NEW c \in Callers, DispatchRead(c) PROVE FlowTypes'
  BY <1>10 DEF DispatchRead
<1>11. ASSUME NEW c \in Callers, DispatchCall(c) PROVE FlowTypes'
  BY <1>11 DEF DispatchCall, Mishap
<1>12. ASSUME NEW c \in Callers, DispatchRecord(c) PROVE FlowTypes'
  BY <1>12 DEF DispatchRecord
<1>13. ASSUME NEW c \in Callers, DispatchDies(c) PROVE FlowTypes'
  BY <1>13 DEF DispatchDies, Mishap
<1>14. ASSUME NEW w \in Workers, Deliver(w) PROVE FlowTypes'
  BY <1>14 DEF Deliver
<1>15. ASSUME NEW w \in Workers, WorkerDies(w) PROVE FlowTypes'
  BY <1>15 DEF WorkerDies, Settles, Mishap
<1>16. ASSUME NEW w \in Workers, Load(w) PROVE FlowTypes'
  BY <1>16 DEF Load, Leave, Settles
<1>17. ASSUME NEW w \in Workers, Claim(w) PROVE FlowTypes'
  BY <1>17 DEF Claim
<1>18. ASSUME NEW w \in Workers, NotClaimed(w) PROVE FlowTypes'
  BY <1>18 DEF NotClaimed
<1>19. ASSUME NEW w \in Workers, ResolveUnclaimed(w) PROVE FlowTypes'
  BY <1>19 DEF ResolveUnclaimed, Leave, Settles
<1>20. ASSUME NEW w \in Workers, PrepareBefore(w) PROVE FlowTypes'
  BY <1>20 DEF PrepareBefore
<1>21. ASSUME NEW w \in Workers, ResumeBefore(w) PROVE FlowTypes'
  BY <1>21 DEF ResumeBefore, Raise
<1>22. ASSUME NEW w \in Workers, DispatchBefore(w) PROVE FlowTypes'
  BY <1>22 DEF DispatchBefore, Raise
<1>23. ASSUME NEW w \in Workers, ProviderAnswers(w) PROVE FlowTypes'
  BY <1>23 DEF ProviderAnswers
<1>24. ASSUME NEW w \in Workers, CloseBefore(w) PROVE FlowTypes'
  BY <1>24 DEF CloseBefore, Raise
<1>25. ASSUME NEW w \in Workers, ExecutePlan(w) PROVE FlowTypes'
  BY <1>25 DEF ExecutePlan, Raise
<1>26. ASSUME NEW w \in Workers, LeaseLost(w) PROVE FlowTypes'
  BY <1>26 DEF LeaseLost, Leave, Settles
<1>27. ASSUME NEW w \in Workers, CommitCancels(w) PROVE FlowTypes'
  BY <1>27 DEF CommitCancels, Leave, Settles
<1>28. ASSUME NEW w \in Workers, Commit(w) PROVE FlowTypes'
  BY <1>28 DEF Commit, Leave, Settles
<1>29. ASSUME NEW w \in Workers, CommitFails(w) PROVE FlowTypes'
  BY <1>29 DEF CommitFails, Raise
<1>30. ASSUME NEW w \in Workers, FailureRead(w) PROVE FlowTypes'
  BY <1>30 DEF FailureRead
<1>31. ASSUME NEW w \in Workers, PersistFailure(w) PROVE FlowTypes'
  BY <1>31 DEF PersistFailure, Leave, Settles
<1>32. ASSUME NEW w \in Workers, FailureCancels(w) PROVE FlowTypes'
  BY <1>32 DEF FailureCancels, Leave, Settles
<1>33. ASSUME NEW w \in Workers, FinalizeCancellation(w) PROVE FlowTypes'
  BY <1>33 DEF FinalizeCancellation, Leave, Settles
<1>34. ASSUME NEW w \in Workers, LockCycle(w) PROVE FlowTypes'
  BY <1>34 DEF LockCycle, Raise, Leave, Settles
<1> QED
  BY <1>1, <1>2, <1>3, <1>4, <1>5, <1>6, <1>7, <1>8, <1>9, <1>10, <1>11, <1>12, <1>13, <1>14,
     <1>15, <1>16, <1>17, <1>18, <1>19, <1>20, <1>21, <1>22, <1>23, <1>24, <1>25, <1>26, <1>27,
     <1>28, <1>29, <1>30, <1>31, <1>32, <1>33, <1>34 DEF Next, Drive

\* What a worker holds stays within its types.
LEMMA WorkerTypesKept == TypeOK /\ Next => WorkerTypes'
<1> SUFFICES ASSUME TypeOK, Next PROVE WorkerTypes'
  OBVIOUS
<1> USE ActionConstants DEF TypeOK, WorkerTypes, PCs, RunStatuses, Terminal, Failures, Outcomes,
        localVars
<1>1. CASE CreateRun
  BY <1>1 DEF CreateRun
<1>2. CASE RequestCancel
  BY <1>2 DEF RequestCancel
<1>3. CASE CancelArrives
  <2>1. CASE UNCHANGED <<pc, localVars>>
    BY <2>1
  <2>2. CASE flight \in Workers /\ Forget(flight)
    BY <2>2, ForgetTyped
  <2> QED
    BY <1>3, <2>1, <2>2 DEF CancelArrives
<1>4. CASE CancelIsLost
  BY <1>4 DEF CancelIsLost
<1>5. CASE RecoverCancellation
  BY <1>5 DEF RecoverCancellation
<1>6. CASE LeaseExpires
  BY <1>6 DEF LeaseExpires
<1>7. CASE RetryDue
  BY <1>7 DEF RetryDue
<1>8. CASE ReceiptLeaseExpires
  BY <1>8 DEF ReceiptLeaseExpires
<1>9. CASE DeliveryTimesOut
  BY <1>9 DEF DeliveryTimesOut
<1>10. ASSUME NEW c \in Callers, DispatchRead(c) PROVE WorkerTypes'
  BY <1>10 DEF DispatchRead
<1>11. ASSUME NEW c \in Callers, DispatchCall(c) PROVE WorkerTypes'
  BY <1>11 DEF DispatchCall
<1>12. ASSUME NEW c \in Callers, DispatchRecord(c) PROVE WorkerTypes'
  BY <1>12 DEF DispatchRecord
<1>13. ASSUME NEW c \in Callers, DispatchDies(c) PROVE WorkerTypes'
  BY <1>13 DEF DispatchDies
<1>14. ASSUME NEW w \in Workers, Deliver(w) PROVE WorkerTypes'
  BY <1>14 DEF Deliver
<1>15. ASSUME NEW w \in Workers, WorkerDies(w) PROVE WorkerTypes'
  BY <1>15, ForgetTyped DEF WorkerDies
<1>16. ASSUME NEW w \in Workers, Load(w) PROVE WorkerTypes'
  <2>1. CASE Leave(w, "returned")
    BY <2>1, ForgetTyped DEF Leave
  <2>2. CASE ~Leave(w, "returned")
    BY <1>16, <2>2 DEF Load, Goto
  <2> QED
    BY <2>1, <2>2
<1>17. ASSUME NEW w \in Workers, Claim(w) PROVE WorkerTypes'
  <2>1. att.n + 1 \in Nat
    BY DEF Attempts
  <2> QED
    BY <1>17, <2>1 DEF Claim, Goto
<1>18. ASSUME NEW w \in Workers, NotClaimed(w) PROVE WorkerTypes'
  BY <1>18 DEF NotClaimed, Goto
<1>19. ASSUME NEW w \in Workers, ResolveUnclaimed(w) PROVE WorkerTypes'
  <2>1. CASE Leave(w, "returned") \/ Leave(w, "retryable")
    BY <2>1, ForgetTyped DEF Leave
  <2>2. CASE ~(Leave(w, "returned") \/ Leave(w, "retryable"))
    BY <1>19, <2>2 DEF ResolveUnclaimed, Goto
  <2> QED
    BY <2>1, <2>2
<1>20. ASSUME NEW w \in Workers, PrepareBefore(w) PROVE WorkerTypes'
  BY <1>20 DEF PrepareBefore, Goto
<1>21. ASSUME NEW w \in Workers, ResumeBefore(w) PROVE WorkerTypes'
  <2>1. receipt.fence + 1 \in Nat
    BY DEF Receipts
  <2>2. fence' \in [Workers -> Nat]
    BY <1>21, <2>1 DEF ResumeBefore
  <2>3. pc' \in [Workers -> PCs] /\ kind' \in [Workers -> Failures \cup Outcomes \cup {"none"}]
    BY <1>21 DEF ResumeBefore, Raise, Goto
  <2> QED
    BY <1>21, <2>2, <2>3 DEF ResumeBefore
<1>22. ASSUME NEW w \in Workers, DispatchBefore(w) PROVE WorkerTypes'
  BY <1>22 DEF DispatchBefore, Goto, Raise
<1>23. ASSUME NEW w \in Workers, ProviderAnswers(w) PROVE WorkerTypes'
  BY <1>23 DEF ProviderAnswers, Goto
<1>24. ASSUME NEW w \in Workers, CloseBefore(w) PROVE WorkerTypes'
  BY <1>24 DEF CloseBefore, Goto, Raise
<1>25. ASSUME NEW w \in Workers, ExecutePlan(w) PROVE WorkerTypes'
  BY <1>25 DEF ExecutePlan, Goto, Raise
<1>26. ASSUME NEW w \in Workers, LeaseLost(w) PROVE WorkerTypes'
  BY <1>26, ForgetTyped DEF LeaseLost, Leave
<1>27. ASSUME NEW w \in Workers, CommitCancels(w) PROVE WorkerTypes'
  BY <1>27, ForgetTyped DEF CommitCancels, Leave
<1>28. ASSUME NEW w \in Workers, Commit(w) PROVE WorkerTypes'
  BY <1>28, ForgetTyped DEF Commit, Leave
<1>29. ASSUME NEW w \in Workers, CommitFails(w) PROVE WorkerTypes'
  BY <1>29 DEF CommitFails, Raise, Goto
<1>30. ASSUME NEW w \in Workers, FailureRead(w) PROVE WorkerTypes'
  BY <1>30 DEF FailureRead, Goto
<1>31. ASSUME NEW w \in Workers, PersistFailure(w) PROVE WorkerTypes'
  BY <1>31, ForgetTyped DEF PersistFailure, Leave
<1>32. ASSUME NEW w \in Workers, FailureCancels(w) PROVE WorkerTypes'
  BY <1>32, ForgetTyped DEF FailureCancels, Leave
<1>33. ASSUME NEW w \in Workers, FinalizeCancellation(w) PROVE WorkerTypes'
  BY <1>33, ForgetTyped DEF FinalizeCancellation, Leave
<1>34. ASSUME NEW w \in Workers, LockCycle(w) PROVE WorkerTypes'
  <2>1. PICK v \in Workers \ {w} :
           \/ Leave(w, "fatal")
           \/ pc[v] = "commit" /\ Raise(v, "permanent") /\ UNCHANGED <<seen, mine, fence, rseen>>
           \/ pc[v] = "persist" /\ Leave(v, "fatal")
    BY <1>34 DEF LockCycle
  <2>2. CASE Leave(w, "fatal") \/ Leave(v, "fatal")
    BY <2>2, ForgetTyped DEF Leave
  <2>3. CASE Raise(v, "permanent") /\ UNCHANGED <<seen, mine, fence, rseen>>
    BY <2>3 DEF Raise, Goto
  <2> QED
    BY <2>1, <2>2, <2>3
<1> QED
  BY <1>1, <1>2, <1>3, <1>4, <1>5, <1>6, <1>7, <1>8, <1>9, <1>10, <1>11, <1>12, <1>13, <1>14,
     <1>15, <1>16, <1>17, <1>18, <1>19, <1>20, <1>21, <1>22, <1>23, <1>24, <1>25, <1>26, <1>27,
     <1>28, <1>29, <1>30, <1>31, <1>32, <1>33, <1>34 DEF Next, Drive

-----------------------------------------------------------------------------
(* The rows of the run, and the effect *)

\* No step is left open by a run that ends on its own: whoever closes the run had
\* the attempt, or closes the step with it.
LEMMA StepFollows == ActionInv /\ Next => StepFollowsRun'
<1> SUFFICES ASSUME ActionInv, Next PROVE StepFollowsRun'
  OBVIOUS
<1> USE ActionConstants DEF ActionInv, StepFollowsRun, AttemptsAreOwned, TypeOK, Attempts, Terminal,
        runVars
<1>1. CASE CreateRun
  BY <1>1 DEF CreateRun
<1>2. CASE RequestCancel
  BY <1>2 DEF RequestCancel, StepOnCancel
<1>3. CASE CancelArrives
  BY <1>3 DEF CancelArrives
<1>4. CASE CancelIsLost
  BY <1>4 DEF CancelIsLost
<1>5. CASE RecoverCancellation
  BY <1>5 DEF RecoverCancellation, CancelRun, Claimable
<1>6. CASE LeaseExpires
  BY <1>6 DEF LeaseExpires
<1>7. CASE RetryDue
  BY <1>7 DEF RetryDue
<1>8. CASE ReceiptLeaseExpires
  BY <1>8 DEF ReceiptLeaseExpires
<1>9. CASE DeliveryTimesOut
  BY <1>9 DEF DeliveryTimesOut
<1>10. ASSUME NEW c \in Callers, DispatchRead(c) PROVE StepFollowsRun'
  BY <1>10 DEF DispatchRead
<1>11. ASSUME NEW c \in Callers, DispatchCall(c) PROVE StepFollowsRun'
  BY <1>11 DEF DispatchCall
<1>12. ASSUME NEW c \in Callers, DispatchRecord(c) PROVE StepFollowsRun'
  BY <1>12 DEF DispatchRecord
<1>13. ASSUME NEW c \in Callers, DispatchDies(c) PROVE StepFollowsRun'
  BY <1>13 DEF DispatchDies
<1>14. ASSUME NEW w \in Workers, Deliver(w) PROVE StepFollowsRun'
  BY <1>14 DEF Deliver
<1>15. ASSUME NEW w \in Workers, WorkerDies(w) PROVE StepFollowsRun'
  BY <1>15 DEF WorkerDies
<1>16. ASSUME NEW w \in Workers, Load(w) PROVE StepFollowsRun'
  BY <1>16 DEF Load
<1>17. ASSUME NEW w \in Workers, Claim(w) PROVE StepFollowsRun'
  BY <1>17 DEF Claim, Claimable, RunOnClaim
<1>18. ASSUME NEW w \in Workers, NotClaimed(w) PROVE StepFollowsRun'
  BY <1>18 DEF NotClaimed
<1>19. ASSUME NEW w \in Workers, ResolveUnclaimed(w) PROVE StepFollowsRun'
  BY <1>19 DEF ResolveUnclaimed
<1>20. ASSUME NEW w \in Workers, PrepareBefore(w) PROVE StepFollowsRun'
  BY <1>20 DEF PrepareBefore
<1>21. ASSUME NEW w \in Workers, ResumeBefore(w) PROVE StepFollowsRun'
  BY <1>21 DEF ResumeBefore
<1>22. ASSUME NEW w \in Workers, DispatchBefore(w) PROVE StepFollowsRun'
  BY <1>22 DEF DispatchBefore
<1>23. ASSUME NEW w \in Workers, ProviderAnswers(w) PROVE StepFollowsRun'
  BY <1>23 DEF ProviderAnswers
<1>24. ASSUME NEW w \in Workers, CloseBefore(w) PROVE StepFollowsRun'
  BY <1>24 DEF CloseBefore
<1>25. ASSUME NEW w \in Workers, ExecutePlan(w) PROVE StepFollowsRun'
  BY <1>25 DEF ExecutePlan
<1>26. ASSUME NEW w \in Workers, LeaseLost(w) PROVE StepFollowsRun'
  BY <1>26 DEF LeaseLost
<1>27. ASSUME NEW w \in Workers, CommitCancels(w) PROVE StepFollowsRun'
  BY <1>27 DEF CommitCancels, CancelClaimed
<1>28. ASSUME NEW w \in Workers, Commit(w) PROVE StepFollowsRun'
  BY <1>28 DEF Commit, CommitGoesThrough
<1>29. ASSUME NEW w \in Workers, CommitFails(w) PROVE StepFollowsRun'
  BY <1>29 DEF CommitFails
<1>30. ASSUME NEW w \in Workers, FailureRead(w) PROVE StepFollowsRun'
  BY <1>30 DEF FailureRead
<1>31. ASSUME NEW w \in Workers, PersistFailure(w) PROVE StepFollowsRun'
  BY <1>31 DEF PersistFailure, Verdict
<1>32. ASSUME NEW w \in Workers, FailureCancels(w) PROVE StepFollowsRun'
  BY <1>32 DEF FailureCancels
<1>33. ASSUME NEW w \in Workers, FinalizeCancellation(w) PROVE StepFollowsRun'
  BY <1>33 DEF FinalizeCancellation, CancelRun, Claimable
<1>34. ASSUME NEW w \in Workers, LockCycle(w) PROVE StepFollowsRun'
  BY <1>34 DEF LockCycle
<1> QED
  BY <1>1, <1>2, <1>3, <1>4, <1>5, <1>6, <1>7, <1>8, <1>9, <1>10, <1>11, <1>12, <1>13, <1>14,
     <1>15, <1>16, <1>17, <1>18, <1>19, <1>20, <1>21, <1>22, <1>23, <1>24, <1>25, <1>26, <1>27,
     <1>28, <1>29, <1>30, <1>31, <1>32, <1>33, <1>34 DEF Next, Drive

\* A claim takes the next number, and nobody replaces an attempt whose failure is
\* being recorded (lock_attempt_owner).
LEMMA OwnersKept == ActionInv /\ Next => AttemptsAreOwned'
<1> SUFFICES ASSUME ActionInv, Next PROVE AttemptsAreOwned'
  OBVIOUS
<1> USE ActionConstants DEF ActionInv, AttemptsAreOwned, TypeOK, Attempts, Terminal, runVars,
        localVars
<1>1. CASE CreateRun
  BY <1>1 DEF CreateRun
<1>2. CASE RequestCancel
  BY <1>2 DEF RequestCancel, StepOnCancel
<1>3. CASE CancelArrives
  BY <1>3 DEF CancelArrives, Forget
<1>4. CASE CancelIsLost
  BY <1>4 DEF CancelIsLost
<1>5. CASE RecoverCancellation
  BY <1>5 DEF RecoverCancellation, CancelRun, AttemptLocked, Claimable
<1>6. CASE LeaseExpires
  BY <1>6 DEF LeaseExpires
<1>7. CASE RetryDue
  BY <1>7 DEF RetryDue
<1>8. CASE ReceiptLeaseExpires
  BY <1>8 DEF ReceiptLeaseExpires
<1>9. CASE DeliveryTimesOut
  BY <1>9 DEF DeliveryTimesOut
<1>10. ASSUME NEW c \in Callers, DispatchRead(c) PROVE AttemptsAreOwned'
  BY <1>10 DEF DispatchRead
<1>11. ASSUME NEW c \in Callers, DispatchCall(c) PROVE AttemptsAreOwned'
  BY <1>11 DEF DispatchCall
<1>12. ASSUME NEW c \in Callers, DispatchRecord(c) PROVE AttemptsAreOwned'
  BY <1>12 DEF DispatchRecord
<1>13. ASSUME NEW c \in Callers, DispatchDies(c) PROVE AttemptsAreOwned'
  BY <1>13 DEF DispatchDies
<1>14. ASSUME NEW w \in Workers, Deliver(w) PROVE AttemptsAreOwned'
  BY <1>14 DEF Deliver
<1>15. ASSUME NEW w \in Workers, WorkerDies(w) PROVE AttemptsAreOwned'
  BY <1>15 DEF WorkerDies, Forget
<1>16. ASSUME NEW w \in Workers, Load(w) PROVE AttemptsAreOwned'
  BY <1>16 DEF Load, Leave, Forget, Goto
<1>17. ASSUME NEW w \in Workers, Claim(w) PROVE AttemptsAreOwned'
  <2>1. att'.n = att.n + 1 /\ att'.status = "running" /\ step' = "running"
    BY <1>17 DEF Claim
  <2>2. status # "none" /\ status' # "none"
    BY <1>17 DEF Claim, Claimable, RunOnClaim
  <2>3. \A v \in Workers : mine'[v] = (IF v = w THEN att.n + 1 ELSE mine[v])
    BY <1>17 DEF Claim
  <2>4. \A v \in Workers : pc'[v] # "persist"
    BY <1>17 DEF Claim, Goto, AttemptLocked
  <2>5. att.n + 1 > 0 /\ \A v \in Workers : mine[v] <= att.n
    OBVIOUS
  <2>6. \A u, v \in Workers : mine'[u] = mine'[v] /\ mine'[u] # 0 => u = v
    BY <2>3, <2>5
  <2> QED
    BY <2>1, <2>2, <2>3, <2>4, <2>5, <2>6
<1>18. ASSUME NEW w \in Workers, NotClaimed(w) PROVE AttemptsAreOwned'
  BY <1>18 DEF NotClaimed, Goto
<1>19. ASSUME NEW w \in Workers, ResolveUnclaimed(w) PROVE AttemptsAreOwned'
  BY <1>19 DEF ResolveUnclaimed, Leave, Forget, Goto
<1>20. ASSUME NEW w \in Workers, PrepareBefore(w) PROVE AttemptsAreOwned'
  BY <1>20 DEF PrepareBefore, Goto
<1>21. ASSUME NEW w \in Workers, ResumeBefore(w) PROVE AttemptsAreOwned'
  BY <1>21 DEF ResumeBefore, Goto, Raise
<1>22. ASSUME NEW w \in Workers, DispatchBefore(w) PROVE AttemptsAreOwned'
  BY <1>22 DEF DispatchBefore, Goto, Raise
<1>23. ASSUME NEW w \in Workers, ProviderAnswers(w) PROVE AttemptsAreOwned'
  BY <1>23 DEF ProviderAnswers, Goto
<1>24. ASSUME NEW w \in Workers, CloseBefore(w) PROVE AttemptsAreOwned'
  BY <1>24 DEF CloseBefore, Goto, Raise
<1>25. ASSUME NEW w \in Workers, ExecutePlan(w) PROVE AttemptsAreOwned'
  BY <1>25 DEF ExecutePlan, Goto, Raise
<1>26. ASSUME NEW w \in Workers, LeaseLost(w) PROVE AttemptsAreOwned'
  BY <1>26 DEF LeaseLost, Owns, Leave, Forget
<1>27. ASSUME NEW w \in Workers, CommitCancels(w) PROVE AttemptsAreOwned'
  <2>1. att'.n = att.n /\ att'.status # "running" /\ step' # "running" /\ status' # "none" /\ Forget(w)
    BY <1>27 DEF CommitCancels, CancelClaimed, EndAttempt, Leave
  <2>2. att.status = "running" /\ mine[w] = att.n
    BY <1>27 DEF CommitCancels, CancelClaimed, Owns
  <2> QED
    BY <2>1, <2>2, EndKeepsOwners
<1>28. ASSUME NEW w \in Workers, Commit(w) PROVE AttemptsAreOwned'
  <2>1. att'.n = att.n /\ att'.status # "running" /\ step' # "running" /\ status' # "none" /\ Forget(w)
    BY <1>28 DEF Commit, EndAttempt, Leave
  <2>2. att.status = "running" /\ mine[w] = att.n
    BY <1>28 DEF Commit, CommitGoesThrough, Owns
  <2> QED
    BY <2>1, <2>2, EndKeepsOwners
<1>29. ASSUME NEW w \in Workers, CommitFails(w) PROVE AttemptsAreOwned'
  BY <1>29 DEF CommitFails, Owns, Raise, Goto
<1>30. ASSUME NEW w \in Workers, FailureRead(w) PROVE AttemptsAreOwned'
  BY <1>30 DEF FailureRead, Owns, Goto
<1>31. ASSUME NEW w \in Workers, PersistFailure(w) PROVE AttemptsAreOwned'
  <2>1. status # "none" /\ att.status = "running" /\ mine[w] = att.n
    BY <1>31 DEF PersistFailure
  <2>2. att'.n = att.n /\ att'.status # "running" /\ step' # "running" /\ status' # "none" /\ Forget(w)
    BY <1>31, <2>1 DEF PersistFailure, EndAttempt, Verdict, Leave
  <2> QED
    BY <2>1, <2>2, EndKeepsOwners
<1>32. ASSUME NEW w \in Workers, FailureCancels(w) PROVE AttemptsAreOwned'
  <2>1. att.status = "running" /\ mine[w] = att.n
    BY <1>32 DEF FailureCancels
  <2>2. CASE status \in {"queued", "running", "cancelling"}
    <3>1. att'.n = att.n /\ att'.status # "running" /\ step' # "running" /\ status' # "none" /\ Forget(w)
      BY <1>32, <2>2 DEF FailureCancels, EndAttempt, Leave
    <3> QED
      BY <2>1, <3>1, EndKeepsOwners
  <2>3. CASE status \notin {"queued", "running", "cancelling"}
    BY <1>32, <2>3 DEF FailureCancels, Leave, Forget
  <2> QED
    BY <2>2, <2>3
<1>33. ASSUME NEW w \in Workers, FinalizeCancellation(w) PROVE AttemptsAreOwned'
  BY <1>33 DEF FinalizeCancellation, CancelRun, AttemptLocked, Claimable, Leave, Forget
<1>34. ASSUME NEW w \in Workers, LockCycle(w) PROVE AttemptsAreOwned'
  BY <1>34 DEF LockCycle, Raise, Goto, Leave, Forget
<1> QED
  BY <1>1, <1>2, <1>3, <1>4, <1>5, <1>6, <1>7, <1>8, <1>9, <1>10, <1>11, <1>12, <1>13, <1>14,
     <1>15, <1>16, <1>17, <1>18, <1>19, <1>20, <1>21, <1>22, <1>23, <1>24, <1>25, <1>26, <1>27,
     <1>28, <1>29, <1>30, <1>31, <1>32, <1>33, <1>34 DEF Next, Drive

\* The provider is called once, and what a worker or the receipt says of it is true
\* (start_effect_dispatch, complete_effect_receipt).
LEMMA FenceKept == ActionInv /\ Next => CallIsFenced'
<1> SUFFICES ASSUME ActionInv, Next PROVE CallIsFenced'
  OBVIOUS
<1> USE ActionConstants DEF ActionInv, CallIsFenced, TypeOK, Receipts, Outcomes, NoReceipt,
        effectVars, localVars
<1>1. CASE CreateRun
  BY <1>1 DEF CreateRun
<1>2. CASE RequestCancel
  BY <1>2 DEF RequestCancel
<1>3. CASE CancelArrives
  <2>1. CASE UNCHANGED <<pc, localVars>>
    BY <1>3, <2>1 DEF CancelArrives
  <2>2. CASE flight \in Workers /\ Forget(flight)
    BY <1>3, <2>2, ForgetFenced DEF CancelArrives
  <2> QED
    BY <1>3, <2>1, <2>2 DEF CancelArrives
<1>4. CASE CancelIsLost
  BY <1>4 DEF CancelIsLost
<1>5. CASE RecoverCancellation
  BY <1>5 DEF RecoverCancellation
<1>6. CASE LeaseExpires
  BY <1>6 DEF LeaseExpires
<1>7. CASE RetryDue
  BY <1>7 DEF RetryDue
<1>8. CASE ReceiptLeaseExpires
  BY <1>8 DEF ReceiptLeaseExpires
<1>9. CASE DeliveryTimesOut
  BY <1>9 DEF DeliveryTimesOut
<1>10. ASSUME NEW c \in Callers, DispatchRead(c) PROVE CallIsFenced'
  BY <1>10 DEF DispatchRead
<1>11. ASSUME NEW c \in Callers, DispatchCall(c) PROVE CallIsFenced'
  BY <1>11 DEF DispatchCall
<1>12. ASSUME NEW c \in Callers, DispatchRecord(c) PROVE CallIsFenced'
  BY <1>12 DEF DispatchRecord
<1>13. ASSUME NEW c \in Callers, DispatchDies(c) PROVE CallIsFenced'
  BY <1>13 DEF DispatchDies
<1>14. ASSUME NEW w \in Workers, Deliver(w) PROVE CallIsFenced'
  BY <1>14 DEF Deliver
<1>15. ASSUME NEW w \in Workers, WorkerDies(w) PROVE CallIsFenced'
  BY <1>15, ForgetFenced DEF WorkerDies
<1>16. ASSUME NEW w \in Workers, Load(w) PROVE CallIsFenced'
  <2>1. CASE Leave(w, "returned")
    BY <1>16, <2>1, ForgetFenced DEF Load, Leave
  <2>2. CASE ~Leave(w, "returned")
    <3>1. /\ UNCHANGED <<effectVars, rseen, kind>>
          /\ \E p \in {"finalize", "unclaimed", "claim"} : Goto(w, p)
      BY <1>16, <2>2 DEF Load
    <3> QED
      BY <3>1 DEF Goto
  <2> QED
    BY <2>1, <2>2
<1>17. ASSUME NEW w \in Workers, Claim(w) PROVE CallIsFenced'
  BY <1>17 DEF Claim, Goto
<1>18. ASSUME NEW w \in Workers, NotClaimed(w) PROVE CallIsFenced'
  BY <1>18 DEF NotClaimed, Goto
<1>19. ASSUME NEW w \in Workers, ResolveUnclaimed(w) PROVE CallIsFenced'
  <2>1. CASE Leave(w, "returned") \/ Leave(w, "retryable")
    BY <1>19, <2>1, ForgetFenced DEF ResolveUnclaimed, Leave
  <2>2. CASE ~(Leave(w, "returned") \/ Leave(w, "retryable"))
    <3>1. UNCHANGED <<effectVars, rseen, kind>> /\ Goto(w, "finalize")
      BY <1>19, <2>2 DEF ResolveUnclaimed
    <3> QED
      BY <3>1 DEF Goto
  <2> QED
    BY <2>1, <2>2
<1>20. ASSUME NEW w \in Workers, PrepareBefore(w) PROVE CallIsFenced'
  BY <1>20 DEF PrepareBefore, Goto
<1>21. ASSUME NEW w \in Workers, ResumeBefore(w) PROVE CallIsFenced'
  <2>1. CASE rseen[w].status = "delivering" /\ Reclaimable
    <3>1. receipt'.status = "delivering" /\ receipt'.started = receipt.started
      BY <1>21, <2>1 DEF ResumeBefore, Reclaimable
    <3>2. UNCHANGED <<sent, landed, rseen>>
      BY <1>21 DEF ResumeBefore
    <3>3. \/ Goto(w, "close") /\ kind' = [kind EXCEPT ![w] = "outcome_unknown"]
          \/ Goto(w, "dispatch") /\ UNCHANGED kind
      BY <1>21, <2>1 DEF ResumeBefore
    <3> QED
      BY <2>1, <3>1, <3>2, <3>3 DEF Goto, Reclaimable
  <2>2. CASE ~(rseen[w].status = "delivering" /\ Reclaimable)
    <3>1. UNCHANGED <<effectVars, rseen>>
      BY <1>21, <2>2 DEF ResumeBefore
    <3>2. CASE Goto(w, "plan") /\ UNCHANGED kind
      BY <3>1, <3>2 DEF Goto
    <3>3. CASE \E k \in Failures : Raise(w, k)
      BY <3>1, <3>3, RaiseFenced
    <3> QED
      BY <1>21, <2>2, <3>2, <3>3 DEF ResumeBefore, Failures
  <2> QED
    BY <2>1, <2>2
<1>22. ASSUME NEW w \in Workers, DispatchBefore(w) PROVE CallIsFenced'
  <2>1. CASE MayDispatch(w)
    <3>1. sent = 0 /\ landed = 0 /\ \A v \in Workers : pc[v] # "calling"
      BY <2>1 DEF MayDispatch
    <3> QED
      BY <1>22, <2>1, <3>1 DEF DispatchBefore, MayDispatch, HoldsReceipt, Goto
  <2>2. CASE ~MayDispatch(w)
    BY <1>22, <2>2, RaiseFenced DEF DispatchBefore, Failures
  <2> QED
    BY <2>1, <2>2
<1>23. ASSUME NEW w \in Workers, ProviderAnswers(w) PROVE CallIsFenced'
  BY <1>23 DEF ProviderAnswers, Goto
<1>24. ASSUME NEW w \in Workers, CloseBefore(w) PROVE CallIsFenced'
  <2>1. CASE CloseGoesThrough(w)
    <3>1. /\ receipt'.status = kind[w] /\ receipt'.started = receipt.started
          /\ UNCHANGED <<sent, landed, rseen>>
      BY <1>24, <2>1 DEF CloseBefore
    <3>2. receipt.status = "delivering" /\ pc[w] = "close" /\ kind[w] \in Outcomes
      BY <1>24, <2>1 DEF CloseBefore, CloseGoesThrough, HoldsReceipt
    <3>3. (Goto(w, "plan") /\ kind' = [kind EXCEPT ![w] = "none"]) \/ \E k \in Failures : Raise(w, k)
      BY <1>24, <2>1 DEF CloseBefore, Failures
    <3> QED
      BY <3>1, <3>2, <3>3 DEF Goto, Raise
  <2>2. CASE ~CloseGoesThrough(w)
    BY <1>24, <2>2, RaiseFenced DEF CloseBefore, Failures
  <2> QED
    BY <2>1, <2>2
<1>25. ASSUME NEW w \in Workers, ExecutePlan(w) PROVE CallIsFenced'
  <2>1. CASE Goto(w, "commit") /\ UNCHANGED kind
    BY <1>25, <2>1 DEF ExecutePlan, Goto
  <2>2. CASE \E k \in Failures : Raise(w, k)
    BY <1>25, <2>2, RaiseFenced DEF ExecutePlan
  <2> QED
    BY <1>25, <2>1, <2>2 DEF ExecutePlan, Failures
<1>26. ASSUME NEW w \in Workers, LeaseLost(w) PROVE CallIsFenced'
  BY <1>26, ForgetFenced DEF LeaseLost, Leave
<1>27. ASSUME NEW w \in Workers, CommitCancels(w) PROVE CallIsFenced'
  BY <1>27, ForgetFenced DEF CommitCancels, Leave
<1>28. ASSUME NEW w \in Workers, Commit(w) PROVE CallIsFenced'
  BY <1>28, ForgetFenced DEF Commit, Leave
<1>29. ASSUME NEW w \in Workers, CommitFails(w) PROVE CallIsFenced'
  BY <1>29, RaiseFenced DEF CommitFails, Failures
<1>30. ASSUME NEW w \in Workers, FailureRead(w) PROVE CallIsFenced'
  BY <1>30 DEF FailureRead, Goto
<1>31. ASSUME NEW w \in Workers, PersistFailure(w) PROVE CallIsFenced'
  BY <1>31, ForgetFenced DEF PersistFailure, Leave
<1>32. ASSUME NEW w \in Workers, FailureCancels(w) PROVE CallIsFenced'
  BY <1>32, ForgetFenced DEF FailureCancels, Leave
<1>33. ASSUME NEW w \in Workers, FinalizeCancellation(w) PROVE CallIsFenced'
  BY <1>33, ForgetFenced DEF FinalizeCancellation, Leave
<1>34. ASSUME NEW w \in Workers, LockCycle(w) PROVE CallIsFenced'
  <2>1. PICK v \in Workers \ {w} :
           \/ Leave(w, "fatal")
           \/ pc[v] = "commit" /\ Raise(v, "permanent") /\ UNCHANGED <<seen, mine, fence, rseen>>
           \/ pc[v] = "persist" /\ Leave(v, "fatal")
    BY <1>34 DEF LockCycle
  <2>2. UNCHANGED effectVars
    BY <1>34 DEF LockCycle
  <2>3. CASE Leave(w, "fatal") \/ Leave(v, "fatal")
    BY <2>2, <2>3, ForgetFenced DEF Leave
  <2>4. CASE Raise(v, "permanent") /\ UNCHANGED <<seen, mine, fence, rseen>>
    BY <2>2, <2>4, RaiseFenced DEF Failures
  <2> QED
    BY <2>1, <2>3, <2>4
<1> QED
  BY <1>1, <1>2, <1>3, <1>4, <1>5, <1>6, <1>7, <1>8, <1>9, <1>10, <1>11, <1>12, <1>13, <1>14,
     <1>15, <1>16, <1>17, <1>18, <1>19, <1>20, <1>21, <1>22, <1>23, <1>24, <1>25, <1>26, <1>27,
     <1>28, <1>29, <1>30, <1>31, <1>32, <1>33, <1>34 DEF Next, Drive

\* The plan is reached only behind a receipt that says succeeded, and a receipt
\* never leaves that status (execute_before).
LEMMA PlanKept == ActionInv /\ Next => PlanBehindEffect'
<1> SUFFICES ASSUME ActionInv, Next PROVE PlanBehindEffect'
  OBVIOUS
<1> USE ActionConstants DEF ActionInv, CallIsFenced, PlanBehindEffect, TypeOK, Receipts, effectVars,
        localVars, boundVars, setting
<1>1. CASE CreateRun
  BY <1>1 DEF CreateRun
<1>2. CASE RequestCancel
  BY <1>2 DEF RequestCancel
<1>3. CASE CancelArrives
  BY <1>3 DEF CancelArrives, Forget
<1>4. CASE CancelIsLost
  BY <1>4 DEF CancelIsLost
<1>5. CASE RecoverCancellation
  BY <1>5 DEF RecoverCancellation
<1>6. CASE LeaseExpires
  BY <1>6 DEF LeaseExpires
<1>7. CASE RetryDue
  BY <1>7 DEF RetryDue
<1>8. CASE ReceiptLeaseExpires
  BY <1>8 DEF ReceiptLeaseExpires
<1>9. CASE DeliveryTimesOut
  BY <1>9 DEF DeliveryTimesOut
<1>10. ASSUME NEW c \in Callers, DispatchRead(c) PROVE PlanBehindEffect'
  BY <1>10 DEF DispatchRead
<1>11. ASSUME NEW c \in Callers, DispatchCall(c) PROVE PlanBehindEffect'
  BY <1>11 DEF DispatchCall
<1>12. ASSUME NEW c \in Callers, DispatchRecord(c) PROVE PlanBehindEffect'
  BY <1>12 DEF DispatchRecord
<1>13. ASSUME NEW c \in Callers, DispatchDies(c) PROVE PlanBehindEffect'
  BY <1>13 DEF DispatchDies
<1>14. ASSUME NEW w \in Workers, Deliver(w) PROVE PlanBehindEffect'
  BY <1>14 DEF Deliver
<1>15. ASSUME NEW w \in Workers, WorkerDies(w) PROVE PlanBehindEffect'
  BY <1>15 DEF WorkerDies, Forget
<1>16. ASSUME NEW w \in Workers, Load(w) PROVE PlanBehindEffect'
  BY <1>16 DEF Load, Leave, Forget, Goto
<1>17. ASSUME NEW w \in Workers, Claim(w) PROVE PlanBehindEffect'
  BY <1>17 DEF Claim, Goto
<1>18. ASSUME NEW w \in Workers, NotClaimed(w) PROVE PlanBehindEffect'
  BY <1>18 DEF NotClaimed, Goto
<1>19. ASSUME NEW w \in Workers, ResolveUnclaimed(w) PROVE PlanBehindEffect'
  BY <1>19 DEF ResolveUnclaimed, Leave, Forget, Goto
<1>20. ASSUME NEW w \in Workers, PrepareBefore(w) PROVE PlanBehindEffect'
  BY <1>20 DEF PrepareBefore, Goto
<1>21. ASSUME NEW w \in Workers, ResumeBefore(w) PROVE PlanBehindEffect'
  BY <1>21 DEF ResumeBefore, Goto, Raise, Reclaimable
<1>22. ASSUME NEW w \in Workers, DispatchBefore(w) PROVE PlanBehindEffect'
  BY <1>22 DEF DispatchBefore, Goto, Raise, MayDispatch, HoldsReceipt
<1>23. ASSUME NEW w \in Workers, ProviderAnswers(w) PROVE PlanBehindEffect'
  BY <1>23 DEF ProviderAnswers, Goto
<1>24. ASSUME NEW w \in Workers, CloseBefore(w) PROVE PlanBehindEffect'
  BY <1>24 DEF CloseBefore, Goto, Raise, CloseGoesThrough, HoldsReceipt
<1>25. ASSUME NEW w \in Workers, ExecutePlan(w) PROVE PlanBehindEffect'
  BY <1>25 DEF ExecutePlan, Goto, Raise
<1>26. ASSUME NEW w \in Workers, LeaseLost(w) PROVE PlanBehindEffect'
  BY <1>26 DEF LeaseLost, Leave, Forget
<1>27. ASSUME NEW w \in Workers, CommitCancels(w) PROVE PlanBehindEffect'
  BY <1>27 DEF CommitCancels, Leave, Forget
<1>28. ASSUME NEW w \in Workers, Commit(w) PROVE PlanBehindEffect'
  BY <1>28 DEF Commit, Leave, Forget
<1>29. ASSUME NEW w \in Workers, CommitFails(w) PROVE PlanBehindEffect'
  BY <1>29 DEF CommitFails, Raise, Goto
<1>30. ASSUME NEW w \in Workers, FailureRead(w) PROVE PlanBehindEffect'
  BY <1>30 DEF FailureRead, Goto
<1>31. ASSUME NEW w \in Workers, PersistFailure(w) PROVE PlanBehindEffect'
  BY <1>31 DEF PersistFailure, Leave, Forget
<1>32. ASSUME NEW w \in Workers, FailureCancels(w) PROVE PlanBehindEffect'
  BY <1>32 DEF FailureCancels, Leave, Forget
<1>33. ASSUME NEW w \in Workers, FinalizeCancellation(w) PROVE PlanBehindEffect'
  BY <1>33 DEF FinalizeCancellation, Leave, Forget
<1>34. ASSUME NEW w \in Workers, LockCycle(w) PROVE PlanBehindEffect'
  BY <1>34 DEF LockCycle, Raise, Goto, Leave, Forget
<1> QED
  BY <1>1, <1>2, <1>3, <1>4, <1>5, <1>6, <1>7, <1>8, <1>9, <1>10, <1>11, <1>12, <1>13, <1>14,
     <1>15, <1>16, <1>17, <1>18, <1>19, <1>20, <1>21, <1>22, <1>23, <1>24, <1>25, <1>26, <1>27,
     <1>28, <1>29, <1>30, <1>31, <1>32, <1>33, <1>34 DEF Next, Drive

\* Only the commit applies edits, of a run that it takes from running to succeeded
\* (_commit).
LEMMA CommitKept == ActionInv /\ CommittedOnce /\ Next => CommittedOnce'
<1> SUFFICES ASSUME ActionInv /\ CommittedOnce, Next PROVE CommittedOnce'
  OBVIOUS
<1> USE ActionConstants DEF ActionInv, CommittedOnce, TypeOK, Terminal, runVars
<1>1. CASE CreateRun
  BY <1>1 DEF CreateRun
<1>2. CASE RequestCancel
  BY <1>2 DEF RequestCancel
<1>3. CASE CancelArrives
  BY <1>3 DEF CancelArrives
<1>4. CASE CancelIsLost
  BY <1>4 DEF CancelIsLost
<1>5. CASE RecoverCancellation
  BY <1>5 DEF RecoverCancellation, CancelRun
<1>6. CASE LeaseExpires
  BY <1>6 DEF LeaseExpires
<1>7. CASE RetryDue
  BY <1>7 DEF RetryDue
<1>8. CASE ReceiptLeaseExpires
  BY <1>8 DEF ReceiptLeaseExpires
<1>9. CASE DeliveryTimesOut
  BY <1>9 DEF DeliveryTimesOut
<1>10. ASSUME NEW c \in Callers, DispatchRead(c) PROVE CommittedOnce'
  BY <1>10 DEF DispatchRead
<1>11. ASSUME NEW c \in Callers, DispatchCall(c) PROVE CommittedOnce'
  BY <1>11 DEF DispatchCall
<1>12. ASSUME NEW c \in Callers, DispatchRecord(c) PROVE CommittedOnce'
  BY <1>12 DEF DispatchRecord
<1>13. ASSUME NEW c \in Callers, DispatchDies(c) PROVE CommittedOnce'
  BY <1>13 DEF DispatchDies
<1>14. ASSUME NEW w \in Workers, Deliver(w) PROVE CommittedOnce'
  BY <1>14 DEF Deliver
<1>15. ASSUME NEW w \in Workers, WorkerDies(w) PROVE CommittedOnce'
  BY <1>15 DEF WorkerDies
<1>16. ASSUME NEW w \in Workers, Load(w) PROVE CommittedOnce'
  BY <1>16 DEF Load
<1>17. ASSUME NEW w \in Workers, Claim(w) PROVE CommittedOnce'
  BY <1>17 DEF Claim, RunOnClaim
<1>18. ASSUME NEW w \in Workers, NotClaimed(w) PROVE CommittedOnce'
  BY <1>18 DEF NotClaimed
<1>19. ASSUME NEW w \in Workers, ResolveUnclaimed(w) PROVE CommittedOnce'
  BY <1>19 DEF ResolveUnclaimed
<1>20. ASSUME NEW w \in Workers, PrepareBefore(w) PROVE CommittedOnce'
  BY <1>20 DEF PrepareBefore
<1>21. ASSUME NEW w \in Workers, ResumeBefore(w) PROVE CommittedOnce'
  BY <1>21 DEF ResumeBefore
<1>22. ASSUME NEW w \in Workers, DispatchBefore(w) PROVE CommittedOnce'
  BY <1>22 DEF DispatchBefore
<1>23. ASSUME NEW w \in Workers, ProviderAnswers(w) PROVE CommittedOnce'
  BY <1>23 DEF ProviderAnswers
<1>24. ASSUME NEW w \in Workers, CloseBefore(w) PROVE CommittedOnce'
  BY <1>24 DEF CloseBefore
<1>25. ASSUME NEW w \in Workers, ExecutePlan(w) PROVE CommittedOnce'
  BY <1>25 DEF ExecutePlan
<1>26. ASSUME NEW w \in Workers, LeaseLost(w) PROVE CommittedOnce'
  BY <1>26 DEF LeaseLost
<1>27. ASSUME NEW w \in Workers, CommitCancels(w) PROVE CommittedOnce'
  BY <1>27 DEF CommitCancels, CancelClaimed
<1>28. ASSUME NEW w \in Workers, Commit(w) PROVE CommittedOnce'
  BY <1>28 DEF Commit, CommitGoesThrough
<1>29. ASSUME NEW w \in Workers, CommitFails(w) PROVE CommittedOnce'
  BY <1>29 DEF CommitFails
<1>30. ASSUME NEW w \in Workers, FailureRead(w) PROVE CommittedOnce'
  BY <1>30 DEF FailureRead
<1>31. ASSUME NEW w \in Workers, PersistFailure(w) PROVE CommittedOnce'
  BY <1>31 DEF PersistFailure, Verdict
<1>32. ASSUME NEW w \in Workers, FailureCancels(w) PROVE CommittedOnce'
  BY <1>32 DEF FailureCancels
<1>33. ASSUME NEW w \in Workers, FinalizeCancellation(w) PROVE CommittedOnce'
  BY <1>33 DEF FinalizeCancellation, CancelRun
<1>34. ASSUME NEW w \in Workers, LockCycle(w) PROVE CommittedOnce'
  BY <1>34 DEF LockCycle
<1> QED
  BY <1>1, <1>2, <1>3, <1>4, <1>5, <1>6, <1>7, <1>8, <1>9, <1>10, <1>11, <1>12, <1>13, <1>14,
     <1>15, <1>16, <1>17, <1>18, <1>19, <1>20, <1>21, <1>22, <1>23, <1>24, <1>25, <1>26, <1>27,
     <1>28, <1>29, <1>30, <1>31, <1>32, <1>33, <1>34 DEF Next, Drive

-----------------------------------------------------------------------------
(* What single steps may do *)

\* Each action moves the run's status as transition_run allows.
LEMMA StatusSteps == RunTypes /\ Next => StatusStep
<1> SUFFICES ASSUME RunTypes, Next PROVE StatusStep
  OBVIOUS
<1> USE ActionConstants DEF StatusStep, RunTypes, RunStatuses, Terminal, runVars
<1>1. CASE CreateRun
  BY <1>1 DEF CreateRun
<1>2. CASE RequestCancel
  BY <1>2 DEF RequestCancel
<1>3. CASE CancelArrives
  BY <1>3 DEF CancelArrives
<1>4. CASE CancelIsLost
  BY <1>4 DEF CancelIsLost
<1>5. CASE RecoverCancellation
  BY <1>5 DEF RecoverCancellation, CancelRun
<1>6. CASE LeaseExpires
  BY <1>6 DEF LeaseExpires
<1>7. CASE RetryDue
  BY <1>7 DEF RetryDue
<1>8. CASE ReceiptLeaseExpires
  BY <1>8 DEF ReceiptLeaseExpires
<1>9. CASE DeliveryTimesOut
  BY <1>9 DEF DeliveryTimesOut
<1>10. ASSUME NEW c \in Callers, DispatchRead(c) PROVE StatusStep
  BY <1>10 DEF DispatchRead
<1>11. ASSUME NEW c \in Callers, DispatchCall(c) PROVE StatusStep
  BY <1>11 DEF DispatchCall
<1>12. ASSUME NEW c \in Callers, DispatchRecord(c) PROVE StatusStep
  BY <1>12 DEF DispatchRecord
<1>13. ASSUME NEW c \in Callers, DispatchDies(c) PROVE StatusStep
  BY <1>13 DEF DispatchDies
<1>14. ASSUME NEW w \in Workers, Deliver(w) PROVE StatusStep
  BY <1>14 DEF Deliver
<1>15. ASSUME NEW w \in Workers, WorkerDies(w) PROVE StatusStep
  BY <1>15 DEF WorkerDies
<1>16. ASSUME NEW w \in Workers, Load(w) PROVE StatusStep
  BY <1>16 DEF Load
<1>17. ASSUME NEW w \in Workers, Claim(w) PROVE StatusStep
  BY <1>17 DEF Claim, RunOnClaim
<1>18. ASSUME NEW w \in Workers, NotClaimed(w) PROVE StatusStep
  BY <1>18 DEF NotClaimed
<1>19. ASSUME NEW w \in Workers, ResolveUnclaimed(w) PROVE StatusStep
  BY <1>19 DEF ResolveUnclaimed
<1>20. ASSUME NEW w \in Workers, PrepareBefore(w) PROVE StatusStep
  BY <1>20 DEF PrepareBefore
<1>21. ASSUME NEW w \in Workers, ResumeBefore(w) PROVE StatusStep
  BY <1>21 DEF ResumeBefore
<1>22. ASSUME NEW w \in Workers, DispatchBefore(w) PROVE StatusStep
  BY <1>22 DEF DispatchBefore
<1>23. ASSUME NEW w \in Workers, ProviderAnswers(w) PROVE StatusStep
  BY <1>23 DEF ProviderAnswers
<1>24. ASSUME NEW w \in Workers, CloseBefore(w) PROVE StatusStep
  BY <1>24 DEF CloseBefore
<1>25. ASSUME NEW w \in Workers, ExecutePlan(w) PROVE StatusStep
  BY <1>25 DEF ExecutePlan
<1>26. ASSUME NEW w \in Workers, LeaseLost(w) PROVE StatusStep
  BY <1>26 DEF LeaseLost
<1>27. ASSUME NEW w \in Workers, CommitCancels(w) PROVE StatusStep
  BY <1>27 DEF CommitCancels, CancelClaimed
<1>28. ASSUME NEW w \in Workers, Commit(w) PROVE StatusStep
  BY <1>28 DEF Commit, CommitGoesThrough
<1>29. ASSUME NEW w \in Workers, CommitFails(w) PROVE StatusStep
  BY <1>29 DEF CommitFails
<1>30. ASSUME NEW w \in Workers, FailureRead(w) PROVE StatusStep
  BY <1>30 DEF FailureRead
<1>31. ASSUME NEW w \in Workers, PersistFailure(w) PROVE StatusStep
  BY <1>31 DEF PersistFailure, Verdict
<1>32. ASSUME NEW w \in Workers, FailureCancels(w) PROVE StatusStep
  BY <1>32 DEF FailureCancels
<1>33. ASSUME NEW w \in Workers, FinalizeCancellation(w) PROVE StatusStep
  BY <1>33 DEF FinalizeCancellation, CancelRun
<1>34. ASSUME NEW w \in Workers, LockCycle(w) PROVE StatusStep
  BY <1>34 DEF LockCycle
<1> QED
  BY <1>1, <1>2, <1>3, <1>4, <1>5, <1>6, <1>7, <1>8, <1>9, <1>10, <1>11, <1>12, <1>13, <1>14,
     <1>15, <1>16, <1>17, <1>18, <1>19, <1>20, <1>21, <1>22, <1>23, <1>24, <1>25, <1>26, <1>27,
     <1>28, <1>29, <1>30, <1>31, <1>32, <1>33, <1>34 DEF Next, Drive

\* Only the commit applies edits, and the contract stays.
LEMMA EditSteps == Next => EditStep
<1> SUFFICES ASSUME Next PROVE EditStep
  OBVIOUS
<1> USE ActionConstants DEF EditStep, runVars, boundVars, setting
<1>1. CASE CreateRun
  BY <1>1 DEF CreateRun
<1>2. CASE RequestCancel
  BY <1>2 DEF RequestCancel
<1>3. CASE CancelArrives
  BY <1>3 DEF CancelArrives
<1>4. CASE CancelIsLost
  BY <1>4 DEF CancelIsLost
<1>5. CASE RecoverCancellation
  BY <1>5 DEF RecoverCancellation, CancelRun
<1>6. CASE LeaseExpires
  BY <1>6 DEF LeaseExpires
<1>7. CASE RetryDue
  BY <1>7 DEF RetryDue
<1>8. CASE ReceiptLeaseExpires
  BY <1>8 DEF ReceiptLeaseExpires
<1>9. CASE DeliveryTimesOut
  BY <1>9 DEF DeliveryTimesOut
<1>10. ASSUME NEW c \in Callers, DispatchRead(c) PROVE EditStep
  BY <1>10 DEF DispatchRead
<1>11. ASSUME NEW c \in Callers, DispatchCall(c) PROVE EditStep
  BY <1>11 DEF DispatchCall
<1>12. ASSUME NEW c \in Callers, DispatchRecord(c) PROVE EditStep
  BY <1>12 DEF DispatchRecord
<1>13. ASSUME NEW c \in Callers, DispatchDies(c) PROVE EditStep
  BY <1>13 DEF DispatchDies
<1>14. ASSUME NEW w \in Workers, Deliver(w) PROVE EditStep
  BY <1>14 DEF Deliver
<1>15. ASSUME NEW w \in Workers, WorkerDies(w) PROVE EditStep
  BY <1>15 DEF WorkerDies
<1>16. ASSUME NEW w \in Workers, Load(w) PROVE EditStep
  BY <1>16 DEF Load
<1>17. ASSUME NEW w \in Workers, Claim(w) PROVE EditStep
  BY <1>17 DEF Claim
<1>18. ASSUME NEW w \in Workers, NotClaimed(w) PROVE EditStep
  BY <1>18 DEF NotClaimed
<1>19. ASSUME NEW w \in Workers, ResolveUnclaimed(w) PROVE EditStep
  BY <1>19 DEF ResolveUnclaimed
<1>20. ASSUME NEW w \in Workers, PrepareBefore(w) PROVE EditStep
  BY <1>20 DEF PrepareBefore
<1>21. ASSUME NEW w \in Workers, ResumeBefore(w) PROVE EditStep
  BY <1>21 DEF ResumeBefore
<1>22. ASSUME NEW w \in Workers, DispatchBefore(w) PROVE EditStep
  BY <1>22 DEF DispatchBefore
<1>23. ASSUME NEW w \in Workers, ProviderAnswers(w) PROVE EditStep
  BY <1>23 DEF ProviderAnswers
<1>24. ASSUME NEW w \in Workers, CloseBefore(w) PROVE EditStep
  BY <1>24 DEF CloseBefore
<1>25. ASSUME NEW w \in Workers, ExecutePlan(w) PROVE EditStep
  BY <1>25 DEF ExecutePlan
<1>26. ASSUME NEW w \in Workers, LeaseLost(w) PROVE EditStep
  BY <1>26 DEF LeaseLost
<1>27. ASSUME NEW w \in Workers, CommitCancels(w) PROVE EditStep
  BY <1>27 DEF CommitCancels, CancelClaimed
<1>28. ASSUME NEW w \in Workers, Commit(w) PROVE EditStep
  BY <1>28 DEF Commit
<1>29. ASSUME NEW w \in Workers, CommitFails(w) PROVE EditStep
  BY <1>29 DEF CommitFails
<1>30. ASSUME NEW w \in Workers, FailureRead(w) PROVE EditStep
  BY <1>30 DEF FailureRead
<1>31. ASSUME NEW w \in Workers, PersistFailure(w) PROVE EditStep
  BY <1>31 DEF PersistFailure
<1>32. ASSUME NEW w \in Workers, FailureCancels(w) PROVE EditStep
  BY <1>32 DEF FailureCancels
<1>33. ASSUME NEW w \in Workers, FinalizeCancellation(w) PROVE EditStep
  BY <1>33 DEF FinalizeCancellation, CancelRun
<1>34. ASSUME NEW w \in Workers, LockCycle(w) PROVE EditStep
  BY <1>34 DEF LockCycle
<1> QED
  BY <1>1, <1>2, <1>3, <1>4, <1>5, <1>6, <1>7, <1>8, <1>9, <1>10, <1>11, <1>12, <1>13, <1>14,
     <1>15, <1>16, <1>17, <1>18, <1>19, <1>20, <1>21, <1>22, <1>23, <1>24, <1>25, <1>26, <1>27,
     <1>28, <1>29, <1>30, <1>31, <1>32, <1>33, <1>34 DEF Next, Drive

\* A receipt that says succeeded goes on saying so (complete_effect_receipt).
LEMMA ReceiptSteps == receipt \in Receipts /\ Next => ReceiptStep
<1> SUFFICES ASSUME receipt \in Receipts, Next PROVE ReceiptStep
  OBVIOUS
<1> USE ActionConstants DEF ReceiptStep, Receipts, effectVars
<1>1. CASE CreateRun
  BY <1>1 DEF CreateRun
<1>2. CASE RequestCancel
  BY <1>2 DEF RequestCancel
<1>3. CASE CancelArrives
  BY <1>3 DEF CancelArrives
<1>4. CASE CancelIsLost
  BY <1>4 DEF CancelIsLost
<1>5. CASE RecoverCancellation
  BY <1>5 DEF RecoverCancellation
<1>6. CASE LeaseExpires
  BY <1>6 DEF LeaseExpires
<1>7. CASE RetryDue
  BY <1>7 DEF RetryDue
<1>8. CASE ReceiptLeaseExpires
  BY <1>8 DEF ReceiptLeaseExpires
<1>9. CASE DeliveryTimesOut
  BY <1>9 DEF DeliveryTimesOut
<1>10. ASSUME NEW c \in Callers, DispatchRead(c) PROVE ReceiptStep
  BY <1>10 DEF DispatchRead
<1>11. ASSUME NEW c \in Callers, DispatchCall(c) PROVE ReceiptStep
  BY <1>11 DEF DispatchCall
<1>12. ASSUME NEW c \in Callers, DispatchRecord(c) PROVE ReceiptStep
  BY <1>12 DEF DispatchRecord
<1>13. ASSUME NEW c \in Callers, DispatchDies(c) PROVE ReceiptStep
  BY <1>13 DEF DispatchDies
<1>14. ASSUME NEW w \in Workers, Deliver(w) PROVE ReceiptStep
  BY <1>14 DEF Deliver
<1>15. ASSUME NEW w \in Workers, WorkerDies(w) PROVE ReceiptStep
  BY <1>15 DEF WorkerDies
<1>16. ASSUME NEW w \in Workers, Load(w) PROVE ReceiptStep
  BY <1>16 DEF Load
<1>17. ASSUME NEW w \in Workers, Claim(w) PROVE ReceiptStep
  BY <1>17 DEF Claim
<1>18. ASSUME NEW w \in Workers, NotClaimed(w) PROVE ReceiptStep
  BY <1>18 DEF NotClaimed
<1>19. ASSUME NEW w \in Workers, ResolveUnclaimed(w) PROVE ReceiptStep
  BY <1>19 DEF ResolveUnclaimed
<1>20. ASSUME NEW w \in Workers, PrepareBefore(w) PROVE ReceiptStep
  BY <1>20 DEF PrepareBefore
<1>21. ASSUME NEW w \in Workers, ResumeBefore(w) PROVE ReceiptStep
  BY <1>21 DEF ResumeBefore, Reclaimable
<1>22. ASSUME NEW w \in Workers, DispatchBefore(w) PROVE ReceiptStep
  BY <1>22 DEF DispatchBefore, MayDispatch, HoldsReceipt
<1>23. ASSUME NEW w \in Workers, ProviderAnswers(w) PROVE ReceiptStep
  BY <1>23 DEF ProviderAnswers
<1>24. ASSUME NEW w \in Workers, CloseBefore(w) PROVE ReceiptStep
  BY <1>24 DEF CloseBefore, CloseGoesThrough, HoldsReceipt
<1>25. ASSUME NEW w \in Workers, ExecutePlan(w) PROVE ReceiptStep
  BY <1>25 DEF ExecutePlan
<1>26. ASSUME NEW w \in Workers, LeaseLost(w) PROVE ReceiptStep
  BY <1>26 DEF LeaseLost
<1>27. ASSUME NEW w \in Workers, CommitCancels(w) PROVE ReceiptStep
  BY <1>27 DEF CommitCancels
<1>28. ASSUME NEW w \in Workers, Commit(w) PROVE ReceiptStep
  BY <1>28 DEF Commit
<1>29. ASSUME NEW w \in Workers, CommitFails(w) PROVE ReceiptStep
  BY <1>29 DEF CommitFails
<1>30. ASSUME NEW w \in Workers, FailureRead(w) PROVE ReceiptStep
  BY <1>30 DEF FailureRead
<1>31. ASSUME NEW w \in Workers, PersistFailure(w) PROVE ReceiptStep
  BY <1>31 DEF PersistFailure
<1>32. ASSUME NEW w \in Workers, FailureCancels(w) PROVE ReceiptStep
  BY <1>32 DEF FailureCancels
<1>33. ASSUME NEW w \in Workers, FinalizeCancellation(w) PROVE ReceiptStep
  BY <1>33 DEF FinalizeCancellation
<1>34. ASSUME NEW w \in Workers, LockCycle(w) PROVE ReceiptStep
  BY <1>34 DEF LockCycle
<1> QED
  BY <1>1, <1>2, <1>3, <1>4, <1>5, <1>6, <1>7, <1>8, <1>9, <1>10, <1>11, <1>12, <1>13, <1>14,
     <1>15, <1>16, <1>17, <1>18, <1>19, <1>20, <1>21, <1>22, <1>23, <1>24, <1>25, <1>26, <1>27,
     <1>28, <1>29, <1>30, <1>31, <1>32, <1>33, <1>34 DEF Next, Drive

-----------------------------------------------------------------------------
(* Every step, and the theorems *)

\* A step that changes nothing keeps everything.
LEMMA StutterKeeps == ActionInv /\ CommittedOnce /\ UNCHANGED vars => (ActionInv /\ CommittedOnce)'
<1> SUFFICES ASSUME ActionInv, CommittedOnce, UNCHANGED vars PROVE (ActionInv /\ CommittedOnce)'
  OBVIOUS
<1> USE DEF vars, runVars, effectVars, flowVars, localVars, callVars, setting, boundVars
<1>1. TypeOK'
  BY DEF ActionInv, TypeOK
<1>2. StepFollowsRun' /\ AttemptsAreOwned'
  BY DEF ActionInv, StepFollowsRun, AttemptsAreOwned
<1>3. CallIsFenced' /\ PlanBehindEffect' /\ CommittedOnce'
  BY DEF ActionInv, CallIsFenced, PlanBehindEffect, CommittedOnce
<1> QED
  BY <1>1, <1>2, <1>3 DEF ActionInv

\* Every step of a worker, a caller, the workflow or the control worker keeps
\* the rows of the run and the receipt in agreement, and the edits single.
LEMMA StepKeeps == ActionInv /\ CommittedOnce /\ [Next]_vars => (ActionInv /\ CommittedOnce)'
<1>1. ActionInv /\ Next => TypeOK'
  BY RunTypesKept, AttTypesKept, EffectTypesKept, FlowTypesKept, WorkerTypesKept, TypesAreParts
  DEF ActionInv, TypeOK, RunTypes, AttTypes, EffectTypes, FlowTypes, WorkerTypes
<1> QED
  BY <1>1, StepFollows, OwnersKept, FenceKept, PlanKept, CommitKept, StutterKeeps DEF ActionInv

\* For any number of workers, callers, attempts, deliveries and mishaps, the
\* run, its step, its latest attempt and the receipt of its effect agree with
\* each other and with what every worker holds (_commit, _persist_failure, the
\* cancellation, complete_effect_receipt).
THEOREM RowsOfARunAgree == Spec => []ActionInv
<1>1. Spec => [](ActionInv /\ CommittedOnce)
  BY InitHolds, StepKeeps, PTL DEF Spec
<1> QED
  BY <1>1, PTL

\* However many workers were presumed dead and came back, a run applied its
\* edits exactly once if it says succeeded and not at all otherwise (_commit).
THEOREM EditsApplyOnce == Spec => []CommittedOnce
<1>1. Spec => [](ActionInv /\ CommittedOnce)
  BY InitHolds, StepKeeps, PTL DEF Spec
<1> QED
  BY <1>1, PTL

\* The provider of a before-commit effect is called at most once however often
\* the run is delivered, resumed and taken over (start_effect_dispatch).
THEOREM EffectIsSentOnce == Spec => []SentOnce
<1>1. ActionInv => SentOnce
  BY DEF ActionInv, CallIsFenced, SentOnce
<1> QED
  BY <1>1, RowsOfARunAgree, PTL

\* Applied edits stand behind an effect that was carried out and whose receipt
\* says so.  Not inductive in itself: the commit relies on PlanBehindEffect, and
\* that on what an answer in a worker's hands means (execute_before).
LEMMA EffectBeforeEdits ==
  ActionInv /\ CommittedOnce /\ CommitAfterEffect /\ [Next]_vars => CommitAfterEffect'
<1> SUFFICES ASSUME ActionInv, CommittedOnce, CommitAfterEffect, [Next]_vars,
                    before', edits' = 1
             PROVE  landed' = 1 /\ receipt'.status = "succeeded"
  BY DEF CommitAfterEffect
<1> USE DEF runVars, effectVars, flowVars, localVars, callVars, setting, boundVars
<1>1. ActionInv' /\ CallIsFenced'
  BY StepKeeps DEF ActionInv
<1>2. receipt.status = "succeeded" => receipt'.status = "succeeded"
  BY ReceiptSteps DEF ReceiptStep, ActionInv, TypeOK, vars
<1>3. before' = before
  BY EditSteps DEF EditStep, vars
<1>4. edits = 1 \/ \E w \in Workers : Commit(w)
  BY EditSteps DEF EditStep, vars
<1>5. receipt'.status = "succeeded"
  <2>1. CASE edits = 1
    BY <1>2, <1>3, <2>1 DEF CommitAfterEffect
  <2>2. ASSUME NEW w \in Workers, Commit(w) PROVE receipt'.status = "succeeded"
    <3>1. receipt.status = "succeeded"
      BY <1>3, <2>2 DEF Commit, ActionInv, PlanBehindEffect
    <3> QED
      BY <1>2, <3>1
  <2> QED
    BY <1>4, <2>1, <2>2
<1> QED
  BY <1>1, <1>5 DEF CallIsFenced

\* Edits are committed only behind an effect that was carried out and whose
\* receipt says so (execute_before: "exactly once or fail closed").
THEOREM EditsStandBehindTheEffect == Spec => []CommitAfterEffect
<1>1. Init => CommitAfterEffect
  BY DEF Init, CommitAfterEffect
<1>2. Spec => [](ActionInv /\ CommittedOnce)
  BY InitHolds, StepKeeps, PTL DEF Spec
<1> QED
  BY <1>1, <1>2, EffectBeforeEdits, PTL DEF Spec

\* A terminal status of the run is never left, and a cancelling run ends as
\* cancelled or failed, never as a success (transition_run).
THEOREM StatusMovesForward == Spec => StatusForward
<1>1. TypeOK /\ [Next]_vars =>
        [/\ status \in Terminal => status' = status
         /\ status = "cancelling" => status' \in {"cancelling", "cancelled", "failed"}]_vars
  BY StatusSteps, TypesAreParts DEF StatusStep, Terminal
<1>2. ActionInv => TypeOK
  BY DEF ActionInv
<1> QED
  BY <1>1, <1>2, RowsOfARunAgree, PTL DEF Spec, StatusForward
=============================================================================
