------------------------ MODULE ActionEffectsProofs ------------------------
(***************************************************************************)
(* Theorems about ActionEffects: for any number of worker threads, attempts *)
(* and failures, at most one call to a webhook is ever in doubt, and the   *)
(* recorded outcome of a delivery is true.                                 *)
(***************************************************************************)
EXTENDS ActionEffects, FiniteSetTheorems, TLAPS

Settled == {"pending", "retry_wait", "dead_letter", "cancelled"}

-----------------------------------------------------------------------------
(* Types and names of claims *)

\* The receipt that the Action's commit inserted.
LEMMA InitHolds == Init => EffectInv
<1> SUFFICES ASSUME Init PROVE EffectInv
  OBVIOUS
<1>1. TypeOK
  <2>1. NoRow \in [fence : Fences, attempts : Nat, max : Nat]
    BY EffectAssumption DEF NoRow, Fences
  <2>2. pc \in [Workers -> Steps] /\ outcome \in [Workers -> Statuses]
    BY DEF Init, Open, Statuses, Steps
  <2>3. row \in [Workers -> [fence : Fences, attempts : Nat, max : Nat]]
    BY <2>1 DEF Init
  <2>4. 0 \in Fences /\ 0 \in 0 .. maxAttempts /\ maxAttempts \in 1 .. MaxAttempts + MaxRetries
    BY EffectAssumption DEF Init, Fences
  <2>5. retries \in 0 .. MaxRetries /\ crashes \in 0 .. MaxCrashes /\ stalls \in 0 .. MaxStalls
    BY EffectAssumption DEF Init
  <2> QED
    BY <2>2, <2>3, <2>4, <2>5 DEF Init, TypeOK, Open, Statuses
<1>2. Doubt = {}
  BY DEF Init, Doubt
<1> QED
  BY <1>1, <1>2, EffectAssumption DEF Init, EffectInv, ClaimsAreNamed, DoubtIsSealed, OutcomeIsTrue

\* Rows, workers and calls stay within their types.
LEMMA TypesKept == EffectInv /\ Next => TypeOK'
<1> SUFFICES ASSUME EffectInv, Next PROVE TypeOK'
  OBVIOUS
<1> USE EffectAssumption DEF EffectInv, TypeOK, ClaimsAreNamed, Open, Statuses, Steps, NoRow, Fences,
        callVars, targetVars, boundVars, receiptVars, workerVars
<1>1. ASSUME NEW w \in Workers, Claim(w) PROVE TypeOK'
  <2>1. fence + 1 \in Fences /\ attempts + 1 \in 0 .. maxAttempts
    BY <1>1 DEF Claim, Claimable
  <2>2. row' \in [Workers -> [fence : Fences, attempts : Nat, max : Nat]]
    <3>1. [fence |-> fence + 1, attempts |-> attempts + 1, max |-> maxAttempts]
            \in [fence : Fences, attempts : Nat, max : Nat]
      BY <2>1
    <3> QED
      BY <1>1, <3>1 DEF Claim
  <2>3. pc' \in [Workers -> Steps] /\ outcome' \in [Workers -> Statuses]
    BY <1>1 DEF Claim, AfterClaim, Go
  <2> QED
    BY <1>1, <2>1, <2>2, <2>3 DEF Claim
<1>2. ASSUME NEW w \in Workers, Authorize(w) PROVE TypeOK'
  <2>1. pc' \in [Workers -> Steps] /\ outcome' \in [Workers -> Statuses] /\ row' = row
    BY <1>2 DEF Authorize, Go, WillRecord
  <2> QED
    BY <1>2, <2>1 DEF Authorize
<1>3. ASSUME NEW w \in Workers, StartDispatch(w) PROVE TypeOK'
  <2>1. pc' \in [Workers -> Steps] /\ outcome' \in [Workers -> Statuses]
    BY <1>3 DEF StartDispatch, Go, WillRecord, Leave
  <2>2. row' \in [Workers -> [fence : Fences, attempts : Nat, max : Nat]]
    BY <1>3 DEF StartDispatch, Go, WillRecord, Leave
  <2>3. dispatched' \in BOOLEAN
    BY <1>3 DEF StartDispatch
  <2> QED
    BY <1>3, <2>1, <2>2, <2>3 DEF StartDispatch
<1>4. ASSUME NEW w \in Workers, Send(w) PROVE TypeOK'
  BY <1>4 DEF Send, Go
<1>5. ASSUME NEW w \in Workers, Answers(w) PROVE TypeOK'
  BY <1>5 DEF Answers, StreamAnswers, WebhookAnswers, WillRecord, Go
<1>6. ASSUME NEW w \in Workers, ReadFailure(w) PROVE TypeOK'
  BY <1>6 DEF ReadFailure, FailureStatus, WillRecord, Go
<1>7. ASSUME NEW w \in Workers, Record(w) PROVE TypeOK'
  <2>1. pc' \in [Workers -> Steps] /\ outcome' \in [Workers -> Statuses]
    BY <1>7 DEF Record, Go, Leave
  <2>2. row' \in [Workers -> [fence : Fences, attempts : Nat, max : Nat]]
    BY <1>7 DEF Record, Leave
  <2>3. dispatched' \in BOOLEAN /\ suppressed' \in BOOLEAN
    BY <1>7, Zenon DEF Record
  <2>4. status' \in Statuses
    BY <1>7 DEF Record
  <2> QED
    BY <1>7, <2>1, <2>2, <2>3, <2>4 DEF Record
<1>8. ASSUME NEW w \in Workers, Crash(w) PROVE TypeOK'
  BY <1>8 DEF Crash, Leave, Go
<1>9. ASSUME NEW f \in flight, Lands(f) PROVE TypeOK'
  BY <1>9 DEF Lands
<1>10. CASE RequestCancel
  BY <1>10 DEF RequestCancel, CancelReceipt
<1>11. CASE Retry
  <2>1. maxAttempts' \in 1 .. MaxAttempts + MaxRetries /\ attempts' \in 0 .. maxAttempts'
    BY <1>11 DEF Retry
  <2>2. retries' \in 0 .. MaxRetries
    BY <1>11 DEF Retry
  <2> QED
    BY <1>11, <2>1, <2>2 DEF Retry
<1>12. CASE Reconcile
  BY <1>12 DEF Reconcile
<1>13. CASE LeaseExpires
  BY <1>13 DEF LeaseExpires
<1>14. CASE RetryDue
  BY <1>14 DEF RetryDue
<1> QED
  BY <1>1, <1>2, <1>3, <1>4, <1>5, <1>6, <1>7, <1>8, <1>9, <1>10, <1>11, <1>12, <1>13, <1>14
  DEF Next, Deliver

\* A claim takes the next token, so two claims never share one (_claim).
LEMMA NamesKept == EffectInv /\ Next => ClaimsAreNamed'
<1> SUFFICES ASSUME EffectInv, Next PROVE ClaimsAreNamed'
  OBVIOUS
<1> USE EffectAssumption DEF EffectInv, TypeOK, ClaimsAreNamed, Open, Statuses, Fences,
        callVars, targetVars, boundVars, receiptVars, workerVars
<1>1. ASSUME NEW w \in Workers, Claim(w) PROVE ClaimsAreNamed'
  BY <1>1 DEF Claim, Claimable, AfterClaim, Go
<1>2. ASSUME NEW w \in Workers, Authorize(w) PROVE ClaimsAreNamed'
  BY <1>2 DEF Authorize, Go, WillRecord
<1>3. ASSUME NEW w \in Workers, StartDispatch(w) PROVE ClaimsAreNamed'
  BY <1>3 DEF StartDispatch, Go, WillRecord, Leave
<1>4. ASSUME NEW w \in Workers, Send(w) PROVE ClaimsAreNamed'
  BY <1>4 DEF Send, Go
<1>5. ASSUME NEW w \in Workers, Answers(w) PROVE ClaimsAreNamed'
  BY <1>5 DEF Answers, StreamAnswers, WebhookAnswers, WillRecord, Go
<1>6. ASSUME NEW w \in Workers, ReadFailure(w) PROVE ClaimsAreNamed'
  BY <1>6 DEF ReadFailure, FailureStatus, WillRecord, Go
<1>7. ASSUME NEW w \in Workers, Record(w) PROVE ClaimsAreNamed'
  BY <1>7 DEF Record, Completes, Leave, Go
<1>8. ASSUME NEW w \in Workers, Crash(w) PROVE ClaimsAreNamed'
  BY <1>8 DEF Crash, Leave, Go
<1>9. ASSUME NEW f \in flight, Lands(f) PROVE ClaimsAreNamed'
  BY <1>9 DEF Lands
<1>10. CASE RequestCancel
  BY <1>10 DEF RequestCancel, CancelReceipt
<1>11. CASE Retry
  BY <1>11 DEF Retry, Retryable
<1>12. CASE Reconcile
  BY <1>12 DEF Reconcile
<1>13. CASE LeaseExpires
  BY <1>13 DEF LeaseExpires
<1>14. CASE RetryDue
  BY <1>14 DEF RetryDue
<1> QED
  BY <1>1, <1>2, <1>3, <1>4, <1>5, <1>6, <1>7, <1>8, <1>9, <1>10, <1>11, <1>12, <1>13, <1>14
  DEF Next, Deliver

-----------------------------------------------------------------------------
(* Doubt *)

\* What it takes to be in doubt.
LEMMA InDoubt ==
  \A f : f \in Doubt <=>
        f \in unsure \/ \E w \in Workers : pc[w] = "send" /\ row[w].fence = f /\ f \notin 1 .. vouched
  BY DEF Doubt

\* The same of the next state.
LEMMA InDoubtNext ==
  \A f : f \in Doubt' <=>
        f \in unsure' \/ \E w \in Workers : pc'[w] = "send" /\ row'[w].fence = f /\ f \notin 1 .. vouched'
  BY DEF Doubt

\* An operator's word covers every dispatch sealed so far.
LEMMA VouchedForAll ==
  ASSUME EffectInv, UNCHANGED <<pc, row>>, unsure' = {}, vouched' = fence
  PROVE  Doubt' = {}
<1>1. ASSUME NEW w \in Workers, pc'[w] = "send" PROVE row'[w].fence \in 1 .. vouched'
  BY <1>1 DEF EffectInv, ClaimsAreNamed
<1> QED
  BY <1>1, InDoubtNext

\* Only the seal of a dispatch puts a call in doubt.
LEMMA NoNewDoubt ==
  ASSUME EffectInv, Next
  PROVE  Doubt' \subseteq Doubt \/ \E w \in Workers : StartDispatch(w)
<1> USE EffectAssumption, InDoubt, InDoubtNext DEF EffectInv, TypeOK, ClaimsAreNamed, Fences,
        callVars, targetVars, boundVars, receiptVars, workerVars
<1>1. ASSUME NEW w \in Workers, Claim(w) PROVE Doubt' \subseteq Doubt
  BY <1>1 DEF Claim, AfterClaim, Go
<1>2. ASSUME NEW w \in Workers, Authorize(w) PROVE Doubt' \subseteq Doubt
  BY <1>2 DEF Authorize, Go, WillRecord
<1>4. ASSUME NEW w \in Workers, Send(w) PROVE Doubt' \subseteq Doubt
  BY <1>4 DEF Send, Go
<1>5. ASSUME NEW w \in Workers, Answers(w) PROVE Doubt' \subseteq Doubt
  BY <1>5 DEF Answers, StreamAnswers, WebhookAnswers, WillRecord, Go
<1>6. ASSUME NEW w \in Workers, ReadFailure(w) PROVE Doubt' \subseteq Doubt
  BY <1>6 DEF ReadFailure, WillRecord, Go
<1>7. ASSUME NEW w \in Workers, Record(w) PROVE Doubt' \subseteq Doubt
  BY <1>7 DEF Record, Leave, Go
<1>8. ASSUME NEW w \in Workers, Crash(w) PROVE Doubt' \subseteq Doubt
  BY <1>8 DEF Crash, Leave, Go
<1>9. ASSUME NEW f \in flight, Lands(f) PROVE Doubt' \subseteq Doubt
  BY <1>9 DEF Lands
<1>10. CASE RequestCancel
  BY <1>10 DEF RequestCancel
<1>11. CASE Retry
  BY <1>11 DEF Retry
<1>12. CASE Reconcile
  <2>1. CASE UNCHANGED <<unsure, vouched>>
    BY <1>12, <2>1 DEF Reconcile
  <2>2. CASE unsure' = {} /\ vouched' = fence
    BY <1>12, <2>2, VouchedForAll DEF Reconcile
  <2> QED
    BY <1>12, <2>1, <2>2 DEF Reconcile
<1>13. CASE LeaseExpires
  BY <1>13 DEF LeaseExpires
<1>14. CASE RetryDue
  BY <1>14 DEF RetryDue
<1> QED
  BY <1>1, <1>2, <1>4, <1>5, <1>6, <1>7, <1>8, <1>9, <1>10, <1>11, <1>12, <1>13, <1>14
  DEF Next, Deliver

\* The kind of target is part of the effect's contract.
LEMMA TargetFixed == Next => stream' = stream
  BY DEF Next, Deliver, Claim, Authorize, StartDispatch, Send, Answers, ReadFailure, Record, Crash, Lands,
         RequestCancel, Retry, Reconcile, LeaseExpires, RetryDue, targetVars

\* The seal is taken off a receipt only when nothing is in doubt.
LEMMA SealKept == EffectInv /\ Next => DoubtIsSealed'
<1> SUFFICES ASSUME EffectInv, Next, ~stream' PROVE DoubtIsSealed'
  BY DEF DoubtIsSealed
<1>0. ~stream
  BY TargetFixed
<1> USE EffectAssumption, <1>0 DEF EffectInv, TypeOK, ClaimsAreNamed, Fences, DoubtIsSealed, OwnerKnows,
        callVars, targetVars, boundVars, receiptVars, workerVars
<1>3. ASSUME NEW w \in Workers, StartDispatch(w) PROVE DoubtIsSealed'
  <2>1. CASE MayDispatch(w) /\ dispatched' = TRUE /\ Go(w, "send") /\ UNCHANGED <<row, outcome>>
    <3>1. Doubt = {}
      BY <1>3, <2>1 DEF MayDispatch
    <3>2. Doubt' \subseteq {row[w].fence}
      BY <1>3, <2>1, <3>1, InDoubt, InDoubtNext DEF StartDispatch, Go
    <3> QED
      BY <1>3, <2>1, <3>2 DEF StartDispatch, MayDispatch, Go
  <2>2. CASE UNCHANGED dispatched /\ (Leave(w) \/ WillRecord(w, "outcome_unknown"))
    <3>1. Doubt' \subseteq Doubt
      BY <1>3, <2>2, InDoubt, InDoubtNext DEF StartDispatch, Go, WillRecord, Leave
    <3> QED
      BY <1>3, <2>2, <3>1 DEF StartDispatch, Go, WillRecord, Leave
  <2> QED
    BY <1>3, <2>1, <2>2 DEF StartDispatch
<1> SUFFICES ASSUME Doubt' \subseteq Doubt PROVE DoubtIsSealed'
  BY <1>3, NoNewDoubt
<1>1. ASSUME NEW w \in Workers, Claim(w) PROVE DoubtIsSealed'
  BY <1>1 DEF Claim, Claimable, AfterClaim, Go
<1>2. ASSUME NEW w \in Workers, Authorize(w) PROVE DoubtIsSealed'
  BY <1>2 DEF Authorize, Go, WillRecord
<1>4. ASSUME NEW w \in Workers, Send(w) PROVE DoubtIsSealed'
  BY <1>4 DEF Send, Go
<1>5. ASSUME NEW w \in Workers, Answers(w) PROVE DoubtIsSealed'
  <2> USE <1>5 DEF Answers
  <2>1. CASE /\ UNCHANGED unsure
             /\ \/ WillRecord(w, "succeeded") /\ landed # {}
                \/ WillRecord(w, "outcome_unknown")
    BY <2>1 DEF WillRecord, Go
  <2>2. CASE /\ unsure' = unsure \ {row[w].fence} /\ UNCHANGED <<row, outcome>>
             /\ Go(w, "failed") \/ Go(w, "rejected")
    <3>1. row[w].fence \notin Doubt'
      BY <2>2, InDoubtNext DEF Go
    <3>2. status = "delivering" /\ row[w].fence = fence => Doubt' = {}
      BY <3>1
    <3> QED
      BY <2>2, <3>2 DEF Go
  <2> QED
    BY <2>1, <2>2 DEF WebhookAnswers
<1>6. ASSUME NEW w \in Workers, ReadFailure(w) PROVE DoubtIsSealed'
  BY <1>6 DEF ReadFailure, FailureStatus, WillRecord, Go
<1>7. ASSUME NEW w \in Workers, Record(w) PROVE DoubtIsSealed'
  BY <1>7 DEF Record, Completes, Leave, Go
<1>8. ASSUME NEW w \in Workers, Crash(w) PROVE DoubtIsSealed'
  BY <1>8 DEF Crash, Leave, Go
<1>9. ASSUME NEW f \in flight, Lands(f) PROVE DoubtIsSealed'
  BY <1>9 DEF Lands
<1>10. CASE RequestCancel
  BY <1>10 DEF RequestCancel, CancelReceipt, Open
<1>11. CASE Retry
  BY <1>11 DEF Retry, Retryable
<1>12. CASE Reconcile
  BY <1>12, VouchedForAll DEF Reconcile
<1>13. CASE LeaseExpires
  BY <1>13 DEF LeaseExpires
<1>14. CASE RetryDue
  BY <1>14 DEF RetryDue
<1> QED
  BY <1>1, <1>2, <1>3, <1>4, <1>5, <1>6, <1>7, <1>8, <1>9, <1>10, <1>11, <1>12, <1>13, <1>14
  DEF Next, Deliver

\* A delivery is recorded as succeeded on the provider's word or by the policy.
LEMMA TruthKept == EffectInv /\ Next => OutcomeIsTrue'
<1> SUFFICES ASSUME EffectInv, Next, ~stream' PROVE OutcomeIsTrue'
  BY DEF OutcomeIsTrue
<1>1. status' \in Settled => unsure' = {}
  BY SealKept, InDoubtNext DEF DoubtIsSealed, Settled
<1>2. status' = "succeeded" => suppressed' \/ landed' # {}
  <2> SUFFICES ASSUME status' = "succeeded" PROVE suppressed' \/ landed' # {}
    OBVIOUS
  <2>1. ASSUME NEW w \in Workers, Record(w) PROVE suppressed' \/ landed' # {}
    BY <2>1 DEF EffectInv, DoubtIsSealed, OwnerKnows, OutcomeIsTrue, Record, Completes, callVars
  <2>2. CASE Reconcile
    BY <2>2 DEF Reconcile
  <2>3. CASE (status # "succeeded" => status' # "succeeded") /\ suppressed' = suppressed /\ landed \subseteq landed'
    BY <2>3, TargetFixed DEF EffectInv, OutcomeIsTrue
  <2> QED
    BY <2>1, <2>2, <2>3
    DEF Next, Deliver, Claim, Authorize, StartDispatch, Send, Answers, ReadFailure, Crash, Lands,
        RequestCancel, CancelReceipt, Retry, LeaseExpires, RetryDue, targetVars, callVars, receiptVars
<1> QED
  BY <1>1, <1>2 DEF OutcomeIsTrue, Settled

\* A step that changes nothing.
LEMMA StutterKeeps == EffectInv /\ UNCHANGED vars => EffectInv'
  BY DEF EffectInv, TypeOK, ClaimsAreNamed, DoubtIsSealed, OutcomeIsTrue, OwnerKnows, Doubt,
         vars, callVars, targetVars, boundVars, receiptVars, workerVars

\* Receipt, workers and calls agree: claims are named by their tokens, a call in
\* doubt keeps the receipt sealed, and the recorded outcome is true
\* (claim_receipt, start_dispatch, complete_receipt, request_cancel and retry).
THEOREM EffectsAgree == Spec => []EffectInv
<1>1. EffectInv /\ [Next]_vars => EffectInv'
  BY TypesKept, NamesKept, SealKept, TruthKept, StutterKeeps DEF EffectInv
<1> QED
  BY InitHolds, <1>1, PTL DEF Spec

\* A webhook is not called again while an earlier call to it may have taken
\* effect, for any number of delivery threads (_deliver_one, _start_dispatch).
THEOREM WebhookSentSafely == Spec => []SentSafely
<1>1. EffectInv => SentSafely
  <2> SUFFICES ASSUME EffectInv, ~stream PROVE Cardinality(unsure) <= 1
    BY DEF SentSafely
  <2>1. \A f, g \in unsure : f = g
    BY InDoubt DEF EffectInv, DoubtIsSealed
  <2>2. CASE unsure = {}
    BY <2>2, FS_EmptySet
  <2>3. ASSUME NEW f \in unsure PROVE Cardinality(unsure) <= 1
    <3>1. unsure = {f}
      BY <2>1, <2>3
    <3>2. Cardinality({f}) = 1
      BY FS_Singleton, Zenon
    <3> QED
      BY <3>1, <3>2
  <2> QED
    BY <2>2, <2>3
<1> QED
  BY EffectsAgree, <1>1, PTL

=============================================================================
