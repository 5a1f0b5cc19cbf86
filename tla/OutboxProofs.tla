---------------------------- MODULE OutboxProofs ----------------------------
(***************************************************************************)
(* For every number of rows, tenants and workers, every attempt budget,    *)
(* lease and batch limit: OutboxInv is an invariant of the outbox, and the *)
(* safety properties follow from it.  One lemma per action shows that the  *)
(* action keeps OutboxInv; its steps are the conjuncts the action can      *)
(* disturb, then the others together.                                      *)
(***************************************************************************)
EXTENDS Outbox, TLAPS

(* A worker works on one tenant of publish_all_pending_outbox at a time. *)
LEMMA OneInHand ==
    ASSUME NEW w \in Workers, NEW t \in Tenants, NEW u \in Tenants,
           InHand(w, t), InHand(w, u)
    PROVE  t = u
<1>1. t <= u /\ u <= t
  BY DEF InHand, IsFirst
<1>2. t \in Nat /\ u \in Nat
  BY OutboxConstants
<1> QED BY <1>1, <1>2

(* While neither a gate nor a worker's place moves, but for a worker already in flight, the *)
(* claims the restore-mode gate has let through stay the same.                              *)
LEMMA PauseKeptInPlace ==
    ASSUME OutboxInv, UNCHANGED <<gated, paused, straddling, todo, batch, cur>>,
           \A v \in Workers : pc'[v] = pc[v] \/ {pc[v], pc'[v]} \subseteq InFlight
    PROVE  (GateBeforePause /\ PauseStopsNewClaims)'
<1> USE DEF OutboxInv, TypeOK, InFlight, InHand
<1>1. GateBeforePause'
  BY DEF GateBeforePause
<1>2. PauseStopsNewClaims'
  BY DEF PauseStopsNewClaims
<1> QED BY <1>1, <1>2

(* A worker that ends a transaction or a publish leaves the gate and takes no row with it. *)
LEMMA PauseKeptByLeaving ==
    ASSUME OutboxInv, NEW w \in Workers, paused' = paused, gated' = gated \ {w},
           straddling' = straddling \/ straddling' = straddling \ {w},
           pc'[w] \notin InFlight,
           \A v \in Workers \ {w} : /\ pc'[v] = pc[v] /\ cur'[v] = cur[v]
                                    /\ todo'[v] = todo[v] /\ batch'[v] = batch[v]
    PROVE  (GateBeforePause /\ PauseStopsNewClaims)'
<1> USE DEF OutboxInv, TypeOK, InHand
<1>1. GateBeforePause'
  BY DEF GateBeforePause
<1>2. PauseStopsNewClaims'
  BY DEF PauseStopsNewClaims
<1> QED BY <1>1, <1>2

(* A new row is nobody's claim. *)
LEMMA InsertOutboxEventKeeps ==
    ASSUME OutboxInv, NEW e \in Events, InsertOutboxEvent(e)
    PROVE  OutboxInv'
<1> USE OutboxConstants DEF OutboxInv, TypeOK, Statuses, PCs, InFlight,
   NoEvent, NoClaim, HoldsClaim, rowVars, passVars, gateVars, boundVars,
   InsertOutboxEvent
<1>1. TypeOK'
  OBVIOUS
<1>2. ClaimsAreReclaimable'
  BY DEF ClaimsAreReclaimable
<1>3. LostOnlyAfterLease'
  BY DEF LostOnlyAfterLease, ClaimsInThePast, ClaimsAreReclaimable,
     FencesDiffer
<1>4. DeadLetterIffFailed'
  BY DEF DeadLetterIffFailed
<1>5. SettledForAReason'
  BY DEF SettledForAReason
<1>6. (ClaimsInThePast /\ FencesDiffer /\ BatchInHand)'
  BY DEF ClaimsInThePast, FencesDiffer, BatchInHand,
     InHand
<1>7. (GateBeforePause /\ PauseStopsNewClaims)'
  BY PauseKeptInPlace
<1> QED BY <1>1, <1>2, <1>3, <1>4, <1>5, <1>6, <1>7

(* Only the retry's own transaction moves on. *)
LEMMA AdmitRetryKeeps ==
    ASSUME OutboxInv, NEW e \in Events, AdmitRetry(e)
    PROVE  OutboxInv'
<1> USE OutboxConstants DEF OutboxInv, TypeOK, Statuses, PCs, InFlight,
   NoEvent, NoClaim, HoldsClaim, rowVars, passVars, gateVars, boundVars,
   AdmitRetry
<1>1. TypeOK'
  OBVIOUS
<1>2. (ClaimsAreReclaimable /\ ClaimsInThePast /\ LostOnlyAfterLease /\
   FencesDiffer /\ DeadLetterIffFailed /\ SettledForAReason /\ BatchInHand)'
  BY DEF ClaimsAreReclaimable, ClaimsInThePast, LostOnlyAfterLease,
     FencesDiffer, DeadLetterIffFailed, SettledForAReason, BatchInHand, InHand
<1>3. (GateBeforePause /\ PauseStopsNewClaims)'
  BY PauseKeptInPlace
<1> QED BY <1>1, <1>2, <1>3

(* The retried row was failed, so no worker holds a claim on it. *)
LEMMA RetryDeadLetterKeeps ==
    ASSUME OutboxInv, NEW e \in Events, RetryDeadLetter(e)
    PROVE  OutboxInv'
<1> USE OutboxConstants DEF OutboxInv, TypeOK, Statuses, PCs, InFlight,
   NoEvent, NoClaim, HoldsClaim, rowVars, passVars, gateVars, boundVars,
   RetryDeadLetter, Retryable
<1>1. TypeOK'
  OBVIOUS
<1>2. ClaimsAreReclaimable'
  BY DEF ClaimsAreReclaimable
<1>3. LostOnlyAfterLease'
  BY DEF LostOnlyAfterLease, ClaimsInThePast, ClaimsAreReclaimable,
     FencesDiffer
<1>4. DeadLetterIffFailed'
  BY DEF DeadLetterIffFailed
<1>5. SettledForAReason'
  BY DEF SettledForAReason
<1>6. (ClaimsInThePast /\ FencesDiffer /\ BatchInHand)'
  BY DEF ClaimsInThePast, FencesDiffer, BatchInHand,
     InHand
<1>7. (GateBeforePause /\ PauseStopsNewClaims)'
  BY PauseKeptInPlace
<1> QED BY <1>1, <1>2, <1>3, <1>4, <1>5, <1>6, <1>7

(* Workers in flight on the tenant become straddling. *)
LEMMA StartRestoreModeKeeps ==
    ASSUME OutboxInv, NEW t \in Tenants, StartRestoreMode(t)
    PROVE  OutboxInv'
<1> USE OutboxConstants DEF OutboxInv, TypeOK, Statuses, PCs, InFlight,
   NoEvent, NoClaim, HoldsClaim, rowVars, passVars, gateVars, boundVars, PastGate,
   StartRestoreMode
<1>1. TypeOK'
  OBVIOUS
<1>2. (GateBeforePause /\ PauseStopsNewClaims)'
  BY DEF GateBeforePause, PauseStopsNewClaims, LostOnlyAfterLease, BatchInHand, InHand
<1>3. (ClaimsAreReclaimable /\ ClaimsInThePast /\ LostOnlyAfterLease /\
   FencesDiffer /\ DeadLetterIffFailed /\ SettledForAReason /\ BatchInHand)'
  BY DEF ClaimsAreReclaimable, ClaimsInThePast, LostOnlyAfterLease,
     FencesDiffer, DeadLetterIffFailed, SettledForAReason, BatchInHand, InHand
<1> QED BY <1>1, <1>2, <1>3

(* Only workers of the resumed tenant stop straddling. *)
LEMMA ApproveRestoreResumeKeeps ==
    ASSUME OutboxInv, NEW t \in Tenants, ApproveRestoreResume(t)
    PROVE  OutboxInv'
<1> USE OutboxConstants DEF OutboxInv, TypeOK, Statuses, PCs, InFlight,
   NoEvent, NoClaim, HoldsClaim, rowVars, passVars, gateVars, boundVars,
   ApproveRestoreResume
<1>1. TypeOK'
  OBVIOUS
<1>2. (GateBeforePause /\ PauseStopsNewClaims)'
  <2>1. ASSUME NEW v \in Workers, NEW u \in paused', InHand(v, u), v \in straddling
        PROVE  v \in straddling'
    BY <2>1, OneInHand
  <2>2. GateBeforePause'
    BY <2>1 DEF GateBeforePause, InHand
  <2>3. PauseStopsNewClaims'
    BY <2>1 DEF PauseStopsNewClaims, BatchInHand, InHand
  <2> QED BY <2>2, <2>3
<1>3. (ClaimsAreReclaimable /\ ClaimsInThePast /\ LostOnlyAfterLease /\
   FencesDiffer /\ DeadLetterIffFailed /\ SettledForAReason /\ BatchInHand)'
  BY DEF ClaimsAreReclaimable, ClaimsInThePast, LostOnlyAfterLease,
     FencesDiffer, DeadLetterIffFailed, SettledForAReason, BatchInHand, InHand
<1> QED BY <1>1, <1>2, <1>3

(* An idle worker has no batch that could belong to another tenant. *)
LEMMA StartPassKeeps ==
    ASSUME OutboxInv, NEW w \in Workers, NEW ts \in SUBSET Tenants, StartPass(w, ts)
    PROVE  OutboxInv'
<1> USE OutboxConstants DEF OutboxInv, TypeOK, Statuses, PCs, InFlight,
   NoEvent, NoClaim, HoldsClaim, rowVars, passVars, gateVars, boundVars, StartPass
<1>1. TypeOK'
  OBVIOUS
<1>2. BatchInHand'
  BY DEF BatchInHand, InHand, IsFirst, RowsOf
<1>3. (ClaimsAreReclaimable /\ ClaimsInThePast /\ LostOnlyAfterLease /\
   FencesDiffer /\ DeadLetterIffFailed /\ SettledForAReason)'
  BY DEF ClaimsAreReclaimable, ClaimsInThePast, LostOnlyAfterLease,
     FencesDiffer, DeadLetterIffFailed, SettledForAReason
<1>4. (GateBeforePause /\ PauseStopsNewClaims)'
  <2>1. gated' = gated \ {w}
    BY DEF GateBeforePause
  <2> QED BY <2>1, PauseKeptByLeaving
<1> QED BY <1>1, <1>2, <1>3, <1>4

(* The tenant in hand is not in restore mode as the gate is passed. *)
LEMMA PassGateKeeps ==
    ASSUME OutboxInv, NEW w \in Workers, PassGate(w)
    PROVE  OutboxInv'
<1> USE OutboxConstants DEF OutboxInv, TypeOK, Statuses, PCs, InFlight,
   NoEvent, NoClaim, HoldsClaim, rowVars, passVars, gateVars, boundVars,
   PassGate, AtGate
<1>1. TypeOK'
  OBVIOUS
<1>2. (GateBeforePause /\ PauseStopsNewClaims)'
  <2>1. PICK u \in Tenants : InHand(w, u) /\ u \notin paused
    BY DEF GateOpen
  <2>2. \A t \in paused : ~InHand(w, t)
    BY <2>1, OneInHand
  <2>3. GateBeforePause'
    BY <2>1, <2>2 DEF GateBeforePause, InHand
  <2>4. PauseStopsNewClaims'
    BY DEF PauseStopsNewClaims
  <2> QED BY <2>3, <2>4
<1>3. (ClaimsAreReclaimable /\ ClaimsInThePast /\ LostOnlyAfterLease /\
   FencesDiffer /\ DeadLetterIffFailed /\ SettledForAReason /\ BatchInHand)'
  BY DEF ClaimsAreReclaimable, ClaimsInThePast, LostOnlyAfterLease,
     FencesDiffer, DeadLetterIffFailed, SettledForAReason, BatchInHand, InHand
<1> QED BY <1>1, <1>2, <1>3

(* The batch is dropped with the tenants. *)
LEMMA AbortPassKeeps ==
    ASSUME OutboxInv, NEW w \in Workers, AbortPass(w)
    PROVE  OutboxInv'
<1> USE OutboxConstants DEF OutboxInv, TypeOK, Statuses, PCs, InFlight,
   NoEvent, NoClaim, HoldsClaim, rowVars, passVars, gateVars, boundVars, AbortPass
<1>1. TypeOK'
  OBVIOUS
<1>2. BatchInHand'
  BY DEF BatchInHand, InHand, IsFirst, RowsOf
<1>3. (ClaimsAreReclaimable /\ ClaimsInThePast /\ LostOnlyAfterLease /\
   FencesDiffer /\ DeadLetterIffFailed /\ SettledForAReason)'
  BY DEF ClaimsAreReclaimable, ClaimsInThePast, LostOnlyAfterLease,
     FencesDiffer, DeadLetterIffFailed, SettledForAReason
<1>4. (GateBeforePause /\ PauseStopsNewClaims)'
  <2>1. gated' = gated \ {w}
    BY DEF GateBeforePause, AtGate
  <2> QED BY <2>1, PauseKeptByLeaving
<1> QED BY <1>1, <1>2, <1>3, <1>4

(* The only way to lose a claim to another worker: its lease has run out. *)
LEMMA ReclaimStalePublishingKeeps ==
    ASSUME OutboxInv, NEW w \in Workers, ReclaimStalePublishing(w)
    PROVE  OutboxInv'
<1> USE OutboxConstants DEF OutboxInv, TypeOK, Statuses, PCs, InFlight,
   NoEvent, NoClaim, HoldsClaim, rowVars, passVars, gateVars, boundVars, LeaveGate,
   ReclaimStalePublishing, Stale
<1>1. TypeOK'
  BY DEF InHand, IsFirst
<1>2. ClaimsAreReclaimable'
  BY DEF ClaimsAreReclaimable
<1>3. ClaimsInThePast'
  BY DEF ClaimsInThePast
<1>4. LostOnlyAfterLease'
  BY DEF LostOnlyAfterLease, ClaimsInThePast, ClaimsAreReclaimable,
     FencesDiffer
<1>5. DeadLetterIffFailed'
  BY DEF DeadLetterIffFailed
<1>6. SettledForAReason'
  BY DEF SettledForAReason
<1>7. (FencesDiffer /\ BatchInHand)'
  BY DEF FencesDiffer, BatchInHand, InHand
<1>8. (GateBeforePause /\ PauseStopsNewClaims)'
  <2>1. gated' = gated \ {w}
    BY DEF GateBeforePause
  <2> QED BY <2>1, PauseKeptByLeaving
<1> QED BY <1>1, <1>2, <1>3, <1>4, <1>5, <1>6, <1>7, <1>8

(* The batch is read for the tenant in hand. *)
LEMMA SelectPendingKeeps ==
    ASSUME OutboxInv, NEW w \in Workers, SelectPending(w)
    PROVE  OutboxInv'
<1> USE OutboxConstants DEF OutboxInv, TypeOK, Statuses, PCs, InFlight,
   NoEvent, NoClaim, HoldsClaim, rowVars, passVars, gateVars, boundVars, LeaveGate, SelectPending
<1>e. PICK t \in Tenants :
         /\ InHand(w, t)
         /\ batch' = [batch EXCEPT ![w] =
                        Oldest({e \in RowsOf(t) : status[e] = "pending"})]
  OBVIOUS
<1>1. TypeOK'
  BY <1>e DEF InHand, IsFirst, RowsOf, Oldest
<1>2. BatchInHand'
  <2>1. /\ batch'[w] \subseteq RowsOf(t) /\ pc'[w] = "claim"
        /\ \A v \in Workers : v # w => pc'[v] = pc[v] /\ batch'[v] = batch[v]
    BY <1>e DEF Oldest, RowsOf
  <2>2. \A u \in Tenants : InHand(w, u) => u = t
    BY <1>e DEF InHand, IsFirst
  <2> QED BY <2>1, <2>2 DEF BatchInHand, InHand
<1>3. (ClaimsAreReclaimable /\ ClaimsInThePast /\ LostOnlyAfterLease /\
   FencesDiffer /\ DeadLetterIffFailed /\ SettledForAReason)'
  BY <1>e DEF ClaimsAreReclaimable, ClaimsInThePast, LostOnlyAfterLease,
     FencesDiffer, DeadLetterIffFailed, SettledForAReason
<1>4. (GateBeforePause /\ PauseStopsNewClaims)'
  <2>1. gated' = gated \ {w}
    BY DEF GateBeforePause
  <2> QED BY <2>1, <1>e, PauseKeptByLeaving
<1> QED BY <1>1, <1>2, <1>3, <1>4

(* The batch is empty when the tenant changes. *)
LEMMA FinishTenantKeeps ==
    ASSUME OutboxInv, NEW w \in Workers, FinishTenant(w)
    PROVE  OutboxInv'
<1> USE OutboxConstants DEF OutboxInv, TypeOK, Statuses, PCs, InFlight,
   NoEvent, NoClaim, HoldsClaim, rowVars, passVars, gateVars, boundVars, FinishTenant
<1>1. TypeOK'
  BY DEF InHand, IsFirst
<1>2. BatchInHand'
  <2>1. /\ batch'[w] = {} /\ pc'[w] # "sent"
        /\ \A v \in Workers : v # w => pc'[v] = pc[v] /\ todo'[v] = todo[v]
    OBVIOUS
  <2> QED BY <2>1 DEF BatchInHand, InHand
<1>3. (ClaimsAreReclaimable /\ ClaimsInThePast /\ LostOnlyAfterLease /\
   FencesDiffer /\ DeadLetterIffFailed /\ SettledForAReason)'
  BY DEF ClaimsAreReclaimable, ClaimsInThePast, LostOnlyAfterLease,
     FencesDiffer, DeadLetterIffFailed, SettledForAReason
<1>4. (GateBeforePause /\ PauseStopsNewClaims)'
  <2>1. gated' = gated \ {w}
    BY DEF GateBeforePause
  <2> QED BY <2>1, PauseKeptByLeaving
<1> QED BY <1>1, <1>2, <1>3, <1>4

(* The row was pending: whoever was in flight with it lost its claim more than a lease
   ago, so the new timestamp differs from theirs. *)
LEMMA ClaimEventKeeps ==
    ASSUME OutboxInv, NEW w \in Workers, ClaimEvent(w)
    PROVE  OutboxInv'
<1> USE OutboxConstants DEF OutboxInv, TypeOK, Statuses, PCs, InFlight,
   NoEvent, NoClaim, HoldsClaim, rowVars, passVars, gateVars, boundVars, ClaimEvent
<1>e. PICK e \in Events :
         /\ IsFirst(e, batch[w])
         /\ status[e] = "pending"
         /\ status'    = [status EXCEPT ![e] = "publishing"]
         /\ attempts'  = [attempts EXCEPT ![e] = @ + 1]
         /\ claimedAt' = [claimedAt EXCEPT ![e] = now]
         /\ batch' = [batch EXCEPT ![w] = @ \ {e}]
         /\ cur'   = [cur EXCEPT ![w] = e]
         /\ seen'  = [seen EXCEPT ![w] = attempts[e] + 1]
  OBVIOUS
<1>h. InHand(w, TenantOf[e]) /\ TenantOf[e] \in Tenants
  <2>1. PICK t \in Tenants : InHand(w, t)
    BY DEF GateBeforePause
  <2>2. e \in RowsOf(t)
    BY <1>e, <2>1 DEF BatchInHand, IsFirst
  <2> QED BY <2>1, <2>2 DEF RowsOf
<1>1. TypeOK'
  BY <1>e DEF InHand, IsFirst
<1>2. ClaimsAreReclaimable'
  BY <1>e DEF ClaimsAreReclaimable, IsFirst
<1>3. ClaimsInThePast'
  BY <1>e DEF ClaimsInThePast, IsFirst
<1>4. LostOnlyAfterLease'
  BY <1>e DEF LostOnlyAfterLease, ClaimsInThePast, ClaimsAreReclaimable,
     FencesDiffer, IsFirst
<1>5. FencesDiffer'
  BY <1>e DEF FencesDiffer, LostOnlyAfterLease, ClaimsInThePast, IsFirst
<1>6. DeadLetterIffFailed'
  BY <1>e DEF DeadLetterIffFailed, IsFirst
<1>7. SettledForAReason'
  BY <1>e DEF SettledForAReason, IsFirst
<1>8. BatchInHand'
  <2>1. /\ pc'[w] = "publish" /\ batch'[w] \subseteq batch[w]
        /\ \A v \in Workers : v # w => /\ pc'[v] = pc[v] /\ cur'[v] = cur[v]
                                      /\ batch'[v] = batch[v]
    BY <1>e
  <2>2. InHand(w, TenantOf[e])
    BY <1>h
  <2>3. todo' = todo /\ cur'[w] = e /\ delivered' = delivered
    BY <1>e
  <2> QED BY <2>1, <2>2, <2>3 DEF BatchInHand, InHand
<1>9. (GateBeforePause /\ PauseStopsNewClaims)'
  <2>1. TenantOf[e] \in paused => w \in straddling
    BY <1>h DEF GateBeforePause
  <2>2. /\ cur'[w] = e /\ gated' = gated \ {w} /\ todo' = todo
        /\ straddling' = straddling /\ paused' = paused
        /\ \A v \in Workers \ {w} : /\ pc'[v] = pc[v] /\ cur'[v] = cur[v]
                                    /\ batch'[v] = batch[v]
    BY <1>e
  <2>3. GateBeforePause'
    BY <2>2 DEF GateBeforePause, InHand
  <2>4. PauseStopsNewClaims'
    BY <2>1, <2>2 DEF PauseStopsNewClaims
  <2> QED BY <2>3, <2>4
<1> QED BY <1>1, <1>2, <1>3, <1>4, <1>5, <1>6, <1>7, <1>8, <1>9

(* The batch shrinks. *)
LEMMA SkipEventKeeps ==
    ASSUME OutboxInv, NEW w \in Workers, SkipEvent(w)
    PROVE  OutboxInv'
<1> USE OutboxConstants DEF OutboxInv, TypeOK, Statuses, PCs, InFlight,
   NoEvent, NoClaim, HoldsClaim, rowVars, passVars, gateVars, boundVars, LeaveGate, SkipEvent
<1>1. TypeOK'
  BY DEF InHand, IsFirst
<1>2. BatchInHand'
  BY DEF BatchInHand, InHand, IsFirst, RowsOf
<1>3. (ClaimsAreReclaimable /\ ClaimsInThePast /\ LostOnlyAfterLease /\
   FencesDiffer /\ DeadLetterIffFailed /\ SettledForAReason)'
  BY DEF ClaimsAreReclaimable, ClaimsInThePast, LostOnlyAfterLease,
     FencesDiffer, DeadLetterIffFailed, SettledForAReason
<1>4. (GateBeforePause /\ PauseStopsNewClaims)'
  <2>1. gated' = gated \ {w}
    BY DEF GateBeforePause
  <2> QED BY <2>1, PauseKeptByLeaving
<1> QED BY <1>1, <1>2, <1>3, <1>4

(* Only the stream and the worker's own place change. *)
LEMMA PublishEventKeeps ==
    ASSUME OutboxInv, NEW w \in Workers, PublishEvent(w)
    PROVE  OutboxInv'
<1> USE OutboxConstants DEF OutboxInv, TypeOK, Statuses, PCs, InFlight,
   NoEvent, NoClaim, HoldsClaim, rowVars, passVars, gateVars, boundVars, PublishEvent
<1>p. cur[w] \in Events
  BY DEF LostOnlyAfterLease
<1>e. /\ delivered \subseteq delivered' /\ delivered' \subseteq Events
      /\ pc' \in [Workers -> PCs] /\ pc'[w] \in {"sent", "raised"}
      /\ pc'[w] = "sent" => cur[w] \in delivered'
      /\ \A v \in Workers : v # w => pc'[v] = pc[v]
  <2>1. PICK accepted \in BOOLEAN, returned \in BOOLEAN :
          /\ returned => accepted
          /\ delivered' = IF accepted THEN delivered \cup {cur[w]} ELSE delivered
          /\ pc' = [pc EXCEPT ![w] = IF returned THEN "sent" ELSE "raised"]
    BY Zenon
  <2>2. delivered \subseteq delivered' /\ delivered' \subseteq Events
    BY <1>p, <2>1
  <2>3. \/ returned  /\ pc' = [pc EXCEPT ![w] = "sent"]   /\ cur[w] \in delivered'
        \/ ~returned /\ pc' = [pc EXCEPT ![w] = "raised"]
    BY <2>1, Zenon
  <2> QED BY <2>2, <2>3
<1>1. TypeOK'
  BY <1>e DEF LostOnlyAfterLease
<1>2. LostOnlyAfterLease'
  BY <1>e DEF LostOnlyAfterLease, ClaimsInThePast, ClaimsAreReclaimable,
     FencesDiffer
<1>3. FencesDiffer'
  BY <1>e DEF FencesDiffer, LostOnlyAfterLease, ClaimsInThePast
<1>4. SettledForAReason'
  BY <1>e DEF SettledForAReason
<1>5. BatchInHand'
  BY <1>e DEF BatchInHand, InHand, IsFirst, RowsOf
<1>7. (ClaimsAreReclaimable /\ ClaimsInThePast /\ DeadLetterIffFailed)'
  BY <1>e DEF ClaimsAreReclaimable, ClaimsInThePast, DeadLetterIffFailed
<1>8. (GateBeforePause /\ PauseStopsNewClaims)'
  <2>1. \A v \in Workers : pc'[v] = pc[v] \/ {pc[v], pc'[v]} \subseteq InFlight
    BY <1>e
  <2> QED BY <2>1, PauseKeptInPlace
<1> QED BY <1>1, <1>2, <1>3, <1>4, <1>5, <1>7, <1>8

(* Another worker in flight with the row holds another timestamp, so it had lost its claim before. *)
LEMMA MarkPublishedKeeps ==
    ASSUME OutboxInv, NEW w \in Workers, MarkPublished(w)
    PROVE  OutboxInv'
<1> USE OutboxConstants DEF OutboxInv, TypeOK, Statuses, PCs, InFlight,
   NoEvent, NoClaim, HoldsClaim, rowVars, passVars, gateVars, boundVars, ReleaseRow,
   MarkPublished
<1>e. cur[w] \in Events
  BY DEF LostOnlyAfterLease
<1>1. TypeOK'
  BY <1>e DEF LostOnlyAfterLease
<1>2. ClaimsAreReclaimable'
  BY <1>e DEF ClaimsAreReclaimable, LostOnlyAfterLease
<1>3. ClaimsInThePast'
  BY <1>e DEF ClaimsInThePast
<1>4. LostOnlyAfterLease'
  BY <1>e DEF LostOnlyAfterLease, ClaimsInThePast, ClaimsAreReclaimable,
     FencesDiffer
<1>5. FencesDiffer'
  BY <1>e DEF FencesDiffer, LostOnlyAfterLease, ClaimsInThePast
<1>6. DeadLetterIffFailed'
  BY <1>e DEF DeadLetterIffFailed, LostOnlyAfterLease
<1>7. SettledForAReason'
  BY <1>e DEF SettledForAReason, BatchInHand, LostOnlyAfterLease
<1>8. BatchInHand'
  BY <1>e DEF BatchInHand, InHand
<1>9. (GateBeforePause /\ PauseStopsNewClaims)'
  <2>1. gated' = gated \ {w}
    BY DEF GateBeforePause
  <2> QED BY <2>1, PauseKeptByLeaving
<1> QED BY <1>1, <1>2, <1>3, <1>4, <1>5, <1>6, <1>7, <1>8, <1>9

(* As for MarkPublished. *)
LEMMA MarkRetryPendingKeeps ==
    ASSUME OutboxInv, NEW w \in Workers, MarkRetryPending(w)
    PROVE  OutboxInv'
<1> USE OutboxConstants DEF OutboxInv, TypeOK, Statuses, PCs, InFlight,
   NoEvent, NoClaim, HoldsClaim, rowVars, passVars, gateVars, boundVars, ReleaseRow,
   MarkRetryPending
<1>e. cur[w] \in Events
  BY DEF LostOnlyAfterLease
<1>1. TypeOK'
  BY <1>e DEF LostOnlyAfterLease
<1>2. ClaimsAreReclaimable'
  BY <1>e DEF ClaimsAreReclaimable, LostOnlyAfterLease
<1>3. ClaimsInThePast'
  BY <1>e DEF ClaimsInThePast
<1>4. LostOnlyAfterLease'
  BY <1>e DEF LostOnlyAfterLease, ClaimsInThePast, ClaimsAreReclaimable,
     FencesDiffer
<1>5. FencesDiffer'
  BY <1>e DEF FencesDiffer, LostOnlyAfterLease, ClaimsInThePast
<1>6. DeadLetterIffFailed'
  BY <1>e DEF DeadLetterIffFailed, LostOnlyAfterLease
<1>7. SettledForAReason'
  BY <1>e DEF SettledForAReason, LostOnlyAfterLease
<1>8. BatchInHand'
  BY <1>e DEF BatchInHand, InHand
<1>9. (GateBeforePause /\ PauseStopsNewClaims)'
  <2>1. gated' = gated \ {w}
    BY DEF GateBeforePause
  <2> QED BY <2>1, PauseKeptByLeaving
<1> QED BY <1>1, <1>2, <1>3, <1>4, <1>5, <1>6, <1>7, <1>8, <1>9

(* As for MarkPublished; the attempts the worker read are the row's. *)
LEMMA MarkFailedKeeps ==
    ASSUME OutboxInv, NEW w \in Workers, MarkFailed(w)
    PROVE  OutboxInv'
<1>e. cur[w] \in Events
  BY DEF OutboxInv, MarkFailed, LostOnlyAfterLease, InFlight
<1>s. status' \in [Events -> Statuses]
  BY DEF OutboxInv, TypeOK, MarkFailed, Statuses
<1>c. claimedAt' \in [Events -> 0..NoClaim]
  <2>1. NoClaim \in 0..NoClaim
    BY OutboxConstants DEF NoClaim
  <2> QED BY <2>1 DEF OutboxInv, TypeOK, MarkFailed
<1>d. deadLetters' \subseteq Events
  BY <1>e DEF OutboxInv, TypeOK, MarkFailed
<1> USE OutboxConstants DEF OutboxInv, TypeOK, Statuses, PCs, InFlight,
   NoEvent, NoClaim, HoldsClaim, rowVars, passVars, gateVars, boundVars, ReleaseRow,
   MarkFailed
<1>1. TypeOK'
  BY <1>s, <1>c, <1>d
<1>2. ClaimsAreReclaimable'
  BY <1>e DEF ClaimsAreReclaimable, LostOnlyAfterLease
<1>3. ClaimsInThePast'
  BY <1>e DEF ClaimsInThePast
<1>4. LostOnlyAfterLease'
  BY <1>e DEF LostOnlyAfterLease, ClaimsInThePast, ClaimsAreReclaimable,
     FencesDiffer
<1>5. FencesDiffer'
  BY <1>e DEF FencesDiffer, LostOnlyAfterLease, ClaimsInThePast
<1>6. DeadLetterIffFailed'
  BY <1>e DEF DeadLetterIffFailed, LostOnlyAfterLease
<1>7. SettledForAReason'
  BY <1>e DEF SettledForAReason, LostOnlyAfterLease
<1>8. BatchInHand'
  BY <1>e DEF BatchInHand, InHand, IsFirst, RowsOf
<1>9. (GateBeforePause /\ PauseStopsNewClaims)'
  <2>1. gated' = gated \ {w}
    BY DEF GateBeforePause
  <2> QED BY <2>1, PauseKeptByLeaving
<1> QED BY <1>1, <1>2, <1>3, <1>4, <1>5, <1>6, <1>7, <1>8, <1>9

(* Only the worker's own state changes. *)
LEMMA SupersededKeeps ==
    ASSUME OutboxInv, NEW w \in Workers, Superseded(w)
    PROVE  OutboxInv'
<1> USE OutboxConstants DEF OutboxInv, TypeOK, Statuses, PCs, InFlight,
   NoEvent, NoClaim, HoldsClaim, rowVars, passVars, gateVars, boundVars, ReleaseRow,
   Superseded
<1>1. TypeOK'
  OBVIOUS
<1>2. LostOnlyAfterLease'
  BY DEF LostOnlyAfterLease, ClaimsInThePast, ClaimsAreReclaimable,
     FencesDiffer
<1>3. FencesDiffer'
  BY DEF FencesDiffer, LostOnlyAfterLease, ClaimsInThePast
<1>4. BatchInHand'
  BY DEF BatchInHand, InHand, IsFirst, RowsOf
<1>6. (ClaimsAreReclaimable /\ ClaimsInThePast /\ DeadLetterIffFailed /\
   SettledForAReason)'
  BY DEF ClaimsAreReclaimable, ClaimsInThePast, DeadLetterIffFailed,
     SettledForAReason
<1>7. (GateBeforePause /\ PauseStopsNewClaims)'
  <2>1. gated' = gated \ {w}
    BY DEF GateBeforePause
  <2> QED BY <2>1, PauseKeptByLeaving
<1> QED BY <1>1, <1>2, <1>3, <1>4, <1>6, <1>7

(* The worker forgets; its row keeps the claim. *)
LEMMA CrashKeeps ==
    ASSUME OutboxInv, NEW w \in Workers, Crash(w)
    PROVE  OutboxInv'
<1> USE OutboxConstants DEF OutboxInv, TypeOK, Statuses, PCs, InFlight,
   NoEvent, NoClaim, HoldsClaim, rowVars, passVars, gateVars, boundVars, Crash
<1>1. TypeOK'
  OBVIOUS
<1>2. LostOnlyAfterLease'
  BY DEF LostOnlyAfterLease, ClaimsInThePast, ClaimsAreReclaimable,
     FencesDiffer
<1>3. FencesDiffer'
  BY DEF FencesDiffer, LostOnlyAfterLease, ClaimsInThePast
<1>4. BatchInHand'
  BY DEF BatchInHand, InHand, IsFirst, RowsOf
<1>6. (ClaimsAreReclaimable /\ ClaimsInThePast /\ DeadLetterIffFailed /\
   SettledForAReason)'
  BY DEF ClaimsAreReclaimable, ClaimsInThePast, DeadLetterIffFailed,
     SettledForAReason
<1>7. (GateBeforePause /\ PauseStopsNewClaims)'
  <2>1. gated' = gated \ {w}
    BY DEF GateBeforePause
  <2> QED BY <2>1, PauseKeptByLeaving
<1> QED BY <1>1, <1>2, <1>3, <1>4, <1>6, <1>7

(* A claim that was lost stays lost for longer than the lease. *)
LEMMA TickKeeps ==
    ASSUME OutboxInv, Tick
    PROVE  OutboxInv'
<1> USE OutboxConstants DEF OutboxInv, TypeOK, Statuses, PCs, InFlight,
   NoEvent, NoClaim, HoldsClaim, rowVars, passVars, gateVars, boundVars, Tick
<1>1. TypeOK'
  OBVIOUS
<1>2. ClaimsInThePast'
  BY DEF ClaimsInThePast
<1>3. LostOnlyAfterLease'
  BY DEF LostOnlyAfterLease, ClaimsInThePast, ClaimsAreReclaimable,
     FencesDiffer
<1>4. (ClaimsAreReclaimable /\ FencesDiffer /\ DeadLetterIffFailed /\
   SettledForAReason /\ BatchInHand)'
  BY DEF ClaimsAreReclaimable, FencesDiffer, DeadLetterIffFailed,
     SettledForAReason, BatchInHand, InHand
<1>5. (GateBeforePause /\ PauseStopsNewClaims)'
  BY PauseKeptInPlace
<1> QED BY <1>1, <1>2, <1>3, <1>4, <1>5

-----------------------------------------------------------------------------

LEMMA OutboxInit == Init => OutboxInv
  BY OutboxConstants
     DEF Init, OutboxInv, TypeOK, Statuses, PCs, InFlight, NoEvent, NoClaim,
         ClaimsAreReclaimable, ClaimsInThePast, LostOnlyAfterLease, FencesDiffer,
         DeadLetterIffFailed, SettledForAReason, BatchInHand, InHand, IsFirst,
         RowsOf, GateBeforePause, PauseStopsNewClaims

LEMMA OutboxNext == OutboxInv /\ [Next]_vars => OutboxInv'
<1> SUFFICES ASSUME OutboxInv, [Next]_vars PROVE OutboxInv'
  OBVIOUS
<1>1. ASSUME NEW e \in Events, InsertOutboxEvent(e) \/ AdmitRetry(e) \/ RetryDeadLetter(e)
      PROVE  OutboxInv'
  BY <1>1, InsertOutboxEventKeeps, AdmitRetryKeeps, RetryDeadLetterKeeps
<1>2. ASSUME NEW t \in Tenants, StartRestoreMode(t) \/ ApproveRestoreResume(t)
      PROVE  OutboxInv'
  BY <1>2, StartRestoreModeKeeps, ApproveRestoreResumeKeeps
<1>3. ASSUME NEW w \in Workers, WorkerStep(w)
      PROVE  OutboxInv'
  BY <1>3, PassGateKeeps, AbortPassKeeps, ReclaimStalePublishingKeeps, SelectPendingKeeps,
     FinishTenantKeeps, ClaimEventKeeps, SkipEventKeeps, PublishEventKeeps,
     MarkPublishedKeeps, MarkRetryPendingKeeps, MarkFailedKeeps, SupersededKeeps
     DEF WorkerStep
<1>4. ASSUME NEW w \in Workers, Crash(w)
      PROVE  OutboxInv'
  BY <1>4, CrashKeeps
<1>5. ASSUME NEW w \in Workers, NEW ts \in PassScopes(w), StartPass(w, ts)
      PROVE  OutboxInv'
  <2>1. ts \in SUBSET Tenants
    BY DEF PassScopes
  <2> QED BY <1>5, <2>1, StartPassKeeps
<1>6. CASE Tick
  BY <1>6, TickKeeps
<1>7. CASE UNCHANGED vars
  BY <1>7 DEF vars, rowVars, passVars, gateVars, boundVars, OutboxInv, TypeOK, InFlight,
     ClaimsAreReclaimable, ClaimsInThePast, LostOnlyAfterLease, HoldsClaim,
     FencesDiffer, DeadLetterIffFailed, SettledForAReason, BatchInHand, InHand,
     GateBeforePause, PauseStopsNewClaims
<1> QED BY <1>1, <1>2, <1>3, <1>4, <1>5, <1>6, <1>7 DEF Next

(* The conjunction of the outbox's state invariants holds in every reachable *)
(* state: fences by timestamp are exclusive although nothing but the lease   *)
(* keeps two claims of one row apart.                                        *)
THEOREM OutboxSafe == Spec => []OutboxInv
  BY OutboxInit, OutboxNext, PTL DEF Spec

(* Type correctness of every reachable state of the outbox. *)
THEOREM OutboxTypeOK == Spec => []TypeOK
<1>1. OutboxInv => TypeOK
  BY DEF OutboxInv
<1> QED BY <1>1, OutboxSafe, PTL

(* No two workers can both pass the claim-timestamp compare-and-set of one row *)
(* (the conditions of mark_outbox_event_published, _failed, _retry_pending).   *)
THEOREM OutboxFenceIsExclusive == Spec => []FenceIsExclusive
<1>1. OutboxInv => FenceIsExclusive
  BY DEF OutboxInv, FencesDiffer, FenceIsExclusive, HoldsClaim
<1> QED BY <1>1, OutboxSafe, PTL

(* outbox_events.status = failed and dead_letter_events never disagree, over *)
(* _mark_failed, retry_dead_letter_event, crashes and superseded marks.      *)
THEOREM OutboxDeadLetters == Spec => []DeadLetterIffFailed
<1>1. OutboxInv => DeadLetterIffFailed
  BY DEF OutboxInv
<1> QED BY <1>1, OutboxSafe, PTL

(* Rows are given up only with a spent budget, published only when delivered. *)
THEOREM OutboxSettledForAReason == Spec => []SettledForAReason
<1>1. OutboxInv => SettledForAReason
  BY DEF OutboxInv
<1> QED BY <1>1, OutboxSafe, PTL

(* A row of a tenant in restore mode is in the hands of a worker whose claim had  *)
(* passed require_outbox_retry_open before restore mode began, although the claim *)
(* itself may have been committed after.                                          *)
THEOREM OutboxPause == Spec => []PauseStopsNewClaims
<1>1. OutboxInv => PauseStopsNewClaims
  BY DEF OutboxInv
<1> QED BY <1>1, OutboxSafe, PTL

(* No step, however late, takes a published row back. *)
THEOREM OutboxPublishedIsFinal == Spec => PublishedIsFinal
<1>1. ASSUME OutboxInv, [Next]_vars, NEW e \in Events, status[e] = "published"
      PROVE  status'[e] = "published"
  <2> USE <1>1 DEF OutboxInv, TypeOK
  <2>1. CASE \E w \in Workers : WorkerStep(w)
    <3>1. PICK w \in Workers : WorkerStep(w)
      BY <2>1
    <3>2. ASSUME NEW t \in Tenants, NEW x \in Events PROVE ~(Stale(x) /\ status[x] = "published")
      BY DEF Stale
    <3> QED
      BY <3>1, <3>2 DEF WorkerStep, PassGate, AbortPass, ReclaimStalePublishing, SelectPending,
         FinishTenant, ClaimEvent, SkipEvent, PublishEvent, MarkPublished,
         MarkRetryPending, MarkFailed, Superseded, HoldsClaim, rowVars, Stale,
         LostOnlyAfterLease, InFlight
  <2>2. CASE ~ \E w \in Workers : WorkerStep(w)
    BY <2>2 DEF Next, vars, rowVars, InsertOutboxEvent, AdmitRetry, RetryDeadLetter, Retryable,
       StartRestoreMode, ApproveRestoreResume, Crash, StartPass, Tick
  <2> QED BY <2>1, <2>2
<1>2. OutboxInv /\ [Next]_vars =>
        [\A e \in Events : status[e] = "published" => status'[e] = "published"]_vars
  BY <1>1
<1> QED BY <1>2, OutboxSafe, PTL DEF Spec, PublishedIsFinal
=============================================================================
