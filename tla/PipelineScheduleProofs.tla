----------------------- MODULE PipelineScheduleProofs -----------------------
(***************************************************************************)
(* Proofs about PipelineSchedule, for any number of ticks, versions and    *)
(* slots: claims are completed by their owner only, so slots are taken in  *)
(* order and a manual pause holds.                                         *)
(***************************************************************************)
EXTENDS PipelineSchedule, TLAPS

-----------------------------------------------------------------------------
(* Types *)

\* The schedule row and the bounds of its operators.
RowTypes ==
    /\ exists \in BOOLEAN /\ gen \in Nat /\ version \in Versions
    /\ status \in {"active", "paused"} /\ enabled \in BOOLEAN
    /\ reason \in {"none", "manual", "disabled", "auto"}
    /\ due \in 0 .. MaxClock + 1 /\ fresh \in BOOLEAN
    /\ lease \in {"none", "live", "expired"} /\ fence \in Nat /\ failures \in Nat
    /\ clock \in 1 .. MaxClock /\ edits \in 0 .. MaxEdits
    /\ gen >= 1 /\ gen <= 1 + edits

\* The runs of its slots, and those whose end was observed.
RunTypes ==
    /\ run \in [Gens \X Slots -> Ended \union {"none", "active", "cancelling"}]
    /\ runVersion \in [Gens \X Slots -> Versions]
    /\ observed \subseteq {k \in Gens \X Slots : run[k] \in Ended}

\* The ticks and their copies of the row.
TickTypes ==
    /\ pc \in [Tickers -> {"idle", "enqueue", "finish"}]
    /\ row \in [Tickers -> [gen : Nat, slot : Nat, fence : Nat, failures : Nat,
                            version : Versions]]
    /\ enqueued \in [Tickers -> BOOLEAN]

\* What may go wrong.
MishapTypes ==
    /\ crashes \in Nat /\ stalls \in Nat /\ faults \in Nat
    /\ crashes + stalls + faults <= MaxMishaps

(* The type invariant is the sum of its parts. *)
LEMMA TypeParts ==
    ASSUME ClaimsAreFenced
    PROVE  TypeOK <=> RowTypes /\ RunTypes /\ TickTypes /\ MishapTypes
<1>1. TypeOK => RowTypes
  BY ScheduleAssumption DEF TypeOK, RowTypes, Gens, ClaimsAreFenced
<1>2. RowTypes => gen \in Gens
  BY ScheduleAssumption DEF RowTypes, Gens
<1> QED BY <1>1, <1>2 DEF TypeOK, RowTypes, RunTypes, TickTypes, MishapTypes

(* A tick at work has a run of a generation and a slot there are. *)
LEMMA ClaimedKey ==
    ASSUME RowTypes, TickTypes, ClaimsAreFenced, NEW t \in Tickers, pc[t] # "idle"
    PROVE  <<row[t].gen, row[t].slot>> \in Gens \X Slots
<1>1. row[t].gen \in Nat /\ row[t].slot \in Nat
  BY DEF TickTypes
<1>2. row[t].gen \in Gens
  BY <1>1, ScheduleAssumption DEF RowTypes, ClaimsAreFenced, Gens
<1>3. row[t].slot \in Slots
  BY <1>1, ScheduleAssumption DEF ClaimsAreFenced, Slots
<1> QED BY <1>2, <1>3

(* A tick that leaves forgets the row it had claimed. *)
LEMMA NoRowType ==
    NoRow \in [gen : Nat, slot : Nat, fence : Nat, failures : Nat, version : Versions]
<1>1. (CHOOSE v \in Versions : TRUE) \in Versions
  BY ScheduleAssumption
<1> QED BY <1>1 DEF NoRow

(* A completion moves the schedule to the slot behind the one it claimed; every *)
(* other write stays within the clock.                                          *)
LEMMA RowStep == RowTypes /\ TickTypes /\ ClaimsAreFenced /\ Next => RowTypes'
<1> SUFFICES ASSUME RowTypes /\ TickTypes /\ ClaimsAreFenced, Next PROVE RowTypes'
  OBVIOUS
<1> USE ScheduleAssumption DEF RowTypes, scheduleVars, runVars, tickVars, boundVars
<1>1. ASSUME NEW t \in Tickers, Claim(t) PROVE RowTypes'
  BY <1>1 DEF Claim, Claimable
<1>2. ASSUME NEW t \in Tickers, Enqueue(t) PROVE RowTypes'
  BY <1>2 DEF Enqueue
<1>3. ASSUME NEW t \in Tickers, Finish(t) PROVE RowTypes'
  <2>1. CASE Owns(t)
    <3>1. row[t].slot \in 1 .. MaxClock /\ row[t].failures \in Nat
      BY <1>3 DEF Finish, ClaimsAreFenced, TickTypes
    <3> QED BY <1>3, <2>1, <3>1 DEF Finish, Complete
  <2>2. CASE ~Owns(t)
    BY <1>3, <2>2 DEF Finish
  <2> QED BY <2>1, <2>2
<1>4. ASSUME NEW t \in Tickers, Crash(t) PROVE RowTypes'
  BY <1>4 DEF Crash, Trouble, Leave
<1>5. CASE ReconcileLegacy
  BY <1>5 DEF ReconcileLegacy
<1>6. ASSUME NEW k \in Gens \X Slots, Observe(k) PROVE RowTypes'
  <2>1. CASE exists /\ k[1] = gen
    <3>1. failures' \in Nat /\ due' \in 0 .. MaxClock + 1 /\ status' \in {"active", "paused"}
          /\ reason' \in {"none", "manual", "disabled", "auto"}
      BY <1>6, <2>1 DEF Observe
    <3>2. enabled' \in BOOLEAN
      BY <1>6, <2>1, Zenon DEF Observe
    <3>3. UNCHANGED <<exists, gen, version, fresh, lease, fence, clock, edits>>
      BY <1>6 DEF Observe
    <3> QED BY <3>1, <3>2, <3>3
  <2>2. CASE ~(exists /\ k[1] = gen)
    <3>1. UNCHANGED <<scheduleVars, boundVars>>
      BY <1>6, <2>2 DEF Observe
    <3> QED BY <3>1
  <2> QED BY <2>1, <2>2
<1>7. ASSUME NEW k \in Gens \X Slots, NEW s \in Ended \union {"cancelling"}, RunEnds(k, s)
      PROVE  RowTypes'
  BY <1>7 DEF RunEnds
<1>8. ASSUME NEW v \in Versions, NEW on \in BOOLEAN, Upsert(v, on) PROVE RowTypes'
  BY <1>8 DEF Upsert, Edit
<1>9. CASE Pause
  <2>1. edits' \in 0 .. MaxEdits /\ gen <= 1 + edits'
    BY <1>9 DEF Pause, Edit
  <2>2. due' \in 0 .. MaxClock + 1
    BY <1>9 DEF Pause
  <2> QED BY <1>9, <2>1, <2>2, Zenon DEF Pause, RowTypes
<1>10. CASE Resume
  BY <1>10 DEF Resume, Edit
<1>11. CASE Delete
  BY <1>11, 0 \in Nat, 0 \in 0 .. MaxClock + 1, Zenon DEF Delete, RowTypes
<1>12. ASSUME NEW on \in BOOLEAN, LegacyWrite(on) PROVE RowTypes'
  <2>1. edits' \in 0 .. MaxEdits /\ gen <= 1 + edits'
    BY <1>12 DEF LegacyWrite, Edit
  <2> QED BY <1>12, <2>1, Zenon DEF LegacyWrite, RowTypes
<1>13. CASE TimePasses
  BY <1>13 DEF TimePasses
<1>14. CASE LeaseExpires
  BY <1>14 DEF LeaseExpires, Trouble
<1> QED
  BY <1>1, <1>2, <1>3, <1>4, <1>5, <1>6, <1>7, <1>8, <1>9, <1>10, <1>11, <1>12, <1>13, <1>14
     DEF Next, Tick, Operate

(* A run that ended stays ended, so what was observed was an end.               *)
LEMMA RunStep == RowTypes /\ TickTypes /\ RunTypes /\ ClaimsAreFenced /\ Next => RunTypes'
<1> SUFFICES ASSUME RowTypes /\ TickTypes /\ RunTypes /\ ClaimsAreFenced, Next PROVE RunTypes'
  OBVIOUS
<1> USE  DEF RunTypes, scheduleVars, runVars, tickVars, boundVars
<1>1. ASSUME NEW t \in Tickers, Claim(t) PROVE RunTypes'
  BY <1>1 DEF Claim
<1>2. ASSUME NEW t \in Tickers, Enqueue(t) PROVE RunTypes'
  <2>1. <<row[t].gen, row[t].slot>> \in Gens \X Slots /\ row[t].version \in Versions
    BY <1>2, ClaimedKey DEF Enqueue, TickTypes
  <2> QED BY <1>2, <2>1 DEF Enqueue, Ended
<1>3. ASSUME NEW t \in Tickers, Finish(t) PROVE RunTypes'
  BY <1>3 DEF Finish
<1>4. ASSUME NEW t \in Tickers, Crash(t) PROVE RunTypes'
  BY <1>4 DEF Crash
<1>5. CASE ReconcileLegacy
  BY <1>5 DEF ReconcileLegacy
<1>6. ASSUME NEW k \in Gens \X Slots, Observe(k) PROVE RunTypes'
  BY <1>6 DEF Observe, Unobserved
<1>7. ASSUME NEW k \in Gens \X Slots, NEW s \in Ended \union {"cancelling"}, RunEnds(k, s)
      PROVE  RunTypes'
  BY <1>7 DEF RunEnds, Ended
<1>8. ASSUME NEW v \in Versions, NEW on \in BOOLEAN, Upsert(v, on) PROVE RunTypes'
  BY <1>8 DEF Upsert
<1>9. CASE Pause
  BY <1>9 DEF Pause
<1>10. CASE Resume
  BY <1>10 DEF Resume
<1>11. CASE Delete
  BY <1>11 DEF Delete
<1>12. ASSUME NEW on \in BOOLEAN, LegacyWrite(on) PROVE RunTypes'
  BY <1>12 DEF LegacyWrite
<1>13. CASE TimePasses
  BY <1>13 DEF TimePasses
<1>14. CASE LeaseExpires
  BY <1>14 DEF LeaseExpires
<1> QED
  BY <1>1, <1>2, <1>3, <1>4, <1>5, <1>6, <1>7, <1>8, <1>9, <1>10, <1>11, <1>12, <1>13, <1>14
     DEF Next, Tick, Operate

(* A tick keeps what it claimed until it leaves.                                *)
LEMMA TickStep == RowTypes /\ TickTypes /\ Next => TickTypes'
<1> SUFFICES ASSUME RowTypes /\ TickTypes, Next PROVE TickTypes'
  OBVIOUS
<1> USE NoRowType DEF TickTypes, scheduleVars, runVars, tickVars, boundVars
<1>1. ASSUME NEW t \in Tickers, Claim(t) PROVE TickTypes'
  BY <1>1 DEF Claim, RowTypes, Claimable
<1>2. ASSUME NEW t \in Tickers, Enqueue(t) PROVE TickTypes'
  BY <1>2 DEF Enqueue
<1>3. ASSUME NEW t \in Tickers, Finish(t) PROVE TickTypes'
  BY <1>3 DEF Finish, Leave
<1>4. ASSUME NEW t \in Tickers, Crash(t) PROVE TickTypes'
  BY <1>4 DEF Crash, Leave
<1>5. CASE ReconcileLegacy
  BY <1>5 DEF ReconcileLegacy
<1>6. ASSUME NEW k \in Gens \X Slots, Observe(k) PROVE TickTypes'
  BY <1>6 DEF Observe
<1>7. ASSUME NEW k \in Gens \X Slots, NEW s \in Ended \union {"cancelling"}, RunEnds(k, s)
      PROVE  TickTypes'
  BY <1>7 DEF RunEnds
<1>8. ASSUME NEW v \in Versions, NEW on \in BOOLEAN, Upsert(v, on) PROVE TickTypes'
  BY <1>8 DEF Upsert
<1>9. CASE Pause
  BY <1>9 DEF Pause
<1>10. CASE Resume
  BY <1>10 DEF Resume
<1>11. CASE Delete
  BY <1>11 DEF Delete
<1>12. ASSUME NEW on \in BOOLEAN, LegacyWrite(on) PROVE TickTypes'
  BY <1>12 DEF LegacyWrite
<1>13. CASE TimePasses
  BY <1>13 DEF TimePasses
<1>14. CASE LeaseExpires
  BY <1>14 DEF LeaseExpires
<1> QED
  BY <1>1, <1>2, <1>3, <1>4, <1>5, <1>6, <1>7, <1>8, <1>9, <1>10, <1>11, <1>12, <1>13, <1>14
     DEF Next, Tick, Operate

(* What goes wrong is counted.                                                  *)
LEMMA MishapStep == MishapTypes /\ Next => MishapTypes'
<1> SUFFICES ASSUME MishapTypes, Next PROVE MishapTypes'
  OBVIOUS
<1> USE ScheduleAssumption DEF MishapTypes, scheduleVars, runVars, tickVars, boundVars
<1>1. ASSUME NEW t \in Tickers, Claim(t) PROVE MishapTypes'
  BY <1>1 DEF Claim, Claimable
<1>2. ASSUME NEW t \in Tickers, Enqueue(t) PROVE MishapTypes'
  <2>1. faults' = faults \/ (Trouble /\ faults' = faults + 1)
    BY <1>2 DEF Enqueue
  <2> QED BY <1>2, <2>1 DEF Enqueue, Trouble
<1>3. ASSUME NEW t \in Tickers, Finish(t) PROVE MishapTypes'
  BY <1>3 DEF Finish, Complete, Leave
<1>4. ASSUME NEW t \in Tickers, Crash(t) PROVE MishapTypes'
  BY <1>4 DEF Crash, Trouble, Leave
<1>5. CASE ReconcileLegacy
  BY <1>5 DEF ReconcileLegacy
<1>6. ASSUME NEW k \in Gens \X Slots, Observe(k) PROVE MishapTypes'
  BY <1>6 DEF Observe, Unobserved
<1>7. ASSUME NEW k \in Gens \X Slots, NEW s \in Ended \union {"cancelling"}, RunEnds(k, s)
      PROVE  MishapTypes'
  BY <1>7 DEF RunEnds
<1>8. ASSUME NEW v \in Versions, NEW on \in BOOLEAN, Upsert(v, on) PROVE MishapTypes'
  BY <1>8 DEF Upsert, Edit
<1>9. CASE Pause
  BY <1>9 DEF Pause, Edit
<1>10. CASE Resume
  BY <1>10 DEF Resume, Edit
<1>11. CASE Delete
  BY <1>11 DEF Delete
<1>12. ASSUME NEW on \in BOOLEAN, LegacyWrite(on) PROVE MishapTypes'
  BY <1>12 DEF LegacyWrite, Edit
<1>13. CASE TimePasses
  BY <1>13 DEF TimePasses
<1>14. CASE LeaseExpires
  BY <1>14 DEF LeaseExpires, Trouble
<1> QED
  BY <1>1, <1>2, <1>3, <1>4, <1>5, <1>6, <1>7, <1>8, <1>9, <1>10, <1>11, <1>12, <1>13, <1>14
     DEF Next, Tick, Operate

(* A claim takes the next fence of the row; a row that was deleted comes back as *)
(* a later generation, which no claim of the earlier one names.                  *)
LEMMA ClaimsStep == RowTypes /\ TickTypes /\ ClaimsAreFenced /\ Next => ClaimsAreFenced'
<1> SUFFICES ASSUME RowTypes /\ TickTypes /\ ClaimsAreFenced, Next PROVE ClaimsAreFenced'
  OBVIOUS
<1> USE  DEF RowTypes, TickTypes, scheduleVars, runVars, tickVars, boundVars
<1>1. ASSUME NEW t \in Tickers, Claim(t) PROVE ClaimsAreFenced'
  <2>1. /\ row' = [row EXCEPT ![t] = [gen |-> gen, slot |-> due, fence |-> fence + 1,
                                      failures |-> failures, version |-> version]]
        /\ pc' = [pc EXCEPT ![t] = "enqueue"]
        /\ exists /\ due # 0 /\ due <= clock /\ fence' = fence + 1
        /\ UNCHANGED <<exists, gen, clock, edits>>
    BY <1>1 DEF Claim, Claimable
  <2>2. \A u \in Tickers : u # t => row'[u] = row[u] /\ pc'[u] = pc[u]
    BY <2>1
  <2>3. /\ row'[t].gen = gen /\ row'[t].slot = due /\ row'[t].fence = fence + 1
        /\ pc'[t] = "enqueue"
    BY <2>1
  <2>4. \A u \in Tickers : u # t /\ pc[u] # "idle" /\ row[u].gen = gen => row[u].fence # fence + 1
    BY <2>1 DEF ClaimsAreFenced
  <2>5. \A u \in Tickers : pc'[u] # "idle" =>
          /\ row'[u].gen \in 1 .. gen' /\ row'[u].slot \in 1 .. MaxClock
          /\ exists' /\ row'[u].gen = gen' => row'[u].fence <= fence'
    <3> SUFFICES ASSUME NEW u \in Tickers, pc'[u] # "idle"
                 PROVE  /\ row'[u].gen \in 1 .. gen' /\ row'[u].slot \in 1 .. MaxClock
                        /\ exists' /\ row'[u].gen = gen' => row'[u].fence <= fence'
      OBVIOUS
    <3>1. CASE u = t
      BY <2>1, <2>3, <3>1, ScheduleAssumption
    <3>2. CASE u # t
      BY <2>1, <2>2, <3>2 DEF ClaimsAreFenced
    <3> QED BY <3>1, <3>2
  <2>6. \A u, w \in Tickers :
          /\ pc'[u] # "idle" /\ pc'[w] # "idle"
          /\ row'[u].gen = row'[w].gen /\ row'[u].fence = row'[w].fence
          => u = w
    BY <2>2, <2>3, <2>4 DEF ClaimsAreFenced
  <2> QED BY <2>1, <2>5, <2>6 DEF ClaimsAreFenced
<1>2. ASSUME NEW t \in Tickers, Enqueue(t) PROVE ClaimsAreFenced'
  <2>1. /\ UNCHANGED <<exists, gen, fence, edits, row>>
        /\ \A u \in Tickers : pc'[u] # "idle" => pc[u] # "idle"
    BY <1>2 DEF Enqueue
  <2> QED BY <2>1 DEF ClaimsAreFenced
<1>3. ASSUME NEW t \in Tickers, Finish(t) PROVE ClaimsAreFenced'
  <2>1. /\ UNCHANGED <<exists, gen, fence, edits>>
        /\ pc' = [pc EXCEPT ![t] = "idle"] /\ row' = [row EXCEPT ![t] = NoRow]
    BY <1>3 DEF Finish, Leave
  <2>2. \A u \in Tickers : pc'[u] # "idle" => pc[u] # "idle" /\ row'[u] = row[u]
    BY <2>1
  <2> QED BY <2>1, <2>2 DEF ClaimsAreFenced
<1>4. ASSUME NEW t \in Tickers, Crash(t) PROVE ClaimsAreFenced'
  <2>1. /\ UNCHANGED <<exists, gen, fence, edits>>
        /\ pc' = [pc EXCEPT ![t] = "idle"] /\ row' = [row EXCEPT ![t] = NoRow]
    BY <1>4 DEF Crash, Leave
  <2>2. \A u \in Tickers : pc'[u] # "idle" => pc[u] # "idle" /\ row'[u] = row[u]
    BY <2>1
  <2> QED BY <2>1, <2>2 DEF ClaimsAreFenced
<1>5. CASE ReconcileLegacy
  BY <1>5 DEF ReconcileLegacy, ClaimsAreFenced
<1>6. ASSUME NEW k \in Gens \X Slots, Observe(k) PROVE ClaimsAreFenced'
  BY <1>6 DEF Observe, ClaimsAreFenced
<1>7. ASSUME NEW k \in Gens \X Slots, NEW s \in Ended \union {"cancelling"}, RunEnds(k, s)
      PROVE  ClaimsAreFenced'
  BY <1>7 DEF RunEnds, ClaimsAreFenced
<1>8. ASSUME NEW v \in Versions, NEW on \in BOOLEAN, Upsert(v, on) PROVE ClaimsAreFenced'
  <2>1. CASE exists
    BY <1>8, <2>1 DEF Upsert, Edit, ClaimsAreFenced
  <2>2. CASE ~exists
    <3>1. gen' = gen + 1 /\ edits' = edits + 1 /\ UNCHANGED <<pc, row>>
      BY <1>8, <2>2 DEF Upsert, Edit
    <3>2. \A u \in Tickers : pc[u] # "idle" => row[u].gen \in 1 .. gen
      BY DEF ClaimsAreFenced
    <3> QED BY <3>1, <3>2 DEF ClaimsAreFenced
  <2> QED BY <2>1, <2>2
<1>9. CASE Pause
  BY <1>9 DEF Pause, ClaimsAreFenced, Edit
<1>10. CASE Resume
  BY <1>10 DEF Resume, ClaimsAreFenced, Edit
<1>11. CASE Delete
  BY <1>11 DEF Delete, ClaimsAreFenced
<1>12. ASSUME NEW on \in BOOLEAN, LegacyWrite(on) PROVE ClaimsAreFenced'
  BY <1>12 DEF LegacyWrite, ClaimsAreFenced, Edit
<1>13. CASE TimePasses
  BY <1>13 DEF TimePasses, ClaimsAreFenced
<1>14. CASE LeaseExpires
  BY <1>14 DEF LeaseExpires, ClaimsAreFenced
<1> QED
  BY <1>1, <1>2, <1>3, <1>4, <1>5, <1>6, <1>7, <1>8, <1>9, <1>10, <1>11, <1>12, <1>13, <1>14
     DEF Next, Tick, Operate

-----------------------------------------------------------------------------
(* Completion *)

(* Only the owner of the lease completes, and it gives the lease up; so does     *)
(* everybody else who moves the due slot or finds the row changed.               *)
LEMMA OwnerStep ==
    RowTypes /\ TickTypes /\ ClaimsAreFenced /\ OwnerHasDueSlot /\ Next
        => OwnerHasDueSlot'
<1> SUFFICES ASSUME RowTypes /\ TickTypes /\ ClaimsAreFenced /\ OwnerHasDueSlot,
                    Next
             PROVE  OwnerHasDueSlot'
  OBVIOUS
<1> USE  DEF RowTypes, TickTypes, scheduleVars, runVars, tickVars, boundVars
<1>1. ASSUME NEW t \in Tickers, Claim(t) PROVE OwnerHasDueSlot'
  <2>1. /\ UNCHANGED <<exists, gen, due, fresh>> /\ fence' = fence + 1 /\ exists
        /\ \A u \in Tickers : u # t => row'[u] = row[u] /\ pc'[u] = pc[u]
        /\ row'[t].slot = due
    BY <1>1 DEF Claim, Claimable
  <2>2. \A u \in Tickers : pc[u] # "idle" /\ row[u].gen = gen => row[u].fence # fence + 1
    BY <2>1 DEF ClaimsAreFenced
  <2> QED BY <2>1, <2>2 DEF OwnerHasDueSlot, Owns
<1>2. ASSUME NEW t \in Tickers, Enqueue(t) PROVE OwnerHasDueSlot'
  <2>1. /\ UNCHANGED <<exists, gen, fence, fresh, due, lease, row>>
        /\ \A u \in Tickers : pc'[u] # "idle" => pc[u] # "idle"
    BY <1>2 DEF Enqueue
  <2> QED BY <2>1 DEF OwnerHasDueSlot, Owns
<1>3. ASSUME NEW t \in Tickers, Finish(t) PROVE OwnerHasDueSlot'
  <2>1. /\ UNCHANGED <<exists, gen, fence, fresh>>
        /\ \A u \in Tickers : pc'[u] # "idle" => pc[u] # "idle" /\ row'[u] = row[u] /\ u # t
    BY <1>3 DEF Finish, Leave
  <2>2. CASE Owns(t)
    <3>1. lease' = "none"
      BY <1>3, <2>2 DEF Finish
    <3> QED BY <3>1 DEF OwnerHasDueSlot, Owns
  <2>3. CASE ~Owns(t)
    <3>1. UNCHANGED <<due, lease>>
      BY <1>3, <2>3 DEF Finish
    <3> QED BY <2>1, <3>1 DEF OwnerHasDueSlot, Owns
  <2> QED BY <2>2, <2>3
<1>4. ASSUME NEW t \in Tickers, Crash(t) PROVE OwnerHasDueSlot'
  <2>1. /\ UNCHANGED <<exists, gen, fence, fresh, due, lease>>
        /\ \A u \in Tickers : pc'[u] # "idle" => pc[u] # "idle" /\ row'[u] = row[u]
    BY <1>4 DEF Crash, Leave
  <2> QED BY <2>1 DEF OwnerHasDueSlot, Owns
<1>5. CASE ReconcileLegacy
  <2>1. lease' = "none"
    BY <1>5 DEF ReconcileLegacy
  <2> QED BY <2>1 DEF OwnerHasDueSlot, Owns
<1>6. ASSUME NEW k \in Gens \X Slots, Observe(k) PROVE OwnerHasDueSlot'
  <2>1. /\ UNCHANGED <<exists, gen, fence, fresh, lease, row, pc>>
        /\ due' = due \/ due' = 0
    BY <1>6 DEF Observe
  <2> QED BY <2>1 DEF OwnerHasDueSlot, Owns
<1>7. ASSUME NEW k \in Gens \X Slots, NEW s \in Ended \union {"cancelling"}, RunEnds(k, s)
      PROVE  OwnerHasDueSlot'
  BY <1>7 DEF RunEnds, OwnerHasDueSlot, Owns
<1>8. ASSUME NEW v \in Versions, NEW on \in BOOLEAN, Upsert(v, on) PROVE OwnerHasDueSlot'
  <2>1. lease' = "none"
    BY <1>8 DEF Upsert
  <2> QED BY <2>1 DEF OwnerHasDueSlot, Owns
<1>9. CASE Pause
  <2>1. lease' = "none"
    BY <1>9 DEF Pause
  <2> QED BY <2>1 DEF OwnerHasDueSlot, Owns
<1>10. CASE Resume
  <2>1. lease' = "none"
    BY <1>10 DEF Resume
  <2> QED BY <2>1 DEF OwnerHasDueSlot, Owns
<1>11. CASE Delete
  <2>1. lease' = "none"
    BY <1>11 DEF Delete
  <2> QED BY <2>1 DEF OwnerHasDueSlot, Owns
<1>12. ASSUME NEW on \in BOOLEAN, LegacyWrite(on) PROVE OwnerHasDueSlot'
  BY <1>12 DEF LegacyWrite, OwnerHasDueSlot, Owns
<1>13. CASE TimePasses
  BY <1>13 DEF TimePasses, OwnerHasDueSlot, Owns
<1>14. CASE LeaseExpires
  BY <1>14 DEF LeaseExpires, OwnerHasDueSlot, Owns
<1> QED
  BY <1>1, <1>2, <1>3, <1>4, <1>5, <1>6, <1>7, <1>8, <1>9, <1>10, <1>11, <1>12, <1>13, <1>14
     DEF Next, Tick, Operate

(* A slot's run does not go away, whoever enqueued it.                           *)
LEMMA EnqueuedStep ==
    RowTypes /\ TickTypes /\ RunTypes /\ ClaimsAreFenced /\ EnqueuedHasRun /\ Next
        => EnqueuedHasRun'
<1> SUFFICES ASSUME RowTypes /\ TickTypes /\ RunTypes /\ ClaimsAreFenced /\ EnqueuedHasRun,
                    Next
             PROVE  EnqueuedHasRun'
  OBVIOUS
<1> USE  DEF TickTypes, scheduleVars, runVars, tickVars, boundVars
<1>1. ASSUME NEW t \in Tickers, Claim(t) PROVE EnqueuedHasRun'
  <2>1. ~enqueued[t] /\ UNCHANGED <<enqueued, run>>
    BY <1>1 DEF Claim, EnqueuedHasRun
  <2>2. \A u \in Tickers : u # t => pc'[u] = pc[u] /\ row'[u] = row[u]
    BY <1>1 DEF Claim
  <2> QED BY <2>1, <2>2 DEF EnqueuedHasRun
<1>2. ASSUME NEW t \in Tickers, Enqueue(t) PROVE EnqueuedHasRun'
  <2> DEFINE k == <<row[t].gen, row[t].slot>>
  <2>1. k \in Gens \X Slots /\ UNCHANGED row /\ pc'[t] = "finish"
    BY <1>2, ClaimedKey DEF Enqueue
  <2>2. \A u \in Tickers : u # t => pc'[u] = pc[u] /\ enqueued'[u] = enqueued[u]
    BY <1>2 DEF Enqueue
  <2>3. \A j \in Gens \X Slots : run[j] # "none" => run'[j] # "none"
    BY <1>2, <2>1 DEF Enqueue, RunTypes
  <2>4. enqueued'[t] => run'[k] # "none"
    BY <1>2, <2>1 DEF Enqueue, RunTypes
  <2>5. ASSUME NEW u \in Tickers, u # t, enqueued[u]
        PROVE  run'[<<row[u].gen, row[u].slot>>] # "none"
    BY <2>3, <2>5, ClaimedKey DEF EnqueuedHasRun
  <2>6. ASSUME NEW u \in Tickers, enqueued'[u]
        PROVE  pc'[u] = "finish" /\ run'[<<row'[u].gen, row'[u].slot>>] # "none"
    BY <2>1, <2>2, <2>4, <2>5, <2>6 DEF EnqueuedHasRun
  <2> QED BY <2>6 DEF EnqueuedHasRun
<1>3. ASSUME NEW t \in Tickers, Finish(t) PROVE EnqueuedHasRun'
  <2>1. /\ UNCHANGED run /\ ~enqueued'[t]
        /\ \A u \in Tickers :
             u # t => pc'[u] = pc[u] /\ row'[u] = row[u] /\ enqueued'[u] = enqueued[u]
    BY <1>3 DEF Finish, Leave
  <2> QED BY <2>1 DEF EnqueuedHasRun
<1>4. ASSUME NEW t \in Tickers, Crash(t) PROVE EnqueuedHasRun'
  <2>1. /\ UNCHANGED run /\ ~enqueued'[t]
        /\ \A u \in Tickers :
             u # t => pc'[u] = pc[u] /\ row'[u] = row[u] /\ enqueued'[u] = enqueued[u]
    BY <1>4 DEF Crash, Leave
  <2> QED BY <2>1 DEF EnqueuedHasRun
<1>5. CASE ReconcileLegacy
  BY <1>5 DEF ReconcileLegacy, EnqueuedHasRun
<1>6. ASSUME NEW k \in Gens \X Slots, Observe(k) PROVE EnqueuedHasRun'
  BY <1>6 DEF Observe, EnqueuedHasRun
<1>7. ASSUME NEW k \in Gens \X Slots, NEW s \in Ended \union {"cancelling"}, RunEnds(k, s)
      PROVE  EnqueuedHasRun'
  <2>1. /\ UNCHANGED <<pc, row, enqueued>>
        /\ \A j \in Gens \X Slots : run[j] # "none" => run'[j] # "none"
    BY <1>7 DEF RunEnds, RunTypes, Ended
  <2>2. ASSUME NEW u \in Tickers, enqueued[u]
        PROVE  run'[<<row[u].gen, row[u].slot>>] # "none"
    BY <2>1, <2>2, ClaimedKey DEF EnqueuedHasRun
  <2> QED BY <2>1, <2>2 DEF EnqueuedHasRun
<1>8. ASSUME NEW v \in Versions, NEW on \in BOOLEAN, Upsert(v, on) PROVE EnqueuedHasRun'
  BY <1>8 DEF Upsert, EnqueuedHasRun
<1>9. CASE Pause
  BY <1>9 DEF Pause, EnqueuedHasRun
<1>10. CASE Resume
  BY <1>10 DEF Resume, EnqueuedHasRun
<1>11. CASE Delete
  BY <1>11 DEF Delete, EnqueuedHasRun
<1>12. ASSUME NEW on \in BOOLEAN, LegacyWrite(on) PROVE EnqueuedHasRun'
  BY <1>12 DEF LegacyWrite, EnqueuedHasRun
<1>13. CASE TimePasses
  BY <1>13 DEF TimePasses, EnqueuedHasRun
<1>14. CASE LeaseExpires
  BY <1>14 DEF LeaseExpires, EnqueuedHasRun
<1> QED
  BY <1>1, <1>2, <1>3, <1>4, <1>5, <1>6, <1>7, <1>8, <1>9, <1>10, <1>11, <1>12, <1>13, <1>14
     DEF Next, Tick, Operate

(* A paused schedule is not claimed, and its pause has released the lease.       *)
LEMMA PauseStep == ManualPauseStands /\ Next => ManualPauseStands'
<1> SUFFICES ASSUME ManualPauseStands, Next PROVE ManualPauseStands'
  OBVIOUS
<1> USE  DEF ManualPauseStands, scheduleVars, runVars, tickVars, boundVars
<1>1. ASSUME NEW t \in Tickers, Claim(t) PROVE ManualPauseStands'
  BY <1>1 DEF Claim, ManualPauseStands, Claimable
<1>2. ASSUME NEW t \in Tickers, Enqueue(t) PROVE ManualPauseStands'
  BY <1>2 DEF Enqueue, ManualPauseStands
<1>3. ASSUME NEW t \in Tickers, Finish(t) PROVE ManualPauseStands'
  <2>1. CASE Owns(t)
    <3>1. reason' # "manual"
      BY <1>3, <2>1 DEF Finish, Complete
    <3> QED BY <3>1 DEF ManualPauseStands
  <2>2. CASE ~Owns(t)
    BY <1>3, <2>2 DEF Finish, ManualPauseStands
  <2> QED BY <2>1, <2>2
<1>4. ASSUME NEW t \in Tickers, Crash(t) PROVE ManualPauseStands'
  BY <1>4 DEF Crash, ManualPauseStands
<1>5. CASE ReconcileLegacy
  BY <1>5 DEF ReconcileLegacy, ManualPauseStands
<1>6. ASSUME NEW k \in Gens \X Slots, Observe(k) PROVE ManualPauseStands'
  BY <1>6 DEF Observe, ManualPauseStands
<1>7. ASSUME NEW k \in Gens \X Slots, NEW s \in Ended \union {"cancelling"}, RunEnds(k, s)
      PROVE  ManualPauseStands'
  BY <1>7 DEF RunEnds, ManualPauseStands
<1>8. ASSUME NEW v \in Versions, NEW on \in BOOLEAN, Upsert(v, on)
      PROVE  ManualPauseStands'
  BY <1>8 DEF Upsert, ManualPauseStands
<1>9. CASE Pause
  BY <1>9 DEF Pause, ManualPauseStands
<1>10. CASE Resume
  BY <1>10 DEF Resume, ManualPauseStands
<1>11. CASE Delete
  BY <1>11 DEF Delete, ManualPauseStands
<1>12. ASSUME NEW on \in BOOLEAN, LegacyWrite(on) PROVE ManualPauseStands'
  BY <1>12 DEF LegacyWrite, ManualPauseStands
<1>13. CASE TimePasses
  BY <1>13 DEF TimePasses, ManualPauseStands
<1>14. CASE LeaseExpires
  BY <1>14 DEF LeaseExpires, ManualPauseStands
<1> QED
  BY <1>1, <1>2, <1>3, <1>4, <1>5, <1>6, <1>7, <1>8, <1>9, <1>10, <1>11, <1>12, <1>13, <1>14
     DEF Next, Tick, Operate

(* Whoever makes the schedule active gives it a due slot and clears its reason. *)
LEMMA ActiveStep == RowTypes /\ TickTypes /\ ClaimsAreFenced /\ ActiveIsDue /\ Next => ActiveIsDue'
<1> SUFFICES ASSUME RowTypes /\ TickTypes /\ ClaimsAreFenced /\ ActiveIsDue, Next
             PROVE  ActiveIsDue'
  OBVIOUS
<1> USE DEF scheduleVars, runVars, tickVars, boundVars
<1>1. ASSUME UNCHANGED <<exists, fresh, status, enabled, reason, due>> PROVE ActiveIsDue'
  BY <1>1 DEF ActiveIsDue
<1>2. ASSUME NEW t \in Tickers, Claim(t) \/ Enqueue(t) \/ Crash(t) PROVE ActiveIsDue'
  BY <1>1, <1>2 DEF Claim, Enqueue, Crash
<1>3. ASSUME NEW t \in Tickers, Finish(t) PROVE ActiveIsDue'
  <2>1. CASE Owns(t)
    <3>1. row[t].slot \in Nat /\ Complete(t)
      BY <1>3, <2>1 DEF Finish, TickTypes
    <3>2. CASE failures' >= Threshold
      BY <3>1, <3>2 DEF Complete, ActiveIsDue
    <3>3. CASE ~(failures' >= Threshold)
      <4>1. reason' = "none" /\ due' # 0
        BY <3>1, <3>3 DEF Complete
      <4>2. enabled'
        BY <3>1, <3>3, Zenon DEF Complete
      <4> QED BY <4>1, <4>2 DEF ActiveIsDue
    <3> QED BY <3>2, <3>3
  <2>2. CASE ~Owns(t)
    BY <1>1, <1>3, <2>2 DEF Finish
  <2> QED BY <2>1, <2>2
<1>4. CASE ReconcileLegacy
  <2>1. clock # 0
    BY DEF RowTypes
  <2>2. status' = "active" => enabled /\ reason' = "none" /\ due' # 0
    BY <1>4, <2>1 DEF ReconcileLegacy
  <2>3. enabled' = enabled
    BY <1>4 DEF ReconcileLegacy
  <2> QED BY <2>2, <2>3, Zenon DEF ActiveIsDue
<1>5. ASSUME NEW k \in Gens \X Slots, Observe(k) PROVE ActiveIsDue'
  <2>1. CASE exists /\ k[1] = gen
    <3>1. /\ status' = "active" => status = "active" /\ reason' = reason /\ due' = due
          /\ UNCHANGED <<exists, fresh>>
      BY <1>5, <2>1 DEF Observe
    <3>2. status' = "active" => enabled' = enabled
      BY <1>5, <2>1 DEF Observe, RowTypes
    <3> QED BY <3>1, <3>2, Zenon DEF ActiveIsDue
  <2>2. CASE ~(exists /\ k[1] = gen)
    BY <1>1, <1>5, <2>2 DEF Observe
  <2> QED BY <2>1, <2>2
<1>6. ASSUME NEW k \in Gens \X Slots, NEW s \in Ended \union {"cancelling"}, RunEnds(k, s)
      PROVE  ActiveIsDue'
  BY <1>1, <1>6 DEF RunEnds
<1>7. ASSUME NEW v \in Versions, NEW on \in BOOLEAN, Upsert(v, on) PROVE ActiveIsDue'
  <2>1. clock # 0
    BY DEF RowTypes
  <2>2. status' = "active" => on /\ reason' = "none" /\ due' # 0
    BY <1>7, <2>1 DEF Upsert
  <2>3. enabled' = on
    BY <1>7 DEF Upsert
  <2> QED BY <2>2, <2>3, Zenon DEF ActiveIsDue
<1>8. CASE Pause \/ Delete
  BY <1>8 DEF Pause, Delete, ActiveIsDue
<1>9. CASE Resume
  BY <1>9 DEF Resume, ActiveIsDue, RowTypes
<1>10. ASSUME NEW on \in BOOLEAN, LegacyWrite(on) PROVE ActiveIsDue'
  BY <1>10 DEF LegacyWrite, ActiveIsDue
<1>11. CASE TimePasses \/ LeaseExpires
  BY <1>1, <1>11 DEF TimePasses, LeaseExpires
<1> QED
  BY <1>2, <1>3, <1>4, <1>5, <1>6, <1>7, <1>8, <1>9, <1>10, <1>11 DEF Next, Tick, Operate

(* A step that changes nothing keeps the invariant. *)
LEMMA StutterKeeps == ScheduleInv /\ UNCHANGED vars => ScheduleInv'
BY DEF ScheduleInv, TypeOK, ClaimsAreFenced, OwnerHasDueSlot, Owns, EnqueuedHasRun,
       ManualPauseStands, ActiveIsDue, vars, scheduleVars, runVars, tickVars, boundVars

(* An operator has just created the schedule, and no tick runs yet. *)
LEMMA InitHolds == Init => ScheduleInv
<1> SUFFICES ASSUME Init PROVE ScheduleInv
  OBVIOUS
<1>1. ClaimsAreFenced
  BY ScheduleAssumption DEF Init, ClaimsAreFenced
<1>2. OwnerHasDueSlot /\ EnqueuedHasRun /\ ManualPauseStands /\ ActiveIsDue
  BY DEF Init, OwnerHasDueSlot, EnqueuedHasRun, ManualPauseStands, ActiveIsDue
<1>3. RowTypes
  BY ScheduleAssumption DEF Init, RowTypes
<1>4. RunTypes
  BY DEF Init, RunTypes, Ended
<1>5. TickTypes /\ MishapTypes
  BY ScheduleAssumption, NoRowType DEF Init, TickTypes, MishapTypes
<1> QED BY <1>1, <1>2, <1>3, <1>4, <1>5, TypeParts DEF ScheduleInv

(* There are as many generations as upserts allow. *)
LEMMA GenInRange ==
    ASSUME NEW g \in Nat, NEW e \in 0 .. MaxEdits, g >= 1, g <= 1 + e
    PROVE  g \in Gens
BY ScheduleAssumption DEF Gens

(* Every step keeps the invariant. *)
LEMMA StepKeeps == ScheduleInv /\ [Next]_vars => ScheduleInv'
<1>1. ASSUME ScheduleInv, Next PROVE ScheduleInv'
  <2>1. RowTypes /\ RunTypes /\ TickTypes /\ MishapTypes
    BY <1>1, TypeParts DEF ScheduleInv
  <2>2. ClaimsAreFenced'
    BY <1>1, <2>1, ClaimsStep DEF ScheduleInv
  <2>3. OwnerHasDueSlot' /\ EnqueuedHasRun' /\ ManualPauseStands' /\ ActiveIsDue'
    BY <1>1, <2>1, OwnerStep, EnqueuedStep, PauseStep, ActiveStep DEF ScheduleInv
  <2>4. RowTypes' /\ RunTypes' /\ TickTypes' /\ MishapTypes'
    BY <1>1, <2>1, RowStep, RunStep, TickStep, MishapStep DEF ScheduleInv
  <2>5. TypeOK'
    <3>1. gen' \in Nat /\ gen' >= 1 /\ gen' <= 1 + edits' /\ edits' \in 0 .. MaxEdits
      BY <2>4 DEF RowTypes
    <3>2. gen' \in Gens
      BY <3>1, GenInRange
    <3> QED BY <2>4, <3>2 DEF TypeOK, RowTypes, RunTypes, TickTypes, MishapTypes
  <2> QED BY <2>2, <2>3, <2>5 DEF ScheduleInv
<1> QED BY <1>1, StutterKeeps

(* Claims are fenced, and completed by their owner only, whatever ticks,        *)
(* operators, the previous release and the clock do in between.                 *)
THEOREM ScheduleStaysConsistent == Spec => []ScheduleInv
BY InitHolds, StepKeeps, PTL DEF Spec

-----------------------------------------------------------------------------
(* Action properties *)

(* The due slot moves only by a completion, which goes to the next slot and     *)
(* knows of this slot's run or counts its failure.                              *)
LEMMA OrderStep ==
    ASSUME ScheduleInv, Next, exists, exists', fresh, edits' = edits, due # 0, due' # 0
    PROVE  /\ due' >= due
           /\ due' > due => run[<<gen, due>>] # "none" \/ failures' > 0
<1> DEFINE Ordered == /\ due' >= due
                      /\ due' > due => run[<<gen, due>>] # "none" \/ failures' > 0
<1>1. due \in Nat /\ edits \in Nat
  BY ScheduleAssumption DEF ScheduleInv, TypeOK
<1>2. ASSUME NEW t \in Tickers, Finish(t), Owns(t) PROVE Ordered
  <2>1. row[t].slot = due /\ row[t].gen = gen /\ row[t].failures \in Nat
    BY <1>2 DEF Finish, Owns, ScheduleInv, OwnerHasDueSlot, TypeOK
  <2>2. due' = due + 1 /\ failures' = IF enqueued[t] THEN row[t].failures ELSE row[t].failures + 1
    BY <1>2, <2>1 DEF Finish, Complete
  <2>3. enqueued[t] => run[<<gen, due>>] # "none"
    BY <2>1 DEF ScheduleInv, EnqueuedHasRun
  <2> QED BY <1>1, <2>1, <2>2, <2>3
<1>3. ASSUME due' = due PROVE Ordered
  BY <1>1, <1>3
<1>4. ASSUME NEW t \in Tickers, Tick(t) \/ Crash(t) PROVE Ordered
  BY <1>2, <1>3, <1>4 DEF Tick, Claim, Enqueue, Finish, Crash, scheduleVars
<1>5. CASE ReconcileLegacy \/ TimePasses \/ LeaseExpires
  BY <1>3, <1>5 DEF ReconcileLegacy, TimePasses, LeaseExpires, scheduleVars
<1>6. ASSUME NEW k \in Gens \X Slots, Observe(k) PROVE Ordered
  BY <1>3, <1>6 DEF Observe
<1>7. ASSUME NEW k \in Gens \X Slots, NEW s \in Ended \union {"cancelling"}, RunEnds(k, s)
      PROVE  Ordered
  BY <1>3, <1>7 DEF RunEnds, scheduleVars
<1>8. CASE Operate
  BY <1>1, <1>8 DEF Operate, Edit, Upsert, Pause, Resume, Delete, LegacyWrite
<1> QED BY <1>4, <1>5, <1>6, <1>7, <1>8 DEF Next

(* Slots are taken in order: a late tick replays none and skips none.           *)
THEOREM SlotsAreTakenInOrder == Spec => SlotsInOrder
<1> DEFINE Moves == exists /\ exists' /\ fresh /\ edits' = edits /\ due # 0 /\ due' # 0
           Ordered == /\ due' >= due
                      /\ due' > due => run[<<gen, due>>] # "none" \/ failures' > 0
<1>1. ScheduleInv /\ [Next]_vars => [Moves => Ordered]_vars
  BY OrderStep
<1> QED BY <1>1, ScheduleStaysConsistent, PTL DEF Spec, SlotsInOrder

(* No tick, observation or legacy reconciliation takes a manual pause back.     *)
LEMMA PauseKept ==
    ASSUME ScheduleInv, Next, exists, reason = "manual", fresh, edits' = edits
    PROVE  status' = "paused"
<1>1. status = "paused" /\ lease = "none" /\ edits \in Nat
  BY ScheduleAssumption DEF ScheduleInv, ManualPauseStands, TypeOK
<1>2. ASSUME NEW t \in Tickers, Tick(t) \/ Crash(t) PROVE status' = "paused"
  BY <1>1, <1>2 DEF Tick, Claim, Enqueue, Finish, Owns, Crash, scheduleVars
<1>3. CASE ReconcileLegacy \/ TimePasses \/ LeaseExpires
  BY <1>1, <1>3 DEF ReconcileLegacy, TimePasses, LeaseExpires, scheduleVars
<1>4. ASSUME NEW k \in Gens \X Slots, Observe(k) PROVE status' = "paused"
  BY <1>1, <1>4 DEF Observe
<1>5. ASSUME NEW k \in Gens \X Slots, NEW s \in Ended \union {"cancelling"}, RunEnds(k, s)
      PROVE  status' = "paused"
  BY <1>1, <1>5 DEF RunEnds, scheduleVars
<1>6. CASE Operate
  <2>1. ~Edit
    BY <1>1 DEF Edit
  <2>2. Delete
    BY <1>6, <2>1 DEF Operate, Upsert, Pause, Resume, LegacyWrite
  <2> QED BY <2>2 DEF Delete
<1> QED BY <1>2, <1>3, <1>4, <1>5, <1>6 DEF Next

(* A manual pause holds until somebody edits the schedule.                      *)
THEOREM ManualPauseStaysPaused == Spec => ManualPauseHolds
<1> DEFINE Paused == exists /\ reason = "manual" /\ fresh /\ edits' = edits
<1>1. ScheduleInv /\ [Next]_vars => [Paused => status' = "paused"]_vars
  BY PauseKept
<1> QED BY <1>1, ScheduleStaysConsistent, PTL DEF Spec, ManualPauseHolds

(* Of all that happens to a schedule paused automatically, only a completion by  *)
(* the last claimant makes it active, and it takes the lease with it.            *)
LEMMA AutoPauseKept ==
    ASSUME ScheduleInv, Next, exists, reason = "auto", fresh, edits' = edits, status' # "paused"
    PROVE  /\ \E t \in Tickers : pc[t] = "finish" /\ row[t].gen = gen /\ row[t].fence = fence
           /\ lease # "none" /\ lease' = "none"
<1>1. status = "paused" /\ edits \in Nat
  BY ScheduleAssumption DEF ScheduleInv, ActiveIsDue, TypeOK
<1>2. PICK t \in Tickers : Finish(t) /\ Owns(t)
  <2>1. ASSUME NEW t \in Tickers, Claim(t) \/ Enqueue(t) \/ Crash(t) PROVE FALSE
    BY <1>1, <2>1 DEF Claim, Enqueue, Crash, scheduleVars
  <2>2. ASSUME NEW t \in Tickers, Finish(t), ~Owns(t) PROVE FALSE
    BY <1>1, <2>2 DEF Finish
  <2>3. CASE ReconcileLegacy \/ TimePasses \/ LeaseExpires
    BY <1>1, <2>3 DEF ReconcileLegacy, TimePasses, LeaseExpires, scheduleVars
  <2>4. ASSUME NEW k \in Gens \X Slots, Observe(k) PROVE FALSE
    BY <1>1, <2>4 DEF Observe
  <2>5. ASSUME NEW k \in Gens \X Slots, NEW s \in Ended \union {"cancelling"}, RunEnds(k, s)
        PROVE  FALSE
    BY <1>1, <2>5 DEF RunEnds, scheduleVars
  <2>6. CASE Operate
    <3>1. ~Edit
      BY <1>1 DEF Edit
    <3>2. Delete
      BY <2>6, <3>1 DEF Operate, Upsert, Pause, Resume, LegacyWrite
    <3> QED BY <3>2 DEF Delete
  <2> QED BY <2>1, <2>2, <2>3, <2>4, <2>5, <2>6 DEF Next, Tick
<1> QED BY <1>2 DEF Finish, Owns

(* A tick that was overtaken never takes an automatic pause back.               *)
THEOREM AutoPauseYieldsOnce == Spec => AutoPauseYieldsToOwner
<1> DEFINE Undone == exists /\ reason = "auto" /\ fresh /\ edits' = edits /\ status' # "paused"
           ByOwner == /\ \E t \in Tickers : pc[t] = "finish" /\ row[t].gen = gen /\ row[t].fence = fence
                      /\ lease # "none" /\ lease' = "none"
<1>1. ScheduleInv /\ [Next]_vars => [Undone => ByOwner]_vars
  BY AutoPauseKept
<1> QED BY <1>1, ScheduleStaysConsistent, PTL DEF Spec, AutoPauseYieldsToOwner
=============================================================================
