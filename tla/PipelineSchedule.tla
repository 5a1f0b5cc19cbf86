-------------------------- MODULE PipelineSchedule --------------------------
(***************************************************************************)
(* The durable schedule of one pipeline.  Scheduler ticks claim a due slot *)
(* under a lease with a fencing token, enqueue the slot's run under an     *)
(* idempotency key and advance the schedule; the control worker observes   *)
(* each scheduled run that ended, once, and counts consecutive failures;   *)
(* operators upsert, pause, resume and delete; a writer of the previous    *)
(* release may still touch the row, which the next tick reconciles.        *)
(*                                                                         *)
(* Time is a clock of slots: the interval is 1 and slot n is due at n.     *)
(* Runs end by themselves (PipelineRun is their model).                    *)
(***************************************************************************)
EXTENDS Naturals, FiniteSets

CONSTANTS
    Tickers,        \* concurrent scheduler ticks
    Versions,       \* deployed versions of the pipeline
    Threshold,      \* autoPauseAfterFailures
    MaxClock,       \* bound on time
    MaxEdits,       \* bound on operator and legacy writes other than deletes
    MaxMishaps      \* bound on ticks that die, leases that run out under a live
                    \* tick, and enqueue calls that raise by themselves, together

ASSUME ScheduleAssumption ==
    /\ Versions # {}
    /\ Threshold \in Nat \ {0}
    /\ MaxClock \in Nat \ {0} /\ MaxEdits \in Nat /\ MaxMishaps \in Nat

VARIABLES
    exists, gen,    \* the pipeline_schedules row, and how many there were
    version, status, enabled,
    reason,         \* paused_reason: "none", "manual", "disabled" or "auto"
    due,            \* next_due_at, 0 for NULL
    fresh,          \* runtime_config_updated_at = updated_at
    lease,          \* "none", "live" or "expired"
    fence, failures,
    run,            \* status of the run of each generation and slot
    runVersion,     \* the version it was enqueued with
    observed,       \* runs whose end the control worker has observed
    pc, row,        \* each tick's place, and the row it claimed
    enqueued,       \* the run it got back counts as enqueued
    clock, edits, crashes, stalls, faults

scheduleVars == <<exists, gen, version, status, enabled, reason, due, fresh, lease, fence, failures>>
runVars == <<run, runVersion, observed>>
tickVars == <<pc, row, enqueued>>
boundVars == <<clock, edits, crashes, stalls, faults>>
vars == <<scheduleVars, runVars, tickVars, boundVars>>

\* A delete is free, a new generation takes an upsert.
Gens == 1 .. 1 + MaxEdits

Slots == 1 .. MaxClock + 1

Ended == {"succeeded", "failed", "cancelled"}

NoRow == [gen |-> 0, slot |-> 0, fence |-> 0, failures |-> 0, version |-> CHOOSE v \in Versions : TRUE]

\* The variables have their types.
TypeOK ==
    /\ exists \in BOOLEAN /\ gen \in Gens /\ version \in Versions
    /\ status \in {"active", "paused"} /\ enabled \in BOOLEAN
    /\ reason \in {"none", "manual", "disabled", "auto"}
    /\ due \in 0 .. MaxClock + 1 /\ fresh \in BOOLEAN
    /\ lease \in {"none", "live", "expired"} /\ fence \in Nat /\ failures \in Nat
    /\ run \in [Gens \X Slots -> Ended \union {"none", "active", "cancelling"}]
    /\ runVersion \in [Gens \X Slots -> Versions]
    /\ observed \subseteq {k \in Gens \X Slots : run[k] \in Ended}
    /\ pc \in [Tickers -> {"idle", "enqueue", "finish"}]
    /\ row \in [Tickers -> [gen : Nat, slot : Nat, fence : Nat, failures : Nat, version : Versions]]
    /\ enqueued \in [Tickers -> BOOLEAN]
    /\ clock \in 1 .. MaxClock /\ edits \in 0 .. MaxEdits
    /\ crashes \in Nat /\ stalls \in Nat /\ faults \in Nat
    /\ crashes + stalls + faults <= MaxMishaps

\* An operator has just created the schedule.
Init ==
    /\ exists = TRUE /\ gen = 1 /\ version \in Versions
    /\ status = "active" /\ enabled = TRUE /\ reason = "none"
    /\ due = 1 /\ fresh = TRUE /\ lease = "none" /\ fence = 0 /\ failures = 0
    /\ run = [k \in Gens \X Slots |-> "none"]
    /\ runVersion = [k \in Gens \X Slots |-> version]
    /\ observed = {}
    /\ pc = [t \in Tickers |-> "idle"]
    /\ row = [t \in Tickers |-> NoRow]
    /\ enqueued = [t \in Tickers |-> FALSE]
    /\ clock = 1 /\ edits = 0 /\ crashes = 0 /\ stalls = 0 /\ faults = 0

\* One more thing may go wrong.
Trouble == crashes + stalls + faults < MaxMishaps

Leave(t) ==
    /\ pc' = [pc EXCEPT ![t] = "idle"]
    /\ row' = [row EXCEPT ![t] = NoRow]
    /\ enqueued' = [enqueued EXCEPT ![t] = FALSE]

-----------------------------------------------------------------------------
(* A tick *)

\* Mutant: only a released lease is free.
FreeReleased == lease = "none"

\* _lease_is_claimable.
Free == lease # "live"

\* claim_due_schedule.
Claimable == exists /\ enabled /\ status = "active" /\ fresh /\ due # 0 /\ due <= clock /\ Free

\* _claim_schedule: the tick keeps a copy of the row.
Claim(t) ==
    /\ pc[t] = "idle"
    /\ Claimable
    /\ lease' = "live" /\ fence' = fence + 1
    /\ row' = [row EXCEPT ![t] = [gen |-> gen, slot |-> due, fence |-> fence + 1,
                                  failures |-> failures, version |-> version]]
    /\ pc' = [pc EXCEPT ![t] = "enqueue"]
    /\ UNCHANGED <<exists, gen, version, status, enabled, reason, due, fresh, failures,
                   runVars, enqueued, boundVars>>

\* enqueue under the slot's idempotency key: a new run is queued; an existing one
\* is returned as it is, or conflicts when its request had another version; or
\* the call raises (restore mode, version no longer deployed, database).
Enqueue(t) ==
    LET k == <<row[t].gen, row[t].slot>>
        Got(ok) == enqueued' = [enqueued EXCEPT ![t] = ok]
    IN  /\ pc[t] = "enqueue"
        /\ \/ /\ run[k] = "none"
              /\ run' = [run EXCEPT ![k] = "active"]
              /\ runVersion' = [runVersion EXCEPT ![k] = row[t].version]
              /\ Got(TRUE) /\ UNCHANGED faults
           \/ /\ run[k] # "none"
              /\ Got(runVersion[k] = row[t].version /\ run[k] \in {"active", "succeeded"})
              /\ UNCHANGED <<run, runVersion, faults>>
           \/ /\ Trouble /\ faults' = faults + 1
              /\ Got(FALSE) /\ UNCHANGED <<run, runVersion>>
        /\ pc' = [pc EXCEPT ![t] = "finish"]
        /\ UNCHANGED <<scheduleVars, observed, row, clock, edits, crashes, stalls>>

\* Mutant: a completion that only names the row.
OwnsById(t) == exists /\ row[t].gen = gen

\* complete_schedule_tick: the claim is still the last one and was not released.
Owns(t) == exists /\ row[t].gen = gen /\ row[t].fence = fence /\ lease # "none"

\* completion_values: everything is computed from the claimed copy.
Complete(t) ==
    LET n == IF enqueued[t] THEN row[t].failures ELSE row[t].failures + 1
        pauses == n >= Threshold
    IN  /\ failures' = n
        /\ due' = IF pauses THEN 0 ELSE row[t].slot + 1
        /\ status' = IF pauses THEN "paused" ELSE "active"
        /\ enabled' = ~pauses
        /\ reason' = IF pauses THEN "auto" ELSE "none"

\* _finish_claim.
Finish(t) ==
    /\ pc[t] = "finish"
    /\ IF Owns(t)
       THEN Complete(t) /\ lease' = "none"
       ELSE UNCHANGED <<failures, due, status, enabled, reason, lease>>
    /\ Leave(t)
    /\ UNCHANGED <<exists, gen, version, fresh, fence, runVars, boundVars>>

\* _reconcile_legacy_schedule, in the tick's first transaction.
ReconcileLegacy ==
    /\ exists /\ ~fresh /\ Free
    /\ status' = IF enabled THEN "active" ELSE "paused"
    /\ due' = IF enabled THEN clock ELSE 0
    /\ reason' = IF enabled THEN "none" ELSE "disabled"
    /\ fresh' = TRUE /\ lease' = "none"
    /\ UNCHANGED <<exists, gen, version, enabled, fence, failures, runVars, tickVars, boundVars>>

-----------------------------------------------------------------------------
(* The control worker *)

\* claim_terminal_schedule_observation.
Unobserved(k) == run[k] \in Ended /\ k \notin observed

\* _observe_schedule_terminal on the locked schedule row, whose lease it keeps.
Observe(k) ==
    LET failed == run[k] = "failed"
        n == IF failed THEN failures + 1 ELSE 0
        pauses == n >= Threshold
    IN  /\ Unobserved(k)
        /\ observed' = observed \union {k}
        /\ IF exists /\ k[1] = gen
           THEN /\ failures' = n
                /\ status' = IF pauses THEN "paused" ELSE status
                /\ enabled' = (enabled /\ ~pauses)
                /\ reason' = IF pauses THEN "auto" ELSE reason
                /\ due' = IF pauses THEN 0 ELSE due
           ELSE UNCHANGED <<failures, status, enabled, reason, due>>
        /\ UNCHANGED <<exists, gen, version, fresh, lease, fence, run, runVersion, tickVars, boundVars>>

-----------------------------------------------------------------------------
(* Operators, and the previous release *)

Edit == edits < MaxEdits /\ edits' = edits + 1

\* upsert_schedule: updates the row, or inserts a new one after a delete.
Upsert(v, on) ==
    /\ Edit
    /\ exists' = TRUE /\ gen' = IF exists THEN gen ELSE gen + 1
    /\ version' = v /\ enabled' = on /\ status' = IF on THEN "active" ELSE "paused"
    /\ reason' = IF on THEN "none" ELSE "disabled"
    /\ due' = IF on THEN clock ELSE 0
    /\ fresh' = TRUE /\ lease' = "none" /\ failures' = 0
    /\ UNCHANGED <<fence, runVars, tickVars, clock, crashes, stalls, faults>>

\* Mutant: pausing leaves the lease with the tick that holds it.
PauseKeepsLease ==
    /\ Edit /\ exists
    /\ status' = "paused" /\ enabled' = FALSE /\ reason' = "manual" /\ fresh' = TRUE
    /\ due' \in 0 .. clock + 1
    /\ UNCHANGED <<exists, gen, version, lease, fence, failures, runVars, tickVars, clock, crashes,
                   stalls, faults>>

\* pause_schedule: update_schedule_status releases the lease, and writes back
\* the due time it read without a lock: whichever it was then.
Pause ==
    /\ Edit /\ exists
    /\ status' = "paused" /\ enabled' = FALSE /\ reason' = "manual" /\ fresh' = TRUE
    /\ lease' = "none" /\ due' \in 0 .. clock + 1
    /\ UNCHANGED <<exists, gen, version, fence, failures, runVars, tickVars, clock, crashes, stalls,
                   faults>>

\* Mutant: resuming leaves the lease with the tick that holds it.
ResumeKeepsLease ==
    /\ Edit /\ exists
    /\ status' = "active" /\ enabled' = TRUE /\ reason' = "none" /\ fresh' = TRUE
    /\ due' = clock + 1 /\ failures' = 0
    /\ UNCHANGED <<exists, gen, version, lease, fence, runVars, tickVars, clock, crashes, stalls,
                   faults>>

\* resume_schedule: the next slot after now, and a new failure count.
Resume ==
    /\ Edit /\ exists
    /\ status' = "active" /\ enabled' = TRUE /\ reason' = "none" /\ fresh' = TRUE
    /\ due' = clock + 1 /\ failures' = 0 /\ lease' = "none"
    /\ UNCHANGED <<exists, gen, version, fence, runVars, tickVars, clock, crashes, stalls, faults>>

\* delete_schedule: the columns are gone with the row.
Delete ==
    /\ exists /\ exists' = FALSE
    /\ status' = "paused" /\ enabled' = FALSE /\ reason' = "none" /\ due' = 0 /\ fresh' = TRUE
    /\ lease' = "none" /\ fence' = 0 /\ failures' = 0
    /\ UNCHANGED <<gen, version, runVars, tickVars, boundVars>>

\* The previous release writes the schedule and `enabled' and knows no other column.
LegacyWrite(on) ==
    /\ Edit /\ exists
    /\ enabled' = on /\ fresh' = FALSE
    /\ UNCHANGED <<exists, gen, version, status, reason, due, lease, fence, failures,
                   runVars, tickVars, clock, crashes, stalls, faults>>

-----------------------------------------------------------------------------
(* Runs, time and crashes *)

RunEnds(k, s) ==
    /\ \/ run[k] = "active" /\ s \in {"succeeded", "failed", "cancelling"}
       \/ run[k] = "cancelling" /\ s = "cancelled"
    /\ run' = [run EXCEPT ![k] = s]
    /\ UNCHANGED <<scheduleVars, runVersion, observed, tickVars, boundVars>>

TimePasses ==
    /\ clock < MaxClock /\ clock' = clock + 1
    /\ UNCHANGED <<scheduleVars, runVars, tickVars, edits, crashes, stalls, faults>>

Owned == \E t \in Tickers : pc[t] # "idle" /\ row[t].gen = gen /\ row[t].fence = fence

\* The 60 s lease runs out; it dates from the start of the tick, so it may be
\* short for the last rows of a long batch.
LeaseExpires ==
    /\ exists /\ lease = "live" /\ lease' = "expired"
    /\ \/ ~Owned /\ UNCHANGED stalls
       \/ Owned /\ Trouble /\ stalls' = stalls + 1
    /\ UNCHANGED <<exists, gen, version, status, enabled, reason, due, fresh, fence, failures,
                   runVars, tickVars, clock, edits, crashes, faults>>

Crash(t) ==
    /\ pc[t] # "idle" /\ Trouble /\ crashes' = crashes + 1
    /\ Leave(t)
    /\ UNCHANGED <<scheduleVars, runVars, clock, edits, stalls, faults>>

Tick(t) == Claim(t) \/ Enqueue(t) \/ Finish(t)

Operate ==
    \/ \E v \in Versions, on \in BOOLEAN : Upsert(v, on)
    \/ Pause \/ Resume \/ Delete
    \/ \E on \in BOOLEAN : LegacyWrite(on)

Next ==
    \/ \E t \in Tickers : Tick(t) \/ Crash(t)
    \/ ReconcileLegacy
    \/ \E k \in Gens \X Slots : Observe(k) \/ \E s \in Ended \union {"cancelling"} : RunEnds(k, s)
    \/ Operate
    \/ TimePasses \/ LeaseExpires

Spec == Init /\ [][Next]_vars

\* The scheduler loop ticks for ever and time passes; nothing obliges an operator,
\* and a run, or the observation of its end, may take any time.
Fairness ==
    /\ \A t \in Tickers : WF_vars(Tick(t))
    /\ WF_vars(ReconcileLegacy) /\ WF_vars(LeaseExpires) /\ WF_vars(TimePasses)

FairSpec == Spec /\ Fairness

-----------------------------------------------------------------------------
(* Properties *)

\* A tick at work has a claim of its own: fences are given out once within a
\* generation, and a deleted schedule comes back as a later generation.
ClaimsAreFenced ==
    /\ gen <= 1 + edits
    /\ \A t \in Tickers : pc[t] # "idle" =>
         /\ row[t].gen \in 1 .. gen /\ row[t].slot \in 1 .. MaxClock
         /\ exists /\ row[t].gen = gen => row[t].fence <= fence
    /\ \A t, u \in Tickers :
         /\ pc[t] # "idle" /\ pc[u] # "idle"
         /\ row[t].gen = row[u].gen /\ row[t].fence = row[u].fence
         => t = u

\* Whoever moves the due slot releases the lease, or owns it: the tick that may
\* still complete has the due slot in its copy.
OwnerHasDueSlot ==
    \A t \in Tickers : pc[t] # "idle" /\ Owns(t) /\ fresh /\ due # 0 => row[t].slot = due

\* A tick counts its slot as enqueued only when the slot's run is there.
EnqueuedHasRun ==
    \A t \in Tickers :
        enqueued[t] => pc[t] = "finish" /\ run[<<row[t].gen, row[t].slot>>] # "none"

\* A manual pause leaves no lease behind by which a tick could complete.
ManualPauseStands == exists /\ reason = "manual" /\ fresh => status = "paused" /\ lease = "none"

\* An active schedule has a due slot and no reason to be paused, though five
\* writers set status, enabled, paused_reason and next_due_at from copies of
\* different age: none is left active that no tick will ever claim.
ActiveIsDue ==
    exists /\ fresh /\ status = "active" => enabled /\ reason = "none" /\ due # 0

\* The inductive invariant: types, and claims that only their owner completes,
\* however ticks, operators, the previous release and the clock interleave.
ScheduleInv ==
    /\ TypeOK /\ ClaimsAreFenced /\ OwnerHasDueSlot /\ EnqueuedHasRun /\ ManualPauseStands
    /\ ActiveIsDue

\* While nobody edits the schedule its slots are taken in order: the due slot
\* never moves back, and moves past a slot only when that slot's run exists or
\* its enqueue failed and was counted (complete_schedule_tick is fenced, so a
\* late tick cannot replay or skip a slot).
SlotsInOrder ==
    [][(exists /\ exists' /\ fresh /\ edits' = edits /\ due # 0 /\ due' # 0) =>
          /\ due' >= due
          /\ due' > due => run[<<gen, due>>] # "none" \/ failures' > 0]_vars

\* A manual pause stays until somebody edits the schedule: a tick that had
\* claimed the row before does not switch it on again (update_schedule_status
\* clears the lease).
ManualPauseHolds ==
    [][(exists /\ reason = "manual" /\ fresh /\ edits' = edits) => status' = "paused"]_vars

\* An automatic pause, which the control worker may set under a tick at work,
\* yields to no tick but the last claimant, and to that one once: a tick that was
\* overtaken does not switch the schedule on again (complete_schedule_tick).
AutoPauseYieldsToOwner ==
    [][(exists /\ reason = "auto" /\ fresh /\ edits' = edits /\ status' # "paused") =>
          /\ \E t \in Tickers : pc[t] = "finish" /\ row[t].gen = gen /\ row[t].fence = fence
          /\ lease # "none" /\ lease' = "none"]_vars

\* The schedule catches up with the clock (unless somebody edits, or failures
\* pause it): a crashed tick's lease runs out and another takes the slot.
DueSlotsRun ==
    LET behind == exists /\ enabled /\ status = "active" /\ fresh /\ due # 0 /\ due <= clock
    IN  behind ~> ~behind

\* The failure of a scheduled run is counted once: while nobody edits the
\* schedule and no enqueue raises, there are at least as many runs that did not
\* succeed as the schedule counts failures.
FailuresCountedOnce ==
    (edits = 0 /\ faults = 0) =>
        failures <= Cardinality({k \in Gens \X Slots : run[k] \in {"failed", "cancelling", "cancelled"}})

\* An automatic pause stays until somebody edits the schedule.
AutoPauseHolds ==
    [][(exists /\ reason = "auto" /\ fresh /\ edits' = edits) => status' = "paused"]_vars

=============================================================================
