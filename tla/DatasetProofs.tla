---------------------------- MODULE DatasetProofs ----------------------------
(***************************************************************************)
(* For every number of handlers, runs, events and watchdogs and any number *)
(* of crashes: DatasetInv is an invariant of the commits to a dataset, and *)
(* they implement DatasetHistory.  One lemma per action shows that it      *)
(* keeps DatasetInv; the steps that give up the lock share RollBackKeeps   *)
(* and BlockCommitKeeps.                                                   *)
(***************************************************************************)
EXTENDS DatasetTransactions, SequenceTheorems, TLAPS

(* The fields of a version have their types. *)
LEMMA VersionFields ==
    ASSUME TypeOK
    PROVE  \A n \in DOMAIN versions : versions[n].id \in Workers /\ versions[n].run \in Runs
<1>1. versions \in Seq(Version)
  BY DEF TypeOK
<1>2. \A n \in DOMAIN versions : versions[n] \in Version
  BY <1>1, ElementOfSeq, LenProperties
<1> QED BY <1>2 DEF Version

(* A handler that has not committed has no version. *)
LEMMA NoVersionYet ==
    ASSUME DatasetInv, NEW w \in Workers, pc[w] \notin {"cleanup", "abort", "done", "dead"}
    PROVE  \A n \in DOMAIN versions : versions[n].id \in Workers \ {w}
BY VersionFields DEF DatasetInv, VersionsFinal

(* A handler that neither has the lock nor takes it, and keeps all rows and
   directories, keeps the invariant. *)
LEMMA MovesKeep ==
    ASSUME DatasetInv, NEW w \in Workers, NEW q \in PCs \ Locked,
           pc[w] \notin Locked \cup {"dead"}, pc' = [pc EXCEPT ![w] = q],
           pc[w] \in {"cleanup", "abort", "done"} => q \in {"cleanup", "abort", "done", "dead"},
           q \in Working => job'[w] \in Runs /\ runStatus[job'[w]] # "NONE",
           q = "named" => job'[w] \in Runs,
           job' \in [Workers -> Runs \cup {NoRun}], \A u \in Workers \ {w} : job'[u] = job[u],
           event' \in [Workers -> Events \cup {NoEvent}], number' \in [Workers -> Nat],
           checked' \in [Workers -> Workers \cup {NoWorker}],
           staged' \in [Runs -> Workers \cup {NoWorker}],
           UNCHANGED <<dbVars, dirVars, watchVars, crashes>>
    PROVE  DatasetInv'
<1> USE DEF DatasetInv, TypeOK, Locked, Working, PCs, txVars, dbVars, dirVars, watchVars
<1>1. TypeOK'
  OBVIOUS
<1>2. LockHeld'
  BY DEF LockHeld
<1>3. JobsStarted'
  BY DEF JobsStarted
<1>4. HeadHeld'
  BY DEF HeadHeld, BaseCurrent
<1>5. VersionsFinal'
  BY VersionFields DEF VersionsFinal
<1>6. StorageAgreement'
  BY DEF StorageAgreement
<1>7. (RowsTogether /\ CommitAgreement /\ SnapshotBaseIsHead /\ EventOnce)'
  BY DEF RowsTogether, Abortable, CommitAgreement, SnapshotBaseIsHead, EventOnce
<1> QED BY <1>1, <1>2, <1>3, <1>4, <1>5, <1>6, <1>7

(* A handler that is over has forgotten its run. *)
LEMMA LeaveTypes ==
    ASSUME TypeOK, NEW w \in Workers, NEW end \in {"done", "dead"}, Leave(w, end)
    PROVE  /\ pc' = [pc EXCEPT ![w] = end] /\ pc' \in [Workers -> PCs]
           /\ job' \in [Workers -> Runs \cup {NoRun}] /\ \A u \in Workers \ {w} : job'[u] = job[u]
           /\ event' \in [Workers -> Events \cup {NoEvent}]
           /\ number' \in [Workers -> Nat] /\ UNCHANGED checked
BY DEF TypeOK, Leave, PCs

(* The run named by a call that starts is looked up, and left. *)
LEMMA LookupRunKeeps ==
    ASSUME DatasetInv, NEW w \in Workers, NEW r \in Runs, LookupRun(w, r)
    PROVE  DatasetInv'
<1>1. pc[w] = "idle" /\ UNCHANGED <<dbVars, fileVars, watchVars, crashes>>
  BY DEF LookupRun
<1>2. TypeOK /\ UNCHANGED dirVars /\ staged' \in [Runs -> Workers \cup {NoWorker}]
  BY <1>1 DEF DatasetInv, TypeOK, fileVars
<1>3. CASE Leave(w, "done")
  BY <1>1, <1>2, <1>3, LeaveTypes, MovesKeep DEF PCs, Working, Locked, TypeOK
<1>4. CASE /\ pc' = [pc EXCEPT ![w] = "named"] /\ job' = [job EXCEPT ![w] = r]
           /\ UNCHANGED <<event, number, checked>>
  <2>1. /\ job' \in [Workers -> Runs \cup {NoRun}] /\ job'[w] \in Runs
        /\ \A u \in Workers \ {w} : job'[u] = job[u]
    BY <1>2, <1>4 DEF TypeOK
  <2> QED BY <1>1, <1>2, <1>4, <2>1, MovesKeep DEF PCs, Working, Locked, TypeOK
<1> QED BY <1>3, <1>4 DEF LookupRun

(* The event read decides only where the call goes on. *)
LEMMA LookupEventKeeps ==
    ASSUME DatasetInv, NEW w \in Workers, NEW e \in Events, LookupEvent(w, e)
    PROVE  DatasetInv'
<1>1. pc[w] = "idle" /\ UNCHANGED <<dbVars, fileVars, watchVars, crashes>>
  BY DEF LookupEvent
<1>2. TypeOK /\ UNCHANGED dirVars /\ staged' \in [Runs -> Workers \cup {NoWorker}]
  BY <1>1 DEF DatasetInv, TypeOK, fileVars
<1>3. CASE Leave(w, "done")
  BY <1>1, <1>2, <1>3, LeaveTypes, MovesKeep DEF PCs, Working, Locked, TypeOK
<1>4. CASE /\ pc' = [pc EXCEPT ![w] = "unseen"] /\ event' = [event EXCEPT ![w] = e]
           /\ UNCHANGED <<job, number, checked>>
  <2>1. event' \in [Workers -> Events \cup {NoEvent}]
    BY <1>2, <1>4 DEF TypeOK
  <2> QED BY <1>1, <1>2, <1>4, <2>1, MovesKeep DEF PCs, Working, Locked, TypeOK
<1> QED BY <1>3, <1>4 DEF LookupEvent

(* The rows are new, so no version and no call under the lock has them. *)
LEMMA OpenTransactionKeeps ==
    ASSUME DatasetInv, NEW w \in Workers, NEW r \in Runs, NEW t \in TxTypes,
           pc[w] \in {"idle", "unseen", "named"}, OpenTransaction(w, r, t)
    PROVE  DatasetInv'
<1> USE DatasetConstants DEF DatasetInv, TypeOK, TxTypes, TxStatuses, RunStatuses,
    Locked, Working, PCs, WatchPCs, txVars, dbVars, dirVars, fileVars, workerVars, watchVars, OpenTransaction
<1>1. TypeOK'
  OBVIOUS
<1>2. LockHeld'
  BY DEF LockHeld
<1>3. JobsStarted'
  BY DEF JobsStarted, CommitAgreement, RowsTogether, Abortable
<1>4. RowsTogether'
  BY DEF RowsTogether, Abortable, JobsStarted, CommitAgreement
<1>5. HeadHeld'
  BY DEF HeadHeld, BaseCurrent, LockHeld, JobsStarted
<1>6. VersionsFinal'
  BY DEF VersionsFinal, LockHeld
<1>7. CommitAgreement'
  BY DEF CommitAgreement, RowsTogether, Abortable, JobsStarted
<1>8. SnapshotBaseIsHead'
  <2>1. \A n \in DOMAIN versions : versions[n].run \in Runs \ {r}
    BY VersionFields DEF OpenTransaction, CommitAgreement, RowsTogether
  <2> QED BY <2>1 DEF SnapshotBaseIsHead
<1>9. StorageAgreement'
  BY DEF StorageAgreement, VersionsFinal
<1>10. (EventOnce)'
  BY DEF EventOnce
<1> QED BY <1>1, <1>2, <1>3, <1>4, <1>5, <1>6, <1>7, <1>8, <1>9, <1>10

(* A resumed run was started. *)
LEMMA ResumeNamedKeeps ==
    ASSUME DatasetInv, NEW w \in Workers, ResumeNamed(w)
    PROVE  DatasetInv'
<1>1. pc[w] = "named" /\ runStatus[job[w]] # "NONE" /\ UNCHANGED <<dbVars, fileVars, watchVars, crashes>>
  BY DEF ResumeNamed
<1>2. TypeOK /\ job[w] \in Runs /\ UNCHANGED dirVars /\ staged' \in [Runs -> Workers \cup {NoWorker}]
  BY <1>1 DEF DatasetInv, TypeOK, JobsStarted, fileVars
<1>3. CASE Leave(w, "done")
  BY <1>1, <1>2, <1>3, LeaveTypes, MovesKeep DEF PCs, Working, Locked, TypeOK
<1>4. CASE pc' = [pc EXCEPT ![w] = "extract"] /\ UNCHANGED <<job, event, number, checked>>
  BY <1>1, <1>2, <1>4, MovesKeep DEF PCs, Working, Locked, TypeOK
<1> QED BY <1>3, <1>4 DEF ResumeNamed

(* Staging files are outside the invariant. *)
LEMMA ExtractKeeps ==
    ASSUME DatasetInv, NEW w \in Workers, Extract(w)
    PROVE  DatasetInv'
<1>1. PICK q \in {"finalize", "cleanup"} : pc' = [pc EXCEPT ![w] = q]
  BY DEF Extract
<1>2. /\ pc[w] = "extract" /\ TypeOK /\ job[w] \in Runs /\ runStatus[job[w]] # "NONE"
      /\ UNCHANGED <<dbVars, dirVars, job, event, number, checked, watchVars, crashes>>
  BY DEF Extract, DatasetInv, JobsStarted, Working
<1>3. staged' \in [Runs -> Workers \cup {NoWorker}]
  <2>1. staged \in [Runs -> Workers \cup {NoWorker}]
    BY <1>2 DEF TypeOK
  <2>2. staged' = [staged EXCEPT ![job[w]] = w] \/ UNCHANGED staged
    BY DEF Extract
  <2> QED BY <1>2, <2>1, <2>2
<1> QED BY <1>1, <1>2, <1>3, MovesKeep DEF PCs, Working, Locked, TypeOK

(* Giving up the lock writes no row; a promoted directory is taken back, or
   stays behind a promotion or a COMMIT that raised. *)
LEMMA RollBackKeeps ==
    ASSUME DatasetInv, NEW w \in Workers, RollBack(w),
           pc[w] \in Locked \/ (pc[w] = "finalize" /\ lock = NoWorker),
           \/ UNCHANGED dirVars /\ pc[w] # "persist"
           \/ CleanupVersionArtifacts(w) /\ pc[w] = "persist"
           \/ /\ dirs' \subseteq dirs \cup {w} /\ leaked' = leaked \cup {w} /\ UNCHANGED stored
              /\ dirs \subseteq dirs',
           UNCHANGED <<staged, job, event, number, checked, watchVars, crashes>>
    PROVE  DatasetInv'
<1> USE DatasetConstants DEF DatasetInv, TypeOK, TxTypes, TxStatuses, RunStatuses,
    Locked, Working, PCs, WatchPCs, txVars, dbVars, dirVars, fileVars, workerVars, watchVars, RollBack
<1>1. TypeOK'
  <2>1. dirs' \subseteq Workers /\ leaked' \subseteq Workers
    BY SMT DEF CleanupVersionArtifacts
  <2>2. stored' \in [Workers -> Workers \cup {NoWorker}]
    BY SMT DEF CleanupVersionArtifacts
  <2>3. pc' \in [Workers -> PCs] /\ lock' \in Workers \cup {NoWorker}
    BY SMT
  <2> QED BY ONLY TypeOK, <2>1, <2>2, <2>3, RollBack(w),
             UNCHANGED <<staged, job, event, number, checked, watchVars, crashes>>
          DEF TypeOK, RollBack, txVars, watchVars
<1>2. (LockHeld /\ JobsStarted /\ RowsTogether)'
  BY DEF LockHeld, JobsStarted, RowsTogether, Abortable
<1>3. HeadHeld'
  BY DEF HeadHeld, BaseCurrent
<1>4. \A n \in DOMAIN versions : versions[n].id \in Workers \ {w}
  BY NoVersionYet
<1>5. (VersionsFinal /\ StorageAgreement)'
  BY <1>4 DEF VersionsFinal, StorageAgreement, CleanupVersionArtifacts
<1>6. (CommitAgreement /\ SnapshotBaseIsHead /\ EventOnce)'
  BY DEF CommitAgreement, SnapshotBaseIsHead, EventOnce
<1> QED BY <1>1, <1>2, <1>3, <1>5, <1>6

(* A blocked commit aborts a transaction that is not committed. *)
LEMMA BlockCommitKeeps ==
    ASSUME DatasetInv, NEW w \in Workers, BlockCommit(w),
           pc[w] = "recheck" \/ (pc[w] = "finalize" /\ lock = NoWorker),
           UNCHANGED <<fileVars, job, event, number, checked, watchVars, crashes>>
    PROVE  DatasetInv'
<1> USE DatasetConstants DEF DatasetInv, TypeOK, TxTypes, TxStatuses, RunStatuses,
    Locked, Working, PCs, WatchPCs, txVars, dbVars, dirVars, fileVars, workerVars, watchVars, BlockCommit
<1>1. TypeOK' /\ job[w] \in Runs
  BY DEF JobsStarted
<1>2. (LockHeld /\ JobsStarted)'
  BY DEF LockHeld, JobsStarted
<1>3. RowsTogether'
  BY <1>1 DEF RowsTogether, Abortable
<1>4. CommitAgreement'
  BY <1>1 DEF RowsTogether, CommitAgreement, Abortable
<1>5. HeadHeld'
  BY DEF HeadHeld, BaseCurrent
<1>6. \A n \in DOMAIN versions : versions[n].id \in Workers \ {w}
  BY NoVersionYet
<1>7. (VersionsFinal /\ StorageAgreement)'
  BY <1>6 DEF VersionsFinal, StorageAgreement
<1>8. (SnapshotBaseIsHead /\ EventOnce)'
  BY DEF SnapshotBaseIsHead, EventOnce
<1> QED BY <1>1, <1>2, <1>3, <1>4, <1>5, <1>7, <1>8

(* The lock is taken with the base current, or the call goes on to its abort. *)
LEMMA ValidateCandidateKeeps ==
    ASSUME DatasetInv, NEW w \in Workers, ValidateCandidate(w)
    PROVE  DatasetInv'
<1>1. CASE RollBack(w) /\ UNCHANGED checked
  BY <1>1, RollBackKeeps DEF ValidateCandidate, fileVars
<1>2. CASE BlockCommit(w) /\ UNCHANGED checked
  BY <1>2, BlockCommitKeeps DEF ValidateCandidate
<1>3. CASE /\ BaseCurrent(job[w]) /\ staged[job[w]] # NoWorker
           /\ lock' = w /\ checked' = [checked EXCEPT ![w] = staged[job[w]]]
           /\ pc' = [pc EXCEPT ![w] = "recheck"]
           /\ UNCHANGED <<txVars, versions, keyed>>
  <2> USE DatasetConstants DEF DatasetInv, TypeOK, TxTypes, TxStatuses, RunStatuses,
    Locked, Working, PCs, WatchPCs, txVars, dbVars, dirVars, fileVars, workerVars, watchVars
  <2>1. pc[w] = "finalize" /\ lock = NoWorker /\ job[w] \in Runs
    BY DEF ValidateCandidate, JobsStarted
  <2>2. UNCHANGED <<fileVars, job, event, number, watchVars, crashes>>
    BY DEF ValidateCandidate
  <2>3. TypeOK'
    BY <1>3, <2>1, <2>2
  <2>4. (LockHeld /\ JobsStarted)'
    BY <1>3, <2>1, <2>2 DEF LockHeld, JobsStarted
  <2>5. HeadHeld'
    BY <1>3, <2>1, <2>2 DEF HeadHeld, BaseCurrent
  <2>6. \A n \in DOMAIN versions : versions[n].id \in Workers \ {w}
    BY <2>1, NoVersionYet
  <2>7. (VersionsFinal /\ StorageAgreement)'
    BY <1>3, <2>1, <2>2, <2>6 DEF VersionsFinal, StorageAgreement
  <2>8. (RowsTogether /\ CommitAgreement /\ SnapshotBaseIsHead /\ EventOnce)'
    BY <1>3 DEF RowsTogether, CommitAgreement, SnapshotBaseIsHead, EventOnce, Abortable
  <2> QED BY <2>3, <2>4, <2>5, <2>7, <2>8
<1> QED BY <1>1, <1>2, <1>3 DEF ValidateCandidate

(* The lock is kept, or given up without a version. *)
LEMMA RecheckCandidateKeeps ==
    ASSUME DatasetInv, NEW w \in Workers, RecheckCandidate(w)
    PROVE  DatasetInv'
<1>1. CASE RollBack(w) /\ UNCHANGED number
  BY <1>1, RollBackKeeps DEF RecheckCandidate, Locked, fileVars
<1>2. CASE BlockCommit(w) /\ UNCHANGED number
  BY <1>2, BlockCommitKeeps DEF RecheckCandidate
<1>3. CASE /\ number' = [number EXCEPT ![w] = Len(versions) + 1]
           /\ pc' = [pc EXCEPT ![w] = "promote"]
           /\ UNCHANGED dbVars
  <2> USE DatasetConstants DEF DatasetInv, TypeOK, TxTypes, TxStatuses, RunStatuses,
    Locked, Working, PCs, WatchPCs, txVars, dbVars, dirVars, fileVars, workerVars, watchVars
  <2>1. pc[w] = "recheck" /\ UNCHANGED <<fileVars, job, event, checked, watchVars, crashes>>
    BY DEF RecheckCandidate
  <2>2. Len(versions) \in Nat
    BY LenProperties
  <2>3. TypeOK'
    BY <1>3, <2>1, <2>2
  <2>4. (LockHeld /\ JobsStarted)'
    BY <1>3, <2>1 DEF LockHeld, JobsStarted
  <2>5. HeadHeld'
    BY <1>3, <2>1 DEF HeadHeld, BaseCurrent
  <2>6. \A n \in DOMAIN versions : versions[n].id \in Workers \ {w}
    BY <2>1, NoVersionYet
  <2>7. (VersionsFinal /\ StorageAgreement)'
    BY <1>3, <2>1, <2>6 DEF VersionsFinal, StorageAgreement
  <2>8. (RowsTogether /\ CommitAgreement /\ SnapshotBaseIsHead /\ EventOnce)'
    BY <1>3 DEF RowsTogether, CommitAgreement, SnapshotBaseIsHead, EventOnce, Abortable
  <2> QED BY <2>3, <2>4, <2>5, <2>7, <2>8
<1> QED BY <1>1, <1>2, <1>3 DEF RecheckCandidate

(* The directory belongs to the commit in progress, or to one that raised. *)
LEMMA PromoteFilesKeeps ==
    ASSUME DatasetInv, NEW w \in Workers, PromoteFiles(w)
    PROVE  DatasetInv'
<1>1. CASE leaked' = leaked \cup {w} /\ RollBack(w) /\ UNCHANGED stored
  BY <1>1, RollBackKeeps DEF PromoteFiles, Locked
<1>2. CASE /\ staged[job[w]] # NoWorker
           /\ stored' = [stored EXCEPT ![w] = staged[job[w]]]
           /\ pc' = [pc EXCEPT ![w] = "persist"]
           /\ UNCHANGED <<dbVars, leaked>>
  <2> USE DatasetConstants DEF DatasetInv, TypeOK, TxTypes, TxStatuses, RunStatuses,
    Locked, Working, PCs, WatchPCs, txVars, dbVars, dirVars, fileVars, workerVars, watchVars
  <2>1. /\ pc[w] = "promote" /\ dirs' = dirs \cup {w}
        /\ UNCHANGED <<staged, job, event, number, checked, watchVars, crashes>>
    BY DEF PromoteFiles
  <2>2. staged[job[w]] \in Workers
    BY <1>2, <2>1 DEF JobsStarted
  <2>3. TypeOK'
    BY <1>2, <2>1, <2>2
  <2>4. (LockHeld /\ JobsStarted)'
    BY <1>2, <2>1 DEF LockHeld, JobsStarted
  <2>5. HeadHeld'
    BY <1>2, <2>1 DEF HeadHeld, BaseCurrent
  <2>6. \A n \in DOMAIN versions : versions[n].id \in Workers \ {w}
    BY <2>1, NoVersionYet
  <2>7. (VersionsFinal /\ StorageAgreement)'
    BY <1>2, <2>1, <2>6 DEF VersionsFinal, StorageAgreement
  <2>8. (RowsTogether /\ CommitAgreement /\ SnapshotBaseIsHead /\ EventOnce)'
    BY <1>2 DEF RowsTogether, CommitAgreement, SnapshotBaseIsHead, EventOnce, Abortable
  <2> QED BY <2>3, <2>4, <2>5, <2>7, <2>8
<1> QED BY <1>1, <1>2 DEF PromoteFiles

(* The version is new, and everything it stands for is written with it. *)
LEMMA CommitVersionKeeps ==
    ASSUME DatasetInv, NEW w \in Workers, CommitVersion(w)
    PROVE  DatasetInv'
<1> DEFINE v == [id |-> w, run |-> job[w], event |-> event[w]]
           N == Len(versions)
<1> USE DatasetConstants DEF DatasetInv, TypeOK, TxTypes, TxStatuses, RunStatuses,
  Locked, Working, PCs, WatchPCs, txVars, dbVars, dirVars, fileVars, workerVars, watchVars
<1>1. /\ pc[w] = "persist" /\ job[w] \in Runs /\ lock = w
      /\ txStatus[job[w]] = "OPEN" /\ runStatus[job[w]] = "EXTRACTING" /\ event[w] \notin keyed
  BY DEF CommitVersion, JobsStarted, CommitGoesThrough, LockHeld
<1>2. /\ versions' = Append(versions, v)
      /\ txStatus'  = [txStatus EXCEPT ![job[w]] = "COMMITTED"]
      /\ runStatus' = [runStatus EXCEPT ![job[w]] = "COMMITTED"]
      /\ keyed' = keyed \cup ({event[w]} \ {NoEvent})
      /\ lock' = NoWorker
      /\ UNCHANGED <<txType, txBase, staged, dirs, stored, leaked, checked, watchVars, crashes>>
  BY <1>1 DEF CommitVersion, MarkSyncRunCommitted, Leave
<1>3. TypeOK /\ \/ Leave(w, "done")
                \/ pc' = [pc EXCEPT ![w] = "cleanup"] /\ UNCHANGED <<job, event, number, checked>>
  BY DEF CommitVersion
<1>4. /\ pc' \in [Workers -> PCs] /\ pc'[w] \in {"done", "cleanup"}
      /\ \A u \in Workers \ {w} : pc'[u] = pc[u] /\ job'[u] = job[u]
      /\ job' \in [Workers -> Runs \cup {NoRun}] /\ event' \in [Workers -> Events \cup {NoEvent}]
      /\ number' \in [Workers -> Nat]
      /\ pc'[w] = "cleanup" => job'[w] = job[w]
  <2>1. CASE Leave(w, "done")
    BY <2>1, <1>3, LeaveTypes
  <2>2. CASE pc' = [pc EXCEPT ![w] = "cleanup"] /\ UNCHANGED <<job, event, number, checked>>
    BY <2>2
  <2> QED BY <1>3, <2>1, <2>2
<1> HIDE DEF v
<1>5. v \in Version /\ v.id = w /\ v.run = job[w] /\ v.event = event[w]
  BY <1>1 DEF Version, v
<1>6. /\ N \in Nat /\ DOMAIN versions = 1..N
      /\ versions' \in Seq(Version) /\ DOMAIN versions' = 1..(N + 1)
      /\ \A n \in 1..N : versions'[n] = versions[n]
      /\ versions'[N + 1] = v
  BY <1>2, <1>5, AppendProperties, LenProperties
<1>7. \A n \in 1..N : versions[n] \in Version
  BY <1>6
<1> HIDE DEF N
<1>8. TypeOK'
  <2>1. keyed' \subseteq Events /\ lock' \in Workers \cup {NoWorker}
    BY <1>2
  <2>2. txStatus' \in [Runs -> TxStatuses] /\ runStatus' \in [Runs -> RunStatuses]
    BY <1>1, <1>2
  <2>3. /\ txType' \in [Runs -> TxTypes] /\ txBase' \in [Runs -> Nat]
        /\ staged' \in [Runs -> Workers \cup {NoWorker}]
        /\ dirs' \subseteq Workers /\ leaked' \subseteq Workers
        /\ stored' \in [Workers -> Workers \cup {NoWorker}]
        /\ checked' \in [Workers -> Workers \cup {NoWorker}]
    BY <1>2
  <2>4. /\ wpc' \in [Watchdogs -> WatchPCs] /\ target' \in [Watchdogs -> Runs \cup {NoRun}]
        /\ seen' \in [Watchdogs -> TxStatuses] /\ crashes' \in 0..MaxCrashes
    BY <1>2
  <2> QED BY <1>4, <1>6, <2>1, <2>2, <2>3, <2>4
<1>9. LockHeld'
  BY <1>1, <1>2, <1>3, <1>4 DEF LockHeld
<1>10. JobsStarted' /\ RowsTogether'
  <2>1. RowsTogether'
    BY <1>1, <1>2 DEF RowsTogether, Abortable
  <2>2. /\ runStatus'[job[w]] = "COMMITTED"
        /\ \A r \in Runs : runStatus[r] # "NONE" => runStatus'[r] # "NONE"
    BY <1>1, <1>2
  <2>3. \A u \in Workers \ {w} :
          /\ pc'[u] = "named" => job'[u] \in Runs
          /\ pc'[u] \in Working => job'[u] \in Runs /\ runStatus'[job'[u]] # "NONE"
    BY <1>4, <2>2 DEF JobsStarted
  <2>4. \A x \in Watchdogs : wpc'[x] # "idle" => target'[x] \in Runs
    BY <1>2 DEF JobsStarted
  <2>5. pc'[w] = "cleanup" => job'[w] \in Runs /\ runStatus'[job'[w]] # "NONE"
    BY <1>1, <1>4, <2>2
  <2> QED BY <1>4, <2>1, <2>3, <2>4, <2>5 DEF JobsStarted
<1>11. HeadHeld'
  BY <1>1, <1>2, <1>3, <1>4 DEF HeadHeld, LockHeld
<1>12. \A n \in 1..N : versions[n].id \in Workers \ {w} /\ versions[n].run \in Runs \ {job[w]}
  BY <1>1, <1>6, VersionFields, NoVersionYet DEF CommitAgreement
<1>13. VersionsFinal'
  <2>1. ASSUME NEW n \in DOMAIN versions', n \notin 1..N PROVE n = N + 1
    BY <1>6, <2>1
  <2>2. \A n \in 1..N : /\ pc'[versions'[n].id] \in {"cleanup", "abort", "done", "dead"}
                        /\ versions'[n].event \in keyed' \cup {NoEvent}
    BY <1>2, <1>4, <1>6, <1>12 DEF VersionsFinal
  <2>3. /\ pc'[versions'[N + 1].id] \in {"cleanup", "abort", "done", "dead"}
        /\ versions'[N + 1].event \in keyed' \cup {NoEvent}
    BY <1>2, <1>4, <1>5, <1>6
  <2>4. \A u \in Workers : pc'[u] = "persist" => u \in dirs' /\ stored'[u] # NoWorker
    BY <1>2, <1>4 DEF VersionsFinal
  <2> QED BY <1>6, <2>1, <2>2, <2>3, <2>4 DEF VersionsFinal
<1>14. CommitAgreement'
  <2>1. N + 1 \in DOMAIN versions' /\ \A n \in 1..N : n \in DOMAIN versions'
    BY <1>6
  <2>2. ASSUME NEW r \in Runs \ {job[w]}
        PROVE (\E n \in DOMAIN versions : versions[n].run = r) <=> (\E n \in DOMAIN versions' : versions'[n].run = r)
    <3>1. ASSUME NEW n \in DOMAIN versions', versions'[n].run = r PROVE n \in 1..N
      BY <1>5, <1>6, <3>1
    <3> QED BY <1>6, <2>1, <3>1
  <2>3. \E n \in DOMAIN versions' : versions'[n].run = job[w]
    BY <1>5, <1>6, <2>1
  <2>4. \A r \in Runs : (txStatus'[r] = "COMMITTED") <=> (\E n \in DOMAIN versions' : versions'[n].run = r)
    BY <1>1, <1>2, <2>2, <2>3 DEF CommitAgreement
  <2>5. \A r \in Runs : (txStatus'[r] = "COMMITTED") <=> (runStatus'[r] = "COMMITTED")
    BY <1>1, <1>2, <1>3, <1>4 DEF CommitAgreement
  <2>6. \A r \in Runs : runStatus'[r] = "FAILED" => txStatus'[r] = "ABORTED"
    BY <1>1, <1>2, <1>3, <1>4 DEF CommitAgreement
  <2> QED BY <2>4, <2>5, <2>6 DEF CommitAgreement
<1>15. SnapshotBaseIsHead'
  <2>1. txType[job[w]] = "SNAPSHOT" => txBase[job[w]] = N
    BY <1>1 DEF HeadHeld, BaseCurrent, N
  <2> QED BY <1>2, <1>3, <1>4, <1>5, <1>6, <1>12, <2>1 DEF SnapshotBaseIsHead
<1>16. EventOnce'
  <2>1. \A n \in 1..N : versions[n].event # NoEvent => versions[n].event # event[w]
    BY <1>1, <1>6 DEF VersionsFinal
  <2>2. ASSUME NEW n \in DOMAIN versions', n \notin 1..N PROVE n = N + 1
    BY <1>6, <2>2
  <2> QED BY <1>5, <1>6, <2>1, <2>2 DEF EventOnce
<1>17. StorageAgreement'
  <2>1. w \in dirs /\ stored[w] # NoWorker
    BY <1>1 DEF VersionsFinal
  <2>2. \A n \in DOMAIN versions' : versions'[n].id \in dirs' /\ stored'[versions'[n].id] # NoWorker
    <3>1. ASSUME NEW n \in DOMAIN versions', n \notin 1..N PROVE n = N + 1
      BY <1>6, <3>1
    <3>2. \A n \in 1..N : versions[n].id \in dirs /\ stored[versions[n].id] # NoWorker
      BY <1>6 DEF StorageAgreement
    <3> QED BY <1>2, <1>5, <1>6, <2>1, <3>1, <3>2
  <2>3. ASSUME NEW u \in dirs' \ leaked'
        PROVE  pc'[u] \in {"persist", "dead"} \/ \E n \in DOMAIN versions' : versions'[n].id = u
    <3>1. CASE u = w
      <4>1. N + 1 \in DOMAIN versions' /\ versions'[N + 1].id = w
        BY <1>5, <1>6
      <4> QED BY <3>1, <4>1
    <3>2. CASE u # w
      <4>1. \A n \in DOMAIN versions : n \in DOMAIN versions' /\ versions'[n] = versions[n]
        BY <1>6
      <4> QED BY <1>2, <1>4, <3>2, <4>1 DEF StorageAgreement
    <3> QED BY <3>1, <3>2
  <2> QED BY <2>2, <2>3 DEF StorageAgreement
<1> QED BY <1>8, <1>9, <1>10, <1>11, <1>13, <1>14, <1>15, <1>16, <1>17

(* A lost commit takes its directory back, or is on record as leaving it. *)
LEMMA LoseCommitKeeps ==
    ASSUME DatasetInv, NEW w \in Workers, LoseCommit(w)
    PROVE  DatasetInv'
<1>1. pc[w] = "persist" /\ RollBack(w) /\ UNCHANGED <<staged, job, event, number, checked, watchVars, crashes>>
  BY DEF LoseCommit
<1>2. \/ CleanupVersionArtifacts(w)
      \/ leaked' = leaked \cup {w} /\ UNCHANGED <<dirs, stored>>
  BY DEF LoseCommit
<1> QED BY <1>1, <1>2, RollBackKeeps DEF Locked

(* Staging files are outside the invariant. *)
LEMMA CleanupStagingKeeps ==
    ASSUME DatasetInv, NEW w \in Workers, CleanupStaging(w)
    PROVE  DatasetInv'
<1>1. /\ pc[w] = "cleanup" /\ pc' = [pc EXCEPT ![w] = "abort"]
      /\ TypeOK /\ job[w] \in Runs /\ runStatus[job[w]] # "NONE"
      /\ UNCHANGED <<dbVars, dirVars, job, event, number, checked, watchVars, crashes>>
  BY DEF CleanupStaging, DatasetInv, JobsStarted, Working
<1>2. staged' \in [Runs -> Workers \cup {NoWorker}]
  BY DEF CleanupStaging, DatasetInv, TypeOK
<1> QED BY <1>1, <1>2, MovesKeep DEF PCs, Working, Locked, TypeOK

(* Only a transaction that is not committed is aborted, and its run with it. *)
LEMMA AbortAfterErrorKeeps ==
    ASSUME DatasetInv, NEW w \in Workers, AbortAfterError(w)
    PROVE  DatasetInv'
<1> USE DatasetConstants DEF DatasetInv, TypeOK, TxTypes, TxStatuses, RunStatuses,
    Locked, Working, PCs, WatchPCs, txVars, dbVars, dirVars, fileVars, workerVars, watchVars, AbortAfterError,
    Leave, Abortable
<1>1. TypeOK'
  <2>1. txStatus' \in [Runs -> TxStatuses] /\ runStatus' \in [Runs -> RunStatuses]
    <3>1. CASE txStatus' = [txStatus EXCEPT ![job[w]] = "ABORTED"]
           /\ runStatus' = [runStatus EXCEPT ![job[w]] = "FAILED"]
      <4> HIDE DEF AbortAfterError
      <4> QED BY <3>1
    <3>2. CASE UNCHANGED <<txStatus, runStatus>>
      BY <3>2
    <3> QED BY <3>1, <3>2
  <2>2. wpc' \in [Watchdogs -> WatchPCs] /\ target' \in [Watchdogs -> Runs \cup {NoRun}]
         /\ seen' \in [Watchdogs -> TxStatuses]
    OBVIOUS
  <2> QED BY <2>1, <2>2
<1>2. LockHeld'
  BY DEF LockHeld
<1>3. JobsStarted'
  BY DEF JobsStarted, CommitAgreement, RowsTogether
<1>4. RowsTogether'
  BY DEF RowsTogether, JobsStarted, CommitAgreement
<1>5. HeadHeld'
  BY DEF HeadHeld, BaseCurrent, LockHeld, JobsStarted
<1>6. VersionsFinal'
  BY DEF VersionsFinal, LockHeld
<1>7. CommitAgreement'
  BY DEF CommitAgreement, RowsTogether, JobsStarted
<1>8. StorageAgreement'
  BY DEF StorageAgreement, VersionsFinal
<1>9. (SnapshotBaseIsHead /\ EventOnce)'
  BY DEF SnapshotBaseIsHead, EventOnce
<1> QED BY <1>1, <1>2, <1>3, <1>4, <1>5, <1>6, <1>7, <1>8, <1>9

(* The dead call leaves its directory behind and drops the lock. *)
LEMMA WorkerCrashKeeps ==
    ASSUME DatasetInv, NEW w \in Workers, WorkerCrash(w)
    PROVE  DatasetInv'
<1> USE DatasetConstants DEF DatasetInv, TypeOK, TxTypes, TxStatuses, RunStatuses,
    Locked, Working, PCs, WatchPCs, txVars, dbVars, dirVars, fileVars, workerVars, watchVars, WorkerCrash, Leave
<1>1. TypeOK'
  OBVIOUS
<1>2. LockHeld'
  BY DEF LockHeld
<1>3. JobsStarted'
  BY DEF JobsStarted, CommitAgreement, RowsTogether, Abortable
<1>4. HeadHeld'
  BY DEF HeadHeld, BaseCurrent, LockHeld, JobsStarted
<1>5. VersionsFinal'
  BY DEF VersionsFinal, LockHeld
<1>6. StorageAgreement'
  BY DEF StorageAgreement, VersionsFinal
<1>7. (RowsTogether /\ CommitAgreement /\ SnapshotBaseIsHead /\ EventOnce)'
  BY DEF RowsTogether, Abortable, CommitAgreement, SnapshotBaseIsHead, EventOnce
<1> QED BY <1>1, <1>2, <1>3, <1>4, <1>5, <1>6, <1>7

(* The watchdog only reads. *)
LEMMA WatchListKeeps ==
    ASSUME DatasetInv, NEW x \in Watchdogs, NEW r \in Runs, WatchList(x, r)
    PROVE  DatasetInv'
<1> USE DatasetConstants DEF DatasetInv, TypeOK, TxTypes, TxStatuses, RunStatuses,
    Locked, Working, PCs, WatchPCs, txVars, dbVars, dirVars, fileVars, workerVars, watchVars, WatchList
<1>1. TypeOK'
  OBVIOUS
<1>2. JobsStarted'
  BY DEF JobsStarted, CommitAgreement, RowsTogether, Abortable
<1>3. (LockHeld /\ RowsTogether /\ HeadHeld /\ VersionsFinal /\ CommitAgreement /\ SnapshotBaseIsHead
       /\ EventOnce /\ StorageAgreement)'
  BY DEF LockHeld, RowsTogether, Abortable, HeadHeld, BaseCurrent, VersionsFinal, CommitAgreement,
         SnapshotBaseIsHead, EventOnce, StorageAgreement
<1> QED BY <1>1, <1>2, <1>3

(* A claim moves an OPEN row to ABORTING. *)
LEMMA WatchClaimKeeps ==
    ASSUME DatasetInv, NEW x \in Watchdogs, WatchClaim(x)
    PROVE  DatasetInv'
<1> USE DatasetConstants DEF DatasetInv, TypeOK, TxTypes, TxStatuses, RunStatuses,
    Locked, Working, PCs, WatchPCs, txVars, dbVars, dirVars, fileVars, workerVars, watchVars, WatchClaim, WatchLeaves
<1>1. TypeOK'
  <2>1. txStatus' \in [Runs -> TxStatuses] /\ runStatus' \in [Runs -> RunStatuses]
    <3>1. CASE txStatus' = [txStatus EXCEPT ![target[x]] = "ABORTING"]
      <4>1. UNCHANGED runStatus
        OBVIOUS
      <4> HIDE DEF WatchClaim
      <4> QED BY <3>1, <4>1
    <3>2. CASE UNCHANGED txStatus
      BY <3>2
    <3> QED BY <3>1, <3>2
  <2>2. wpc' \in [Watchdogs -> WatchPCs] /\ target' \in [Watchdogs -> Runs \cup {NoRun}]
         /\ seen' \in [Watchdogs -> TxStatuses]
    OBVIOUS
  <2> QED BY <2>1, <2>2
<1>2. JobsStarted'
  BY DEF JobsStarted, CommitAgreement, RowsTogether, Abortable
<1>3. RowsTogether'
  BY DEF RowsTogether, Abortable, JobsStarted, CommitAgreement
<1>4. CommitAgreement'
  BY DEF CommitAgreement, RowsTogether, Abortable, JobsStarted
<1>5. (LockHeld /\ HeadHeld /\ VersionsFinal /\ SnapshotBaseIsHead /\ EventOnce /\ StorageAgreement)'
  BY DEF LockHeld, HeadHeld, BaseCurrent, VersionsFinal, SnapshotBaseIsHead, EventOnce, StorageAgreement
<1> QED BY <1>1, <1>2, <1>3, <1>4, <1>5

(* Staging files are outside the invariant. *)
LEMMA WatchCleanupKeeps ==
    ASSUME DatasetInv, NEW x \in Watchdogs, WatchCleanup(x)
    PROVE  DatasetInv'
<1> USE DatasetConstants DEF DatasetInv, TypeOK, TxTypes, TxStatuses, RunStatuses,
    Locked, Working, PCs, WatchPCs, txVars, dbVars, dirVars, fileVars, workerVars, watchVars, WatchCleanup
<1>1. TypeOK'
  OBVIOUS
<1>2. JobsStarted'
  BY DEF JobsStarted, CommitAgreement, RowsTogether, Abortable
<1>3. (LockHeld /\ RowsTogether /\ HeadHeld /\ VersionsFinal /\ CommitAgreement /\ SnapshotBaseIsHead
       /\ EventOnce /\ StorageAgreement)'
  BY DEF LockHeld, RowsTogether, Abortable, HeadHeld, BaseCurrent, VersionsFinal, CommitAgreement,
         SnapshotBaseIsHead, EventOnce, StorageAgreement
<1> QED BY <1>1, <1>2, <1>3

(* The abort finds the row OPEN or ABORTING, or leaves it. *)
LEMMA WatchAbortKeeps ==
    ASSUME DatasetInv, NEW x \in Watchdogs, WatchAbort(x)
    PROVE  DatasetInv'
<1> USE DatasetConstants DEF DatasetInv, TypeOK, TxTypes, TxStatuses, RunStatuses,
    Locked, Working, PCs, WatchPCs, txVars, dbVars, dirVars, fileVars, workerVars, watchVars, WatchAbort, WatchLeaves
<1>1. CASE Abortable(target[x])
  <2>1. target[x] \in Runs /\ runStatus[target[x]] = "EXTRACTING" /\ txStatus[target[x]] # "COMMITTED"
    BY <1>1 DEF JobsStarted, RowsTogether, Abortable
  <2>2. /\ txStatus' = [txStatus EXCEPT ![target[x]] = "ABORTED"]
        /\ runStatus' = [runStatus EXCEPT ![target[x]] = "FAILED"]
    BY <1>1, <2>1
  <2>3. TypeOK'
    BY <2>1, <2>2
  <2>4. JobsStarted'
    BY <2>1, <2>2 DEF JobsStarted
  <2>5. RowsTogether'
    BY <2>1, <2>2 DEF RowsTogether, Abortable
  <2>6. CommitAgreement'
    <3>1. UNCHANGED versions
      OBVIOUS
    <3> HIDE DEF WatchAbort
    <3> QED BY <2>1, <2>2, <3>1 DEF CommitAgreement
  <2>7. (LockHeld /\ HeadHeld /\ VersionsFinal /\ SnapshotBaseIsHead /\ EventOnce /\ StorageAgreement)'
    BY DEF LockHeld, HeadHeld, BaseCurrent, VersionsFinal, SnapshotBaseIsHead, EventOnce, StorageAgreement
  <2> QED BY <2>3, <2>4, <2>5, <2>6, <2>7
<1>2. CASE ~Abortable(target[x])
  <2>1. UNCHANGED <<txStatus, runStatus>>
    BY <1>2
  <2>2. TypeOK' /\ JobsStarted'
    BY <2>1 DEF JobsStarted
  <2>3. (LockHeld /\ RowsTogether /\ HeadHeld /\ VersionsFinal /\ CommitAgreement /\ SnapshotBaseIsHead
         /\ EventOnce /\ StorageAgreement)'
    BY <2>1 DEF LockHeld, RowsTogether, Abortable, HeadHeld, BaseCurrent, VersionsFinal, CommitAgreement,
       SnapshotBaseIsHead, EventOnce, StorageAgreement
  <2> QED BY <2>2, <2>3
<1> QED BY <1>1, <1>2

(* A watchdog's claim stays in the row. *)
LEMMA WatchCrashKeeps ==
    ASSUME DatasetInv, NEW x \in Watchdogs, WatchCrash(x)
    PROVE  DatasetInv'
<1> USE DatasetConstants DEF DatasetInv, TypeOK, TxTypes, TxStatuses, RunStatuses,
    Locked, Working, PCs, WatchPCs, txVars, dbVars, dirVars, fileVars, workerVars, watchVars, WatchCrash, WatchLeaves
<1>1. TypeOK'
  OBVIOUS
<1>2. JobsStarted'
  BY DEF JobsStarted, CommitAgreement, RowsTogether, Abortable
<1>3. (LockHeld /\ RowsTogether /\ HeadHeld /\ VersionsFinal /\ CommitAgreement /\ SnapshotBaseIsHead
       /\ EventOnce /\ StorageAgreement)'
  BY DEF LockHeld, RowsTogether, Abortable, HeadHeld, BaseCurrent, VersionsFinal, CommitAgreement,
         SnapshotBaseIsHead, EventOnce, StorageAgreement
<1> QED BY <1>1, <1>2, <1>3

(* The initial state satisfies the invariant. *)
LEMMA InitHolds == Init => DatasetInv
BY DatasetConstants DEF Init, DatasetInv, TypeOK, LockHeld, JobsStarted, RowsTogether, HeadHeld,
   VersionsFinal, CommitAgreement, SnapshotBaseIsHead, EventOnce, StorageAgreement, TxTypes, TxStatuses,
   RunStatuses, Locked, Working, PCs, WatchPCs, Abortable

(* Every action keeps the invariant. *)
LEMMA NextKeeps == DatasetInv /\ [Next]_vars => DatasetInv'
<1> SUFFICES ASSUME DatasetInv, [Next]_vars PROVE DatasetInv'
  OBVIOUS
<1>1. ASSUME NEW w \in Workers, StartStep(w) PROVE DatasetInv'
  <2>1. ASSUME NEW r \in Runs, LookupRun(w, r) PROVE DatasetInv'
    BY <2>1, LookupRunKeeps
  <2>2. CASE OpenUpload(w)
    BY <2>2, OpenTransactionKeeps, DatasetConstants DEF OpenUpload, TxTypes
  <2>3. CASE OpenWebhook(w)
    BY <2>3, OpenTransactionKeeps, DatasetConstants DEF OpenWebhook, TxTypes
  <2>4. ASSUME NEW e \in Events, LookupEvent(w, e) PROVE DatasetInv'
    BY <2>4, LookupEventKeeps
  <2>5. ASSUME NEW t \in TxTypes, OpenNamed(w, t) PROVE DatasetInv'
    <3>1. pc[w] = "named" /\ job[w] \in Runs
      BY <2>5 DEF OpenNamed, DatasetInv, JobsStarted
    <3> QED BY <2>5, <3>1, OpenTransactionKeeps DEF OpenNamed
  <2>6. CASE ResumeNamed(w)
    BY <2>6, ResumeNamedKeeps
  <2> QED BY <1>1, <2>1, <2>2, <2>3, <2>4, <2>5, <2>6 DEF StartStep
<1>2. ASSUME NEW w \in Workers, Extract(w) \/ FinalizeStep(w) \/ AbortStep(w) \/ WorkerCrash(w)
      PROVE  DatasetInv'
  BY <1>2, ExtractKeeps, ValidateCandidateKeeps, RecheckCandidateKeeps, PromoteFilesKeeps,
     CommitVersionKeeps, LoseCommitKeeps, CleanupStagingKeeps, AbortAfterErrorKeeps, WorkerCrashKeeps
  DEF FinalizeStep, AbortStep
<1>3. ASSUME NEW x \in Watchdogs, WatchStep(x) \/ WatchCrash(x) PROVE DatasetInv'
  BY <1>3, WatchListKeeps, WatchClaimKeeps, WatchCleanupKeeps, WatchAbortKeeps,
         WatchCrashKeeps DEF WatchStep
<1>4. CASE UNCHANGED vars
  BY <1>4 DEF vars, txVars, dbVars, dirVars, fileVars, workerVars, watchVars, DatasetInv, TypeOK, LockHeld,
         JobsStarted,
     RowsTogether, HeadHeld, BaseCurrent, VersionsFinal, CommitAgreement, SnapshotBaseIsHead, EventOnce,
     StorageAgreement, Abortable
<1> QED BY <1>1, <1>2, <1>3, <1>4 DEF Next

(* However many handlers, watchdogs and crashes: rows, versions, bases, events
   and files agree in every state (_finalize_request, the abort after an error
   and the watchdog). *)
THEOREM Agreement == Spec => []DatasetInv
<1>1. Init => DatasetInv
  BY InitHolds
<1>2. DatasetInv /\ [Next]_vars => DatasetInv'
  BY NextKeeps
<1> QED BY <1>1, <1>2, PTL DEF Spec

(* A version has its files, and a handler whose commit was refused has taken
   its own back; only a death, or a promotion or COMMIT that raised, leaves a
   directory without a version (cleanup_committed_version_artifacts). *)
THEOREM StorageAgrees == Spec => []StorageAgreement
<1>1. DatasetInv => StorageAgreement
  BY DEF DatasetInv
<1> QED BY <1>1, Agreement, PTL

-----------------------------------------------------------------------------
(* Refinement *)

(* The runs of a history are as many as its versions, in their order. *)
LEMMA RunsOfVersions ==
    ASSUME NEW s \in Seq(Version)
    PROVE  /\ [n \in DOMAIN s |-> s[n].run] \in Seq(Runs)
           /\ Len([n \in DOMAIN s |-> s[n].run]) = Len(s)
           /\ DOMAIN s = 1..Len(s) /\ Len(s) \in Nat
<1>1. DOMAIN s = 1..Len(s) /\ Len(s) \in Nat
  BY LenProperties
<1>2. \A n \in 1..Len(s) : s[n].run \in Runs
  <2>1. \A n \in 1..Len(s) : s[n] \in Version
    BY ElementOfSeq
  <2> QED BY <2>1 DEF Version
<1> QED BY <1>1, <1>2, IsASeq, LenProperties

(* Appending a version appends its run. *)
LEMMA RunsOfAppend ==
    ASSUME NEW s \in Seq(Version), NEW v \in Version
    PROVE  [n \in DOMAIN Append(s, v) |-> Append(s, v)[n].run] = Append([n \in DOMAIN s |-> s[n].run],
           v.run)
<1> DEFINE h == [n \in DOMAIN s |-> s[n].run]
           a == Append(s, v)
           b == Append(h, v.run)
<1>1. h \in Seq(Runs) /\ Len(h) = Len(s) /\ DOMAIN s = 1..Len(s) /\ Len(s) \in Nat
  BY RunsOfVersions
<1>2. v.run \in Runs
  BY DEF Version
<1>3. a \in Seq(Version) /\ DOMAIN a = 1..(Len(s) + 1) /\ a[Len(s) + 1] = v
       /\ \A n \in 1..Len(s) : a[n] = s[n]
  BY AppendProperties, LenProperties
<1>4. b \in Seq(Runs) /\ Len(b) = Len(h) + 1 /\ b[Len(h) + 1] = v.run /\ \A n \in 1..Len(h) : b[n] = h[n]
  BY <1>1, <1>2, AppendProperties
<1>5. DOMAIN b = 1..(Len(s) + 1) /\ b = [n \in 1..(Len(s) + 1) |-> b[n]]
  BY <1>1, <1>4, LenProperties
<1> HIDE DEF a, b
<1>6. \A n \in 1..(Len(s) + 1) : a[n].run = b[n]
  BY <1>1, <1>3, <1>4
<1>7. [n \in DOMAIN a |-> a[n].run] = b
  BY <1>3, <1>5, <1>6
<1> QED BY <1>7 DEF a, b

(* The initial dataset is an empty history. *)
LEMMA InitRefines == Init => DH!Init
BY DEF Init, DH!Init, Outcome

(* A step that keeps the rows of the transactions and versions is a stutter. *)
LEMMA RowsKept ==
    ASSUME UNCHANGED <<txStatus, txType, txBase, versions>>
    PROVE  UNCHANGED DH!histVars
BY DEF DH!histVars

(* A transaction that is opened, and its base, are the history's. *)
LEMMA OpenRefines ==
    ASSUME DatasetInv, NEW w \in Workers, NEW r \in Runs, NEW t \in TxTypes, OpenTransaction(w, r, t)
    PROVE  DH!Open(r)
<1>1. txStatus[r] = "NONE" /\ txStatus \in [Runs -> TxStatuses]
  BY DEF DatasetInv, TypeOK, RowsTogether, OpenTransaction
<1>2. [q \in Runs |-> Outcome[txStatus[q]]]' = [[q \in Runs |-> Outcome[txStatus[q]]] EXCEPT ![r] = "open"]
  BY <1>1 DEF OpenTransaction, Outcome
<1>3. Len([n \in DOMAIN versions |-> versions[n].run]) = Len(versions)
  BY RunsOfVersions DEF DatasetInv, TypeOK
<1>4. Outcome[txStatus[r]] = "none"
  BY <1>1 DEF Outcome
<1> QED BY <1>2, <1>3, <1>4 DEF OpenTransaction, DH!Open, DH!TxTypes, TxTypes

(* An abort is the history's, or finds its transaction aborted. *)
LEMMA AbortRefines ==
    ASSUME DatasetInv, NEW r \in Runs, Abortable(r) \/ txStatus[r] = "ABORTED",
           txStatus' = [txStatus EXCEPT ![r] = "ABORTED"], UNCHANGED <<txType, txBase, versions>>
    PROVE  DH!Abort(r) \/ UNCHANGED DH!histVars
<1>1. txStatus \in [Runs -> TxStatuses]
  BY DEF DatasetInv, TypeOK
<1>2. CASE Abortable(r)
  <2>1. [q \in Runs |-> Outcome[txStatus[q]]]' = [[q \in Runs |-> Outcome[txStatus[q]]] EXCEPT ![r] = "aborted"]
    BY <1>1 DEF Outcome
  <2>2. Outcome[txStatus[r]] = "open"
    BY <1>2 DEF Abortable, Outcome
  <2> QED BY <2>1, <2>2 DEF DH!Abort
<1>3. CASE txStatus[r] = "ABORTED"
  <2>1. UNCHANGED txStatus
    BY <1>1, <1>3
  <2> QED BY <2>1, RowsKept
<1> QED BY <1>2, <1>3

(* The commit appends its run, on the base a SNAPSHOT was opened against. *)
LEMMA CommitRefines ==
    ASSUME DatasetInv, NEW w \in Workers, CommitVersion(w),
           NEW r \in Runs, r = job[w]
    PROVE  DH!Commit(r)
<1> DEFINE v == [id |-> w, run |-> job[w], event |-> event[w]]
<1>1. /\ pc[w] = "persist" /\ versions \in Seq(Version)
      /\ txStatus \in [Runs -> TxStatuses] /\ txStatus[job[w]] = "OPEN"
  BY DEF CommitVersion, CommitGoesThrough, DatasetInv, TypeOK, JobsStarted, Locked, Working
<1>2. /\ versions' = Append(versions, v) /\ txStatus' = [txStatus EXCEPT ![job[w]] = "COMMITTED"]
      /\ UNCHANGED <<txType, txBase>>
  BY DEF CommitVersion
<1>3. v \in Version /\ v.run = job[w]
  BY DEF DatasetInv, TypeOK, Version
<1> HIDE DEF v
<1>4. [n \in DOMAIN versions |-> versions[n].run]' = Append([n \in DOMAIN versions |-> versions[n].run], job[w])
  BY <1>1, <1>2, <1>3, RunsOfAppend
<1>5. [q \in Runs |-> Outcome[txStatus[q]]]' = [[q \in Runs |-> Outcome[txStatus[q]]] EXCEPT ![job[w]] = "committed"]
  BY <1>1, <1>2 DEF Outcome
<1>6. Outcome[txStatus[job[w]]] = "open"
  BY <1>1 DEF Outcome
<1>7. txType[job[w]] = "SNAPSHOT" => txBase[job[w]] = Len([n \in DOMAIN versions |-> versions[n].run])
  BY <1>1, RunsOfVersions DEF DatasetInv, HeadHeld, BaseCurrent, Locked
<1> QED BY <1>1, <1>2, <1>4, <1>5, <1>6, <1>7 DEF DH!Commit

(* Every step is a step of the history or leaves it alone. *)
LEMMA StepRefines == DatasetInv /\ [Next]_vars => [DH!Next]_(DH!histVars)
<1> SUFFICES ASSUME DatasetInv, [Next]_vars PROVE DH!Next \/ UNCHANGED DH!histVars
  OBVIOUS
<1>1. ASSUME NEW w \in Workers, StartStep(w) PROVE DH!Next \/ UNCHANGED DH!histVars
  <2>1. CASE ResumeNamed(w) \/ (\E r \in Runs : LookupRun(w, r)) \/ \E e \in Events : LookupEvent(w, e)
    BY <2>1, RowsKept DEF ResumeNamed, LookupRun, LookupEvent, dbVars, txVars
  <2>2. CASE OpenUpload(w) \/ OpenWebhook(w)
    <3>1. NewRun[w] \in Runs
      BY DatasetConstants
    <3> QED BY <2>2, <3>1, OpenRefines DEF OpenUpload, OpenWebhook, TxTypes, DH!Next
  <2>3. ASSUME NEW t \in TxTypes, OpenNamed(w, t) PROVE DH!Next
    <3>1. job[w] \in Runs
      BY <2>3 DEF OpenNamed, DatasetInv, JobsStarted
    <3> QED BY <2>3, <3>1, OpenRefines DEF OpenNamed, DH!Next
  <2> QED BY <1>1, <2>1, <2>2, <2>3 DEF StartStep
<1>2. ASSUME NEW w \in Workers, FinalizeStep(w) PROVE DH!Next \/ UNCHANGED DH!histVars
  <2>1. CASE RollBack(w)
    BY <2>1, RowsKept DEF RollBack, txVars
  <2>2. CASE BlockCommit(w) /\ pc[w] \in {"finalize", "recheck"}
    <3>1. job[w] \in Runs
      BY <2>2 DEF DatasetInv, JobsStarted, Locked, Working
    <3>2. CASE Abortable(job[w])
      BY <2>2, <3>1, <3>2, AbortRefines DEF BlockCommit, DH!Next
    <3>3. CASE ~Abortable(job[w])
      BY <2>2, <3>3, RowsKept DEF BlockCommit
    <3> QED BY <3>2, <3>3
  <2>3. CASE UNCHANGED <<txVars, versions, keyed>>
    BY <2>3, RowsKept DEF txVars
  <2>4. CASE CommitVersion(w)
    <3>1. job[w] \in Runs
      BY <2>4 DEF CommitVersion, DatasetInv, JobsStarted, Locked, Working
    <3>2. PICK r \in Runs : r = job[w]
      BY <3>1
    <3> QED BY <2>4, <3>2, CommitRefines DEF DH!Next
  <2> QED BY <1>2, <2>1, <2>2, <2>3, <2>4
        DEF FinalizeStep, ValidateCandidate, RecheckCandidate, PromoteFiles, LoseCommit, dbVars
<1>3. ASSUME NEW w \in Workers, Extract(w) \/ CleanupStaging(w) \/ WorkerCrash(w)
      PROVE  UNCHANGED DH!histVars
  BY <1>3, RowsKept DEF Extract, CleanupStaging, WorkerCrash, dbVars, txVars
<1>4. ASSUME NEW w \in Workers, AbortAfterError(w) PROVE DH!Next \/ UNCHANGED DH!histVars
  <2>1. job[w] \in Runs /\ UNCHANGED <<txType, txBase, versions>>
    BY <1>4 DEF AbortAfterError, DatasetInv, JobsStarted, Locked, Working
  <2>2. CASE UNCHANGED txStatus
    BY <2>1, <2>2, RowsKept
  <2>3. CASE (Abortable(job[w]) \/ txStatus[job[w]] = "ABORTED")
         /\ txStatus' = [txStatus EXCEPT ![job[w]] = "ABORTED"]
    BY <2>1, <2>3, AbortRefines DEF DH!Next
  <2> QED BY <1>4, <2>2, <2>3 DEF AbortAfterError
<1>5. ASSUME NEW x \in Watchdogs, WatchStep(x) \/ WatchCrash(x) PROVE DH!Next \/ UNCHANGED DH!histVars
  <2>1. CASE WatchCleanup(x) \/ WatchCrash(x) \/ \E r \in Runs : WatchList(x, r)
    BY <2>1, RowsKept DEF WatchCleanup, WatchCrash, WatchList, dbVars, txVars
  <2>2. CASE WatchClaim(x)
    <3>1. UNCHANGED <<txType, txBase, versions>> /\ txStatus \in [Runs -> TxStatuses] /\ target[x] \in Runs
      BY <2>2 DEF WatchClaim, DatasetInv, TypeOK, JobsStarted
    <3>2. CASE UNCHANGED txStatus
      BY <3>1, <3>2, RowsKept
    <3>3. CASE txStatus[target[x]] = "OPEN" /\ txStatus' = [txStatus EXCEPT ![target[x]] = "ABORTING"]
      <4>1. [q \in Runs |-> Outcome[txStatus[q]]]' = [q \in Runs |-> Outcome[txStatus[q]]]
        BY <3>1, <3>3 DEF Outcome
      <4> QED BY <3>1, <4>1 DEF DH!histVars
    <3> QED BY <2>2, <3>2, <3>3 DEF WatchClaim
  <2>3. CASE WatchAbort(x)
    <3>1. target[x] \in Runs /\ UNCHANGED <<txType, txBase, versions>>
      BY <2>3 DEF WatchAbort, DatasetInv, JobsStarted
    <3>2. CASE Abortable(target[x])
      BY <2>3, <3>1, <3>2, AbortRefines DEF WatchAbort, DH!Next
    <3>3. CASE ~Abortable(target[x])
      BY <2>3, <3>1, <3>3, RowsKept DEF WatchAbort
    <3> QED BY <3>2, <3>3
  <2> QED BY <1>5, <2>1, <2>2, <2>3 DEF WatchStep
<1>6. CASE UNCHANGED vars
  BY <1>6, RowsKept DEF vars, dbVars, txVars
<1> QED BY <1>1, <1>2, <1>3, <1>4, <1>5, <1>6 DEF Next, AbortStep

(* Uploads, syncs, webhooks, the watchdog and crashes together behave like one
   atomic commit or abort per transaction on a linear history. *)
THEOREM DatasetRefinement == Spec => ImplementsHistory
<1>1. Init => DH!Init
  BY InitRefines
<1>2. DatasetInv /\ [Next]_vars => [DH!Next]_(DH!histVars)
  BY StepRefines
<1> QED BY <1>1, <1>2, Agreement, PTL DEF Spec, ImplementsHistory, DH!Spec
=============================================================================
