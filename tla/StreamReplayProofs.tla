-------------------------- MODULE StreamReplayProofs --------------------------
(***************************************************************************)
(* Theorems about StreamReplay: for any stream, any set of bad records and *)
(* any number of archivers, callers and retries, no event is lost between  *)
(* the archive and the dead letters, and none is replayed twice.           *)
(***************************************************************************)
EXTENDS StreamReplay, SequenceTheorems, TLAPS

\* The dead letters and the requests for a replay.
LetterTypes ==
    /\ status \in [Bad -> Statuses] /\ replay \in [Bad -> ReplayStatuses]
    /\ key \in [Bad -> Keys \cup {NoKey}] /\ run \in [Bad -> 0..MaxRequests]
    /\ token \in [Bad -> Callers \cup {NoCaller}] /\ expired \in [Bad -> BOOLEAN]
    /\ requests \in 0..MaxRequests

\* What the callers hold.
CallTypes ==
    /\ cpc \in [Callers -> CallPCs] /\ rec \in [Callers -> 0..MaxOffset]
    /\ crun \in [Callers -> 0..MaxRequests] /\ meta \in [Callers -> 0..MaxOffset]

\* The stream, the archivers, the runs of replays, and the bounds.
FlowTypes ==
    /\ produced \in 0..MaxOffset /\ sync \in [Requests -> Syncs]
    /\ apc \in [Archivers -> {"idle", "commit"}] /\ aSeen \in [Archivers -> Nat]
    /\ aFrom \in [Archivers -> 0..MaxOffset + 1] /\ aUpto \in [Archivers -> 0..MaxOffset]
    /\ crashes \in 0..MaxCrashes /\ takeovers \in 0..MaxTakeovers

\* The version that an archiver's batch makes, and the one of a call's record.
BatchVersion(a)  == [offsets |-> Batch(a) \ Bad, cursor |-> aUpto[a], replayOf |-> 0]
ReplayVersion(c) == [offsets |-> {rec[c]}, cursor |-> meta[c], replayOf |-> rec[c]]

\* How a step may change the dataset: only by a commit, which appends.
LogStep ==
    \/ log' = log
    \/ \E a \in Archivers : ArchiveCommit(a) /\ log' = Append(log, BatchVersion(a))
    \/ \E c \in Callers : CommitReplay(c) /\ log' = Append(log, ReplayVersion(c))

\* How a step may change what an archiver holds.
ArchiverStep ==
    \A a \in Archivers :
        \/ apc'[a] = apc[a] /\ aSeen'[a] = aSeen[a] /\ aFrom'[a] = aFrom[a]
        \/ apc'[a] = "idle" /\ aSeen'[a] = 0
        \/ log' = log /\ aSeen'[a] = Len(log) /\ aFrom'[a] = Cursor + 1

\* How a step may change what a caller holds.
CallerStep ==
    \A c \in Callers :
        /\ cpc'[c] # "idle" => rec'[c] \in Bad
        /\ cpc'[c] = "commit" => meta'[c] = Cursor \/ (cpc[c] = "commit" /\ meta'[c] = meta[c])

\* The versions of the dataset stay, and there is at most one more.
LogGrows ==
    /\ \A n \in DOMAIN log : n \in DOMAIN log' /\ log'[n] = log[n]
    /\ log' = log \/ Len(log') = Len(log) + 1

\* A record that is quarantined remains in the dead letters.
QuarantineStep == \A o \in Bad : status[o] # "NONE" => status'[o] # "NONE"

\* The cursor of the dataset is an offset.
LEMMA CursorIsOffset == ASSUME TypeOK PROVE Cursor \in 0..MaxOffset
<1>1. CASE log = << >>
  BY <1>1, ReplayConstants DEF Cursor
<1>2. CASE log # << >>
  <2>1. Len(log) \in DOMAIN log
    BY <1>2 DEF TypeOK
  <2>2. log[Len(log)] \in Version
    BY <2>1 DEF TypeOK
  <2> QED
    BY <1>2, <2>2 DEF Cursor, Version
<1> QED
  BY <1>1, <1>2

\* The last event an archiver reads has been produced.
LEMMA LastReadIsOffset == ASSUME TypeOK PROVE LastRead \in 0..MaxOffset
BY CursorIsOffset, ReplayConstants DEF TypeOK, LastRead

\* What commits append are versions.
LEMMA VersionsTyped ==
  ASSUME TypeOK
  PROVE  /\ \A a \in Archivers : aFrom[a] > 0 => BatchVersion(a) \in Version
         /\ \A c \in Callers : rec[c] \in Bad => ReplayVersion(c) \in Version
<1>1. ASSUME NEW a \in Archivers, aFrom[a] > 0 PROVE BatchVersion(a) \in Version
  <2>1. Batch(a) \subseteq Offsets
    <3>1. aFrom[a] \in 1..MaxOffset + 1 /\ aUpto[a] \in 0..MaxOffset
      BY <1>1, ReplayConstants DEF TypeOK
    <3> QED
      BY <3>1, ReplayConstants DEF Batch, Offsets
  <2> QED
    BY <2>1, ReplayConstants DEF BatchVersion, Version, TypeOK
<1>2. ASSUME NEW c \in Callers, rec[c] \in Bad PROVE ReplayVersion(c) \in Version
  BY <1>2, ReplayConstants DEF ReplayVersion, Version, TypeOK
<1> QED
  BY <1>1, <1>2

\* Appending keeps what the dataset has and adds one version.
LEMMA Appended ==
  ASSUME TypeOK, NEW v \in Version, log' = Append(log, v)
  PROVE  /\ log' \in Seq(Version) /\ Len(log') = Len(log) + 1
         /\ DOMAIN log' = DOMAIN log \cup {Len(log) + 1}
         /\ \A n \in DOMAIN log : log'[n] = log[n]
         /\ log'[Len(log) + 1] = v
         /\ Cursor' = v.cursor
<1>1. log \in Seq(Version)
  BY DEF TypeOK
<1>2. /\ log' \in Seq(Version) /\ Len(log') = Len(log) + 1
      /\ \A n \in 1..Len(log) : log'[n] = log[n]
      /\ log'[Len(log) + 1] = v
  BY <1>1, AppendProperties
<1>3. DOMAIN log = 1..Len(log) /\ DOMAIN log' = 1..Len(log) + 1 /\ Len(log) \in Nat
  BY <1>1, <1>2, LenProperties
<1>4. log' # << >>
  BY <1>2, <1>3
<1>5. Cursor' = v.cursor
  BY <1>2, <1>4 DEF Cursor
<1> QED
  BY <1>1, <1>2, <1>3, <1>5

\* TypeOK, part by part.
LEMMA TypesAreParts == TypeOK <=> log \in Seq(Version) /\ LetterTypes /\ CallTypes /\ FlowTypes
BY DEF TypeOK, LetterTypes, CallTypes, FlowTypes

\* An empty dataset, before the first event.
LEMMA InitHolds == Init => ReplayInv /\ NothingSkipped
<1> SUFFICES ASSUME Init PROVE ReplayInv /\ NothingSkipped
  OBVIOUS
<1> USE ReplayConstants DEF Init
<1>1. log = << >> /\ log \in Seq(Version) /\ DOMAIN log = {} /\ Len(log) = 0 /\ Cursor = 0
  BY DEF Cursor
<1>2. LetterTypes /\ CallTypes /\ FlowTypes
  BY DEF LetterTypes, CallTypes, FlowTypes, Statuses, ReplayStatuses, Syncs, CallPCs
<1>3. ResolvedIffReplayed /\ ReplayedOnce /\ ArchiversReadOn /\ CallsAreSound
  BY <1>1 DEF ResolvedIffReplayed, ReplayedOnce, ArchiversReadOn, CallsAreSound
<1>4. NothingSkipped
  BY <1>1 DEF NothingSkipped, Covered
<1> QED
  BY <1>1, <1>2, <1>3, <1>4, TypesAreParts DEF ReplayInv

-----------------------------------------------------------------------------
(* Types *)

\* The dead letters stay within their types.
LEMMA LettersKept == TypeOK /\ Next => LetterTypes'
<1> SUFFICES ASSUME TypeOK, Next PROVE LetterTypes'
  OBVIOUS
<1> USE ReplayConstants DEF LetterTypes, TypeOK, Statuses, ReplayStatuses, Offsets, Requests,
        letterVars, archiveVars, callVars, boundVars
<1>1. CASE Produce
  BY <1>1 DEF Produce
<1>2. ASSUME NEW a \in Archivers, ArchiveRead(a) PROVE LetterTypes'
  BY <1>2 DEF ArchiveRead
<1>3. ASSUME NEW a \in Archivers, ArchiveReject(a) PROVE LetterTypes'
  BY <1>3 DEF ArchiveReject, InsertDeadLetters, ArchiveReturns
<1>4. ASSUME NEW a \in Archivers, ArchiveCommit(a) PROVE LetterTypes'
  BY <1>4 DEF ArchiveCommit, InsertDeadLetters, ArchiveReturns, CursorCurrent
<1>5. ASSUME NEW a \in Archivers, ArchiveFail(a) PROVE LetterTypes'
  BY <1>5 DEF ArchiveFail, InsertDeadLetters, ArchiveReturns, CursorCurrent
<1>6. ASSUME NEW c \in Callers, NEW o \in Bad, NEW k \in Keys, RequestReplay(c, o, k)
      PROVE  LetterTypes'
  BY <1>6 DEF RequestReplay, Requestable
<1>7. ASSUME NEW c \in Callers, NEW o \in Bad, NEW k \in Keys, ResumeReplay(c, o, k)
      PROVE  LetterTypes'
  BY <1>7 DEF ResumeReplay
<1>8. ASSUME NEW c \in Callers, ClaimReplay(c) PROVE LetterTypes'
  <2>1. CASE Claimable(rec[c])
    <3>1. /\ status'  = [status EXCEPT ![rec[c]] = "REPLAYING"]
          /\ replay'  = [replay EXCEPT ![rec[c]] = "REPLAYING"]
          /\ token'   = [token EXCEPT ![rec[c]] = c]
          /\ expired' = [expired EXCEPT ![rec[c]] = FALSE]
          /\ UNCHANGED <<key, run, requests>>
      BY <1>8, <2>1 DEF ClaimReplay
    <3> QED
      BY <3>1
  <2>2. CASE ~Claimable(rec[c])
    BY <1>8, <2>2 DEF ClaimReplay
  <2> QED
    BY <2>1, <2>2
<1>9. ASSUME NEW c \in Callers, PrepareReplay(c) PROVE LetterTypes'
  BY <1>9 DEF PrepareReplay
<1>10. ASSUME NEW c \in Callers, WriteReplay(c) PROVE LetterTypes'
  BY <1>10 DEF WriteReplay
<1>11. ASSUME NEW c \in Callers, ReadMetadata(c) PROVE LetterTypes'
  BY <1>11 DEF ReadMetadata
<1>12. ASSUME NEW c \in Callers, CommitReplay(c) PROVE LetterTypes'
  BY <1>12 DEF CommitReplay, Holds, Returns
<1>13. ASSUME NEW c \in Callers, FailReplay(c) PROVE LetterTypes'
  BY <1>13 DEF FailReplay
<1>14. ASSUME NEW c \in Callers, AbortReplay(c) PROVE LetterTypes'
  BY <1>14 DEF AbortReplay, Returns
<1>15. ASSUME NEW c \in Callers, RecordFailure(c) PROVE LetterTypes'
  BY <1>15 DEF RecordFailure, Holds, Returns
<1>16. ASSUME NEW c \in Callers, CallCrash(c) PROVE LetterTypes'
  BY <1>16 DEF CallCrash, Returns
<1>17. ASSUME NEW o \in Bad, LeaseExpires(o) PROVE LetterTypes'
  BY <1>17 DEF LeaseExpires
<1>18. ASSUME NEW o \in Bad, DiscardDeadLetter(o) PROVE LetterTypes'
  BY <1>18 DEF DiscardDeadLetter, Discardable
<1>19. ASSUME NEW k \in Requests, WatchdogAbort(k) PROVE LetterTypes'
  BY <1>19 DEF WatchdogAbort
<1> QED
  BY <1>1, <1>2, <1>3, <1>4, <1>5, <1>6, <1>7, <1>8, <1>9, <1>10, <1>11, <1>12, <1>13, <1>14, <1>15,
     <1>16, <1>17, <1>18, <1>19 DEF Next, ArchiveStep, ReplayStep

\* What callers hold stays within its types.
LEMMA CallsKept == TypeOK /\ CallsAreSound /\ Next => CallTypes'
<1> SUFFICES ASSUME TypeOK /\ CallsAreSound, Next PROVE CallTypes'
  OBVIOUS
<1> USE ReplayConstants DEF CallTypes, CallsAreSound, TypeOK, CallPCs, Statuses, Offsets,
        Requests, letterVars, archiveVars, callVars, boundVars
<1>1. CASE Produce
  BY <1>1 DEF Produce
<1>2. ASSUME NEW a \in Archivers, ArchiveRead(a) PROVE CallTypes'
  BY <1>2 DEF ArchiveRead
<1>3. ASSUME NEW a \in Archivers, ArchiveReject(a) PROVE CallTypes'
  BY <1>3 DEF ArchiveReject, InsertDeadLetters, ArchiveReturns
<1>4. ASSUME NEW a \in Archivers, ArchiveCommit(a) PROVE CallTypes'
  BY <1>4 DEF ArchiveCommit, InsertDeadLetters, ArchiveReturns, CursorCurrent
<1>5. ASSUME NEW a \in Archivers, ArchiveFail(a) PROVE CallTypes'
  BY <1>5 DEF ArchiveFail, InsertDeadLetters, ArchiveReturns, CursorCurrent
<1>6. ASSUME NEW c \in Callers, NEW o \in Bad, NEW k \in Keys, RequestReplay(c, o, k)
      PROVE  CallTypes'
  BY <1>6 DEF RequestReplay, Requestable
<1>7. ASSUME NEW c \in Callers, NEW o \in Bad, NEW k \in Keys, ResumeReplay(c, o, k)
      PROVE  CallTypes'
  BY <1>7 DEF ResumeReplay
<1>8. ASSUME NEW c \in Callers, ClaimReplay(c) PROVE CallTypes'
  <2>1. CASE Claimable(rec[c])
    <3>1. /\ crun' = [crun EXCEPT ![c] = run[rec[c]]]
          /\ cpc' = [cpc EXCEPT ![c] = "prepare"] /\ UNCHANGED <<rec, meta>>
      BY <1>8, <2>1 DEF ClaimReplay
    <3>2. run[rec[c]] \in 0..MaxRequests
      BY <1>8 DEF ClaimReplay
    <3> QED
      BY <3>1, <3>2
  <2>2. CASE ~Claimable(rec[c])
    <3>1. Returns(c)
      BY <1>8, <2>2 DEF ClaimReplay
    <3> QED
      BY <3>1 DEF Returns
  <2> QED
    BY <2>1, <2>2
<1>9. ASSUME NEW c \in Callers, PrepareReplay(c) PROVE CallTypes'
  BY <1>9 DEF PrepareReplay
<1>10. ASSUME NEW c \in Callers, WriteReplay(c) PROVE CallTypes'
  BY <1>10 DEF WriteReplay
<1>11. ASSUME NEW c \in Callers, ReadMetadata(c) PROVE CallTypes'
  BY <1>11, CursorIsOffset DEF ReadMetadata
<1>12. ASSUME NEW c \in Callers, CommitReplay(c) PROVE CallTypes'
  BY <1>12 DEF CommitReplay, Holds, Returns
<1>13. ASSUME NEW c \in Callers, FailReplay(c) PROVE CallTypes'
  BY <1>13 DEF FailReplay
<1>14. ASSUME NEW c \in Callers, AbortReplay(c) PROVE CallTypes'
  <2>1. CASE Returns(c)
    BY <2>1 DEF Returns
  <2>2. CASE cpc' = [cpc EXCEPT ![c] = "record"] /\ UNCHANGED <<rec, crun, meta>>
    BY <2>2
  <2> QED
    BY <1>14, <2>1, <2>2 DEF AbortReplay
<1>15. ASSUME NEW c \in Callers, RecordFailure(c) PROVE CallTypes'
  BY <1>15 DEF RecordFailure, Holds, Returns
<1>16. ASSUME NEW c \in Callers, CallCrash(c) PROVE CallTypes'
  BY <1>16 DEF CallCrash, Returns
<1>17. ASSUME NEW o \in Bad, LeaseExpires(o) PROVE CallTypes'
  BY <1>17 DEF LeaseExpires
<1>18. ASSUME NEW o \in Bad, DiscardDeadLetter(o) PROVE CallTypes'
  BY <1>18 DEF DiscardDeadLetter, Discardable
<1>19. ASSUME NEW k \in Requests, WatchdogAbort(k) PROVE CallTypes'
  BY <1>19 DEF WatchdogAbort
<1> QED
  BY <1>1, <1>2, <1>3, <1>4, <1>5, <1>6, <1>7, <1>8, <1>9, <1>10, <1>11, <1>12, <1>13, <1>14, <1>15,
     <1>16, <1>17, <1>18, <1>19 DEF Next, ArchiveStep, ReplayStep

\* The stream, the archivers and the runs of replays stay within their types.
LEMMA FlowKept == TypeOK /\ Next => FlowTypes'
<1> SUFFICES ASSUME TypeOK, Next PROVE FlowTypes'
  OBVIOUS
<1> USE ReplayConstants DEF FlowTypes, TypeOK, Syncs, Offsets, Requests, letterVars, archiveVars,
        callVars, boundVars
<1>1. CASE Produce
  BY <1>1 DEF Produce
<1>2. ASSUME NEW a \in Archivers, ArchiveRead(a) PROVE FlowTypes'
  <2>1. Cursor \in 0..MaxOffset /\ LastRead \in 0..MaxOffset
    BY CursorIsOffset, LastReadIsOffset
  <2>2. Len(log) \in Nat
    BY LenProperties
  <2> QED
    BY <1>2, <2>1, <2>2 DEF ArchiveRead
<1>3. ASSUME NEW a \in Archivers, ArchiveReject(a) PROVE FlowTypes'
  BY <1>3 DEF ArchiveReject, InsertDeadLetters, ArchiveReturns
<1>4. ASSUME NEW a \in Archivers, ArchiveCommit(a) PROVE FlowTypes'
  BY <1>4 DEF ArchiveCommit, InsertDeadLetters, ArchiveReturns, CursorCurrent
<1>5. ASSUME NEW a \in Archivers, ArchiveFail(a) PROVE FlowTypes'
  BY <1>5 DEF ArchiveFail, InsertDeadLetters, ArchiveReturns, CursorCurrent
<1>6. ASSUME NEW c \in Callers, NEW o \in Bad, NEW k \in Keys, RequestReplay(c, o, k)
      PROVE  FlowTypes'
  BY <1>6 DEF RequestReplay, Requestable
<1>7. ASSUME NEW c \in Callers, NEW o \in Bad, NEW k \in Keys, ResumeReplay(c, o, k)
      PROVE  FlowTypes'
  BY <1>7 DEF ResumeReplay
<1>8. ASSUME NEW c \in Callers, ClaimReplay(c) PROVE FlowTypes'
  BY <1>8 DEF ClaimReplay, Claimable, Returns
<1>9. ASSUME NEW c \in Callers, PrepareReplay(c) PROVE FlowTypes'
  BY <1>9 DEF PrepareReplay
<1>10. ASSUME NEW c \in Callers, WriteReplay(c) PROVE FlowTypes'
  BY <1>10 DEF WriteReplay
<1>11. ASSUME NEW c \in Callers, ReadMetadata(c) PROVE FlowTypes'
  BY <1>11 DEF ReadMetadata
<1>12. ASSUME NEW c \in Callers, CommitReplay(c) PROVE FlowTypes'
  BY <1>12 DEF CommitReplay, Holds, Returns
<1>13. ASSUME NEW c \in Callers, FailReplay(c) PROVE FlowTypes'
  BY <1>13 DEF FailReplay
<1>14. ASSUME NEW c \in Callers, AbortReplay(c) PROVE FlowTypes'
  BY <1>14 DEF AbortReplay, Returns
<1>15. ASSUME NEW c \in Callers, RecordFailure(c) PROVE FlowTypes'
  BY <1>15 DEF RecordFailure, Holds, Returns
<1>16. ASSUME NEW c \in Callers, CallCrash(c) PROVE FlowTypes'
  BY <1>16 DEF CallCrash, Returns
<1>17. ASSUME NEW o \in Bad, LeaseExpires(o) PROVE FlowTypes'
  BY <1>17 DEF LeaseExpires
<1>18. ASSUME NEW o \in Bad, DiscardDeadLetter(o) PROVE FlowTypes'
  BY <1>18 DEF DiscardDeadLetter, Discardable
<1>19. ASSUME NEW k \in Requests, WatchdogAbort(k) PROVE FlowTypes'
  BY <1>19 DEF WatchdogAbort
<1> QED
  BY <1>1, <1>2, <1>3, <1>4, <1>5, <1>6, <1>7, <1>8, <1>9, <1>10, <1>11, <1>12, <1>13, <1>14, <1>15,
     <1>16, <1>17, <1>18, <1>19 DEF Next, ArchiveStep, ReplayStep

-----------------------------------------------------------------------------
(* What single steps may do *)

\* Versions come from the commit of an archiver or of a replay, and nowhere else.
LEMMA LogSteps == Next => LogStep
<1> SUFFICES ASSUME Next PROVE LogStep
  OBVIOUS
<1> USE ReplayConstants DEF LogStep, letterVars, archiveVars, callVars, boundVars
<1>1. CASE Produce
  BY <1>1 DEF Produce
<1>2. ASSUME NEW a \in Archivers, ArchiveRead(a) PROVE LogStep
  BY <1>2 DEF ArchiveRead
<1>3. ASSUME NEW a \in Archivers, ArchiveReject(a) PROVE LogStep
  BY <1>3 DEF ArchiveReject, InsertDeadLetters, ArchiveReturns
<1>4. ASSUME NEW a \in Archivers, ArchiveCommit(a) PROVE LogStep
  BY <1>4 DEF ArchiveCommit, BatchVersion
<1>5. ASSUME NEW a \in Archivers, ArchiveFail(a) PROVE LogStep
  BY <1>5 DEF ArchiveFail, InsertDeadLetters, ArchiveReturns, CursorCurrent
<1>6. ASSUME NEW c \in Callers, NEW o \in Bad, NEW k \in Keys, RequestReplay(c, o, k)
      PROVE  LogStep
  BY <1>6 DEF RequestReplay, Requestable
<1>7. ASSUME NEW c \in Callers, NEW o \in Bad, NEW k \in Keys, ResumeReplay(c, o, k)
      PROVE  LogStep
  BY <1>7 DEF ResumeReplay
<1>8. ASSUME NEW c \in Callers, ClaimReplay(c) PROVE LogStep
  BY <1>8 DEF ClaimReplay, Claimable, Returns
<1>9. ASSUME NEW c \in Callers, PrepareReplay(c) PROVE LogStep
  BY <1>9 DEF PrepareReplay
<1>10. ASSUME NEW c \in Callers, WriteReplay(c) PROVE LogStep
  BY <1>10 DEF WriteReplay
<1>11. ASSUME NEW c \in Callers, ReadMetadata(c) PROVE LogStep
  BY <1>11 DEF ReadMetadata
<1>12. ASSUME NEW c \in Callers, CommitReplay(c) PROVE LogStep
  BY <1>12 DEF CommitReplay, ReplayVersion
<1>13. ASSUME NEW c \in Callers, FailReplay(c) PROVE LogStep
  BY <1>13 DEF FailReplay
<1>14. ASSUME NEW c \in Callers, AbortReplay(c) PROVE LogStep
  BY <1>14 DEF AbortReplay, Returns
<1>15. ASSUME NEW c \in Callers, RecordFailure(c) PROVE LogStep
  BY <1>15 DEF RecordFailure, Holds, Returns
<1>16. ASSUME NEW c \in Callers, CallCrash(c) PROVE LogStep
  BY <1>16 DEF CallCrash, Returns
<1>17. ASSUME NEW o \in Bad, LeaseExpires(o) PROVE LogStep
  BY <1>17 DEF LeaseExpires
<1>18. ASSUME NEW o \in Bad, DiscardDeadLetter(o) PROVE LogStep
  BY <1>18 DEF DiscardDeadLetter, Discardable
<1>19. ASSUME NEW k \in Requests, WatchdogAbort(k) PROVE LogStep
  BY <1>19 DEF WatchdogAbort
<1> QED
  BY <1>1, <1>2, <1>3, <1>4, <1>5, <1>6, <1>7, <1>8, <1>9, <1>10, <1>11, <1>12, <1>13, <1>14, <1>15,
     <1>16, <1>17, <1>18, <1>19 DEF Next, ArchiveStep, ReplayStep

\* No transition of a dead letter removes it (insert_stream_dead_letters,
\* transition_dead_letter_record).
LEMMA QuarantineSteps == CallsAreSound /\ TypeOK /\ Next => QuarantineStep
<1> SUFFICES ASSUME CallsAreSound /\ TypeOK, Next PROVE QuarantineStep
  OBVIOUS
<1> USE ReplayConstants DEF QuarantineStep, CallsAreSound, TypeOK, letterVars, archiveVars,
        callVars, boundVars
<1>1. CASE Produce
  BY <1>1 DEF Produce
<1>2. ASSUME NEW a \in Archivers, ArchiveRead(a) PROVE QuarantineStep
  BY <1>2 DEF ArchiveRead
<1>3. ASSUME NEW a \in Archivers, ArchiveReject(a) PROVE QuarantineStep
  BY <1>3 DEF ArchiveReject, InsertDeadLetters, ArchiveReturns
<1>4. ASSUME NEW a \in Archivers, ArchiveCommit(a) PROVE QuarantineStep
  BY <1>4 DEF ArchiveCommit, InsertDeadLetters, ArchiveReturns, CursorCurrent
<1>5. ASSUME NEW a \in Archivers, ArchiveFail(a) PROVE QuarantineStep
  BY <1>5 DEF ArchiveFail, InsertDeadLetters, ArchiveReturns, CursorCurrent
<1>6. ASSUME NEW c \in Callers, NEW o \in Bad, NEW k \in Keys, RequestReplay(c, o, k)
      PROVE  QuarantineStep
  BY <1>6 DEF RequestReplay, Requestable
<1>7. ASSUME NEW c \in Callers, NEW o \in Bad, NEW k \in Keys, ResumeReplay(c, o, k)
      PROVE  QuarantineStep
  BY <1>7 DEF ResumeReplay
<1>8. ASSUME NEW c \in Callers, ClaimReplay(c) PROVE QuarantineStep
  BY <1>8 DEF ClaimReplay, Claimable, Returns
<1>9. ASSUME NEW c \in Callers, PrepareReplay(c) PROVE QuarantineStep
  BY <1>9 DEF PrepareReplay
<1>10. ASSUME NEW c \in Callers, WriteReplay(c) PROVE QuarantineStep
  BY <1>10 DEF WriteReplay
<1>11. ASSUME NEW c \in Callers, ReadMetadata(c) PROVE QuarantineStep
  BY <1>11 DEF ReadMetadata
<1>12. ASSUME NEW c \in Callers, CommitReplay(c) PROVE QuarantineStep
  BY <1>12 DEF CommitReplay, Holds, Returns
<1>13. ASSUME NEW c \in Callers, FailReplay(c) PROVE QuarantineStep
  BY <1>13 DEF FailReplay
<1>14. ASSUME NEW c \in Callers, AbortReplay(c) PROVE QuarantineStep
  BY <1>14 DEF AbortReplay, Returns
<1>15. ASSUME NEW c \in Callers, RecordFailure(c) PROVE QuarantineStep
  BY <1>15 DEF RecordFailure, Holds, Returns
<1>16. ASSUME NEW c \in Callers, CallCrash(c) PROVE QuarantineStep
  BY <1>16 DEF CallCrash, Returns
<1>17. ASSUME NEW o \in Bad, LeaseExpires(o) PROVE QuarantineStep
  BY <1>17 DEF LeaseExpires
<1>18. ASSUME NEW o \in Bad, DiscardDeadLetter(o) PROVE QuarantineStep
  BY <1>18 DEF DiscardDeadLetter, Discardable
<1>19. ASSUME NEW k \in Requests, WatchdogAbort(k) PROVE QuarantineStep
  BY <1>19 DEF WatchdogAbort
<1> QED
  BY <1>1, <1>2, <1>3, <1>4, <1>5, <1>6, <1>7, <1>8, <1>9, <1>10, <1>11, <1>12, <1>13, <1>14, <1>15,
     <1>16, <1>17, <1>18, <1>19 DEF Next, ArchiveStep, ReplayStep

\* An archiver reads, or ends.
LEMMA ArchiverSteps == TypeOK /\ Next => ArchiverStep
<1> SUFFICES ASSUME TypeOK, Next PROVE ArchiverStep
  OBVIOUS
<1> USE ReplayConstants DEF ArchiverStep, TypeOK, letterVars, archiveVars, callVars, boundVars
<1>1. CASE Produce
  BY <1>1 DEF Produce
<1>2. ASSUME NEW a \in Archivers, ArchiveRead(a) PROVE ArchiverStep
  BY <1>2 DEF ArchiveRead
<1>3. ASSUME NEW a \in Archivers, ArchiveReject(a) PROVE ArchiverStep
  BY <1>3 DEF ArchiveReject, InsertDeadLetters, ArchiveReturns
<1>4. ASSUME NEW a \in Archivers, ArchiveCommit(a) PROVE ArchiverStep
  BY <1>4 DEF ArchiveCommit, InsertDeadLetters, ArchiveReturns, CursorCurrent
<1>5. ASSUME NEW a \in Archivers, ArchiveFail(a) PROVE ArchiverStep
  BY <1>5 DEF ArchiveFail, InsertDeadLetters, ArchiveReturns, CursorCurrent
<1>6. ASSUME NEW c \in Callers, NEW o \in Bad, NEW k \in Keys, RequestReplay(c, o, k)
      PROVE  ArchiverStep
  BY <1>6 DEF RequestReplay, Requestable
<1>7. ASSUME NEW c \in Callers, NEW o \in Bad, NEW k \in Keys, ResumeReplay(c, o, k)
      PROVE  ArchiverStep
  BY <1>7 DEF ResumeReplay
<1>8. ASSUME NEW c \in Callers, ClaimReplay(c) PROVE ArchiverStep
  BY <1>8 DEF ClaimReplay, Claimable, Returns
<1>9. ASSUME NEW c \in Callers, PrepareReplay(c) PROVE ArchiverStep
  BY <1>9 DEF PrepareReplay
<1>10. ASSUME NEW c \in Callers, WriteReplay(c) PROVE ArchiverStep
  BY <1>10 DEF WriteReplay
<1>11. ASSUME NEW c \in Callers, ReadMetadata(c) PROVE ArchiverStep
  BY <1>11 DEF ReadMetadata
<1>12. ASSUME NEW c \in Callers, CommitReplay(c) PROVE ArchiverStep
  BY <1>12 DEF CommitReplay, Holds, Returns
<1>13. ASSUME NEW c \in Callers, FailReplay(c) PROVE ArchiverStep
  BY <1>13 DEF FailReplay
<1>14. ASSUME NEW c \in Callers, AbortReplay(c) PROVE ArchiverStep
  BY <1>14 DEF AbortReplay, Returns
<1>15. ASSUME NEW c \in Callers, RecordFailure(c) PROVE ArchiverStep
  BY <1>15 DEF RecordFailure, Holds, Returns
<1>16. ASSUME NEW c \in Callers, CallCrash(c) PROVE ArchiverStep
  BY <1>16 DEF CallCrash, Returns
<1>17. ASSUME NEW o \in Bad, LeaseExpires(o) PROVE ArchiverStep
  BY <1>17 DEF LeaseExpires
<1>18. ASSUME NEW o \in Bad, DiscardDeadLetter(o) PROVE ArchiverStep
  BY <1>18 DEF DiscardDeadLetter, Discardable
<1>19. ASSUME NEW k \in Requests, WatchdogAbort(k) PROVE ArchiverStep
  BY <1>19 DEF WatchdogAbort
<1> QED
  BY <1>1, <1>2, <1>3, <1>4, <1>5, <1>6, <1>7, <1>8, <1>9, <1>10, <1>11, <1>12, <1>13, <1>14, <1>15,
     <1>16, <1>17, <1>18, <1>19 DEF Next, ArchiveStep, ReplayStep

\* A caller that commits has read the cursor before (_replay_transaction_metadata).
LEMMA CallerSteps == CallsAreSound /\ TypeOK /\ Next => CallerStep
<1> SUFFICES ASSUME CallsAreSound /\ TypeOK, Next PROVE CallerStep
  OBVIOUS
<1> USE ReplayConstants DEF CallerStep, CallsAreSound, TypeOK, letterVars, archiveVars, callVars,
        boundVars
<1>1. CASE Produce
  BY <1>1 DEF Produce
<1>2. ASSUME NEW a \in Archivers, ArchiveRead(a) PROVE CallerStep
  BY <1>2 DEF ArchiveRead
<1>3. ASSUME NEW a \in Archivers, ArchiveReject(a) PROVE CallerStep
  BY <1>3 DEF ArchiveReject, InsertDeadLetters, ArchiveReturns
<1>4. ASSUME NEW a \in Archivers, ArchiveCommit(a) PROVE CallerStep
  BY <1>4 DEF ArchiveCommit, InsertDeadLetters, ArchiveReturns, CursorCurrent
<1>5. ASSUME NEW a \in Archivers, ArchiveFail(a) PROVE CallerStep
  BY <1>5 DEF ArchiveFail, InsertDeadLetters, ArchiveReturns, CursorCurrent
<1>6. ASSUME NEW c \in Callers, NEW o \in Bad, NEW k \in Keys, RequestReplay(c, o, k)
      PROVE  CallerStep
  BY <1>6 DEF RequestReplay, Requestable
<1>7. ASSUME NEW c \in Callers, NEW o \in Bad, NEW k \in Keys, ResumeReplay(c, o, k)
      PROVE  CallerStep
  BY <1>7 DEF ResumeReplay
<1>8. ASSUME NEW c \in Callers, ClaimReplay(c) PROVE CallerStep
  <2>1. CASE Claimable(rec[c])
    <3>1. cpc' = [cpc EXCEPT ![c] = "prepare"] /\ UNCHANGED <<rec, meta>>
      BY <1>8, <2>1 DEF ClaimReplay
    <3>2. rec[c] \in Bad
      BY <1>8 DEF ClaimReplay
    <3> QED
      BY <3>1, <3>2
  <2>2. CASE ~Claimable(rec[c])
    <3>1. Returns(c)
      BY <1>8, <2>2 DEF ClaimReplay
    <3> QED
      BY <3>1 DEF Returns
  <2> QED
    BY <2>1, <2>2
<1>9. ASSUME NEW c \in Callers, PrepareReplay(c) PROVE CallerStep
  BY <1>9 DEF PrepareReplay
<1>10. ASSUME NEW c \in Callers, WriteReplay(c) PROVE CallerStep
  BY <1>10 DEF WriteReplay
<1>11. ASSUME NEW c \in Callers, ReadMetadata(c) PROVE CallerStep
  BY <1>11 DEF ReadMetadata
<1>12. ASSUME NEW c \in Callers, CommitReplay(c) PROVE CallerStep
  BY <1>12 DEF CommitReplay, Holds, Returns
<1>13. ASSUME NEW c \in Callers, FailReplay(c) PROVE CallerStep
  BY <1>13 DEF FailReplay
<1>14. ASSUME NEW c \in Callers, AbortReplay(c) PROVE CallerStep
  BY <1>14 DEF AbortReplay, Returns
<1>15. ASSUME NEW c \in Callers, RecordFailure(c) PROVE CallerStep
  BY <1>15 DEF RecordFailure, Holds, Returns
<1>16. ASSUME NEW c \in Callers, CallCrash(c) PROVE CallerStep
  BY <1>16 DEF CallCrash, Returns
<1>17. ASSUME NEW o \in Bad, LeaseExpires(o) PROVE CallerStep
  BY <1>17 DEF LeaseExpires
<1>18. ASSUME NEW o \in Bad, DiscardDeadLetter(o) PROVE CallerStep
  BY <1>18 DEF DiscardDeadLetter, Discardable
<1>19. ASSUME NEW k \in Requests, WatchdogAbort(k) PROVE CallerStep
  BY <1>19 DEF WatchdogAbort
<1> QED
  BY <1>1, <1>2, <1>3, <1>4, <1>5, <1>6, <1>7, <1>8, <1>9, <1>10, <1>11, <1>12, <1>13, <1>14, <1>15,
     <1>16, <1>17, <1>18, <1>19 DEF Next, ArchiveStep, ReplayStep

-----------------------------------------------------------------------------
(* The parts of the invariant *)

\* A record is resolved by the commit of its replay and by nothing else, and stays
\* so (_finalize_replay).
LEMMA ResolvedKept == ReplayInv /\ Next => ResolvedIffReplayed'
<1> SUFFICES ASSUME ReplayInv, Next PROVE ResolvedIffReplayed'
  OBVIOUS
<1> USE ReplayConstants DEF ReplayInv, ResolvedIffReplayed, CallsAreSound, TypeOK, letterVars,
        archiveVars, callVars, boundVars
<1>1. CASE Produce
  BY <1>1 DEF Produce
<1>2. ASSUME NEW a \in Archivers, ArchiveRead(a) PROVE ResolvedIffReplayed'
  BY <1>2 DEF ArchiveRead
<1>3. ASSUME NEW a \in Archivers, ArchiveReject(a) PROVE ResolvedIffReplayed'
  BY <1>3 DEF ArchiveReject, InsertDeadLetters, ArchiveReturns
<1>4. ASSUME NEW a \in Archivers, ArchiveCommit(a) PROVE ResolvedIffReplayed'
  <2>1. log' = Append(log, BatchVersion(a)) /\ BatchVersion(a) \in Version
    BY <1>4, VersionsTyped DEF ArchiveCommit, BatchVersion, ArchiversReadOn
  <2>2. BatchVersion(a).replayOf = 0 /\ 0 \notin Bad
    BY DEF BatchVersion, Offsets
  <2>3. \A o \in Bad : status'[o] = "RESOLVED" <=> status[o] = "RESOLVED"
    BY <1>4 DEF ArchiveCommit, InsertDeadLetters
  <2>4. ASSUME NEW o \in Bad
        PROVE  (\E n \in DOMAIN log' : log'[n].replayOf = o)
               <=> (\E n \in DOMAIN log : log[n].replayOf = o)
    <3>1. /\ DOMAIN log' = DOMAIN log \cup {Len(log) + 1}
          /\ \A n \in DOMAIN log : log'[n] = log[n]
          /\ log'[Len(log) + 1] = BatchVersion(a)
      BY <2>1, Appended
    <3>2. ASSUME NEW n \in DOMAIN log, log[n].replayOf = o
          PROVE  \E m \in DOMAIN log' : log'[m].replayOf = o
      BY <3>1, <3>2
    <3>3. ASSUME NEW n \in DOMAIN log', log'[n].replayOf = o
          PROVE  \E m \in DOMAIN log : log[m].replayOf = o
      BY <2>2, <3>1, <3>3
    <3> QED
      BY <3>2, <3>3
  <2> QED
    BY <2>3, <2>4
<1>5. ASSUME NEW a \in Archivers, ArchiveFail(a) PROVE ResolvedIffReplayed'
  <2>1. log' = log /\ (InsertDeadLetters(a) \/ status' = status)
    BY <1>5 DEF ArchiveFail
  <2>2. \A o \in Bad : status'[o] = "RESOLVED" <=> status[o] = "RESOLVED"
    BY <2>1 DEF InsertDeadLetters
  <2> QED
    BY <2>1, <2>2
<1>6. ASSUME NEW c \in Callers, NEW o \in Bad, NEW k \in Keys, RequestReplay(c, o, k)
      PROVE  ResolvedIffReplayed'
  BY <1>6 DEF RequestReplay, Requestable
<1>7. ASSUME NEW c \in Callers, NEW o \in Bad, NEW k \in Keys, ResumeReplay(c, o, k)
      PROVE  ResolvedIffReplayed'
  BY <1>7 DEF ResumeReplay
<1>8. ASSUME NEW c \in Callers, ClaimReplay(c) PROVE ResolvedIffReplayed'
  BY <1>8 DEF ClaimReplay, Claimable, Returns
<1>9. ASSUME NEW c \in Callers, PrepareReplay(c) PROVE ResolvedIffReplayed'
  BY <1>9 DEF PrepareReplay
<1>10. ASSUME NEW c \in Callers, WriteReplay(c) PROVE ResolvedIffReplayed'
  BY <1>10 DEF WriteReplay
<1>11. ASSUME NEW c \in Callers, ReadMetadata(c) PROVE ResolvedIffReplayed'
  BY <1>11 DEF ReadMetadata
<1>12. ASSUME NEW c \in Callers, CommitReplay(c) PROVE ResolvedIffReplayed'
  <2>1. log' = Append(log, ReplayVersion(c)) /\ ReplayVersion(c) \in Version /\ rec[c] \in Bad
    BY <1>12, VersionsTyped DEF CommitReplay, ReplayVersion
  <2>2. ReplayVersion(c).replayOf = rec[c]
    BY DEF ReplayVersion
  <2>3. \A o \in Bad : status'[o] = "RESOLVED" <=> status[o] = "RESOLVED" \/ o = rec[c]
    BY <1>12, <2>1 DEF CommitReplay
  <2>4. ASSUME NEW o \in Bad
        PROVE  (\E n \in DOMAIN log' : log'[n].replayOf = o)
               <=> (\E n \in DOMAIN log : log[n].replayOf = o) \/ o = rec[c]
    <3>1. /\ DOMAIN log' = DOMAIN log \cup {Len(log) + 1}
          /\ \A n \in DOMAIN log : log'[n] = log[n]
          /\ log'[Len(log) + 1] = ReplayVersion(c)
      BY <2>1, Appended
    <3>2. ASSUME NEW n \in DOMAIN log, log[n].replayOf = o
          PROVE  \E m \in DOMAIN log' : log'[m].replayOf = o
      BY <3>1, <3>2
    <3> QED
      BY <2>1, <2>2, <3>1, <3>2, Zenon
  <2> QED
    BY <2>3, <2>4
<1>13. ASSUME NEW c \in Callers, FailReplay(c) PROVE ResolvedIffReplayed'
  BY <1>13 DEF FailReplay
<1>14. ASSUME NEW c \in Callers, AbortReplay(c) PROVE ResolvedIffReplayed'
  BY <1>14 DEF AbortReplay, Returns
<1>15. ASSUME NEW c \in Callers, RecordFailure(c) PROVE ResolvedIffReplayed'
  BY <1>15 DEF RecordFailure, Holds, Returns
<1>16. ASSUME NEW c \in Callers, CallCrash(c) PROVE ResolvedIffReplayed'
  BY <1>16 DEF CallCrash, Returns
<1>17. ASSUME NEW o \in Bad, LeaseExpires(o) PROVE ResolvedIffReplayed'
  BY <1>17 DEF LeaseExpires
<1>18. ASSUME NEW o \in Bad, DiscardDeadLetter(o) PROVE ResolvedIffReplayed'
  BY <1>18 DEF DiscardDeadLetter, Discardable
<1>19. ASSUME NEW k \in Requests, WatchdogAbort(k) PROVE ResolvedIffReplayed'
  BY <1>19 DEF WatchdogAbort
<1> QED
  BY <1>1, <1>2, <1>3, <1>4, <1>5, <1>6, <1>7, <1>8, <1>9, <1>10, <1>11, <1>12, <1>13, <1>14, <1>15,
     <1>16, <1>17, <1>18, <1>19 DEF Next, ArchiveStep, ReplayStep

\* The cursor that is covered stays so: versions and dead letters only come.
LEMMA CoveredStays ==
  ASSUME TypeOK, QuarantineStep, LogGrows, NEW k, Covered(k) PROVE Covered(k)'
BY DEF Covered, LogGrows, QuarantineStep

\* A step keeps the versions that the dataset has.
LEMMA GrowsOnly == ReplayInv /\ Next => LogGrows /\ log' \in Seq(Version)
<1> SUFFICES ASSUME ReplayInv, Next PROVE LogGrows /\ log' \in Seq(Version)
  OBVIOUS
<1>1. CASE log' = log
  BY <1>1 DEF LogGrows, ReplayInv, TypeOK
<1>2. ASSUME NEW v \in Version, log' = Append(log, v) PROVE LogGrows /\ log' \in Seq(Version)
  BY <1>2, Appended DEF LogGrows, ReplayInv
<1>3. ASSUME NEW a \in Archivers, ArchiveCommit(a) PROVE BatchVersion(a) \in Version
  BY <1>3, VersionsTyped DEF ReplayInv, ArchiversReadOn, ArchiveCommit
<1>4. ASSUME NEW c \in Callers, CommitReplay(c) PROVE ReplayVersion(c) \in Version
  BY <1>4, VersionsTyped DEF ReplayInv, CallsAreSound, CommitReplay
<1> QED
  BY <1>1, <1>2, <1>3, <1>4, LogSteps DEF LogStep

\* Whoever commits behind an archiver's back makes it fall behind: the check
\* under the dataset lock compares the number of versions.
LEMMA ReadOnKept == ReplayInv /\ Next => ArchiversReadOn'
<1> SUFFICES ASSUME ReplayInv, Next, NEW a \in Archivers
             PROVE  /\ aSeen'[a] <= Len(log')
                    /\ apc'[a] = "commit" =>
                         aFrom'[a] > 0 /\ (Len(log') = aSeen'[a] => aFrom'[a] = Cursor' + 1)
  BY DEF ArchiversReadOn, CursorCurrent
<1>1. Len(log) \in Nat /\ Cursor \in 0..MaxOffset /\ aSeen[a] \in Nat
  BY CursorIsOffset, LenProperties DEF ReplayInv, TypeOK
<1>2. /\ aSeen[a] <= Len(log)
      /\ apc[a] = "commit" => aFrom[a] > 0 /\ (Len(log) = aSeen[a] => aFrom[a] = Cursor + 1)
  BY DEF ReplayInv, ArchiversReadOn, CursorCurrent
<1>3. \/ log' = log /\ Cursor' = Cursor
      \/ log' # log /\ Len(log') = Len(log) + 1
  <2>1. CASE log' = log
    BY <2>1 DEF Cursor
  <2>2. CASE log' # log
    BY <2>2, GrowsOnly DEF LogGrows
  <2> QED
    BY <2>1, <2>2
<1>4. \/ apc'[a] = apc[a] /\ aSeen'[a] = aSeen[a] /\ aFrom'[a] = aFrom[a]
      \/ apc'[a] = "idle" /\ aSeen'[a] = 0
      \/ log' = log /\ aSeen'[a] = Len(log) /\ aFrom'[a] = Cursor + 1
  BY ArchiverSteps DEF ReplayInv, ArchiverStep
<1> QED
  BY <1>1, <1>2, <1>3, <1>4

\* A call that copies the cursor copies one that is covered, and it stays so.
LEMMA SoundKept == ReplayInv /\ NothingSkipped /\ Next => CallsAreSound'
<1> SUFFICES ASSUME ReplayInv, NothingSkipped, Next, NEW c \in Callers
             PROVE  /\ cpc'[c] # "idle" => rec'[c] \in Bad
                    /\ cpc'[c] = "commit" => Covered(meta[c])'
  BY DEF CallsAreSound, Covered
<1>1. /\ cpc'[c] # "idle" => rec'[c] \in Bad
      /\ cpc'[c] = "commit" => meta'[c] = Cursor \/ (cpc[c] = "commit" /\ meta'[c] = meta[c])
  BY CallerSteps DEF ReplayInv, CallerStep
<1>2. QuarantineStep /\ LogGrows
  BY QuarantineSteps, GrowsOnly DEF ReplayInv
<1>3. Covered(Cursor) /\ (cpc[c] = "commit" => Covered(meta[c]))
  BY DEF ReplayInv, NothingSkipped, CallsAreSound
<1>4. ASSUME cpc'[c] = "commit" PROVE Covered(meta[c])'
  <2>1. PICK k : k = meta'[c]
    OBVIOUS
  <2>2. Covered(k)
    BY <1>1, <1>3, <1>4, <2>1
  <2>3. Covered(k)'
    BY <1>2, <2>2, CoveredStays DEF ReplayInv
  <2> QED
    BY <2>1, <2>3 DEF Covered
<1> QED
  BY <1>1, <1>4

\* A record is replayed into one version only: the call that commits finds it
\* not yet resolved (_dead_letter_replay_conditions).
LEMMA OnceKept == ReplayInv /\ Next => ReplayedOnce'
<1> SUFFICES ASSUME ReplayInv, Next PROVE ReplayedOnce'
  OBVIOUS
<1> USE ReplayConstants DEF ReplayInv
<1>1. CASE log' = log
  BY <1>1 DEF ReplayedOnce
<1>2. ASSUME NEW v \in Version, log' = Append(log, v),
             v.replayOf = 0 \/ \A n \in DOMAIN log : log[n].replayOf # v.replayOf
      PROVE  ReplayedOnce'
  BY <1>2, Appended DEF ReplayedOnce
<1>3. ASSUME NEW a \in Archivers, ArchiveCommit(a), log' = Append(log, BatchVersion(a))
      PROVE  ReplayedOnce'
  <2>1. BatchVersion(a) \in Version /\ BatchVersion(a).replayOf = 0
    BY <1>3, VersionsTyped DEF ArchiversReadOn, ArchiveCommit, BatchVersion
  <2> QED
    BY <1>2, <1>3, <2>1
<1>4. ASSUME NEW c \in Callers, CommitReplay(c), log' = Append(log, ReplayVersion(c))
      PROVE  ReplayedOnce'
  <2>1. rec[c] \in Bad /\ status[rec[c]] # "RESOLVED"
    BY <1>4 DEF CommitReplay, Holds, CallsAreSound
  <2>2. ReplayVersion(c) \in Version /\ ReplayVersion(c).replayOf = rec[c]
    BY <2>1, VersionsTyped DEF ReplayVersion
  <2>3. \A n \in DOMAIN log : log[n].replayOf # rec[c]
    BY <2>1 DEF ResolvedIffReplayed
  <2> QED
    BY <1>2, <1>4, <2>2, <2>3
<1> QED
  BY <1>1, <1>3, <1>4, LogSteps DEF LogStep

\* An archiver commits from the present cursor on, and writes the bad records of
\* its batch to the dead letters; a replay commits a cursor that is covered.
LEMMA CoveredKept == ReplayInv /\ NothingSkipped /\ Next => NothingSkipped'
<1> SUFFICES ASSUME ReplayInv, NothingSkipped, Next PROVE NothingSkipped'
  OBVIOUS
<1> USE DEF ReplayInv
<1>1. QuarantineStep /\ LogGrows /\ CallsAreSound'
  BY QuarantineSteps, GrowsOnly, SoundKept
<1>2. ASSUME NEW k, Covered(k) PROVE Covered(k)'
  BY <1>1, <1>2, CoveredStays
<1>3. CASE log' = log
  <2>1. PICK k : k = Cursor
    OBVIOUS
  <2>2. Cursor' = k /\ Covered(k)'
    BY <1>2, <1>3, <2>1 DEF Cursor, NothingSkipped
  <2> QED
    BY <2>2 DEF NothingSkipped, Covered
<1>4. ASSUME NEW a \in Archivers, ArchiveCommit(a), log' = Append(log, BatchVersion(a))
      PROVE  NothingSkipped'
  <2>1. BatchVersion(a) \in Version /\ aFrom[a] = Cursor + 1
    BY <1>4, VersionsTyped DEF ArchiversReadOn, ArchiveCommit
  <2>2. PICK k : k = Cursor
    OBVIOUS
  <2>3. Covered(k)' /\ k \in Nat
    BY <1>2, <2>2, CursorIsOffset DEF NothingSkipped
  <2>4. Cursor' = aUpto[a] /\ aUpto[a] \in Nat
    <3>1. Cursor' = BatchVersion(a).cursor
      BY <1>4, <2>1, Appended
    <3> QED
      BY <3>1, ReplayConstants DEF BatchVersion, TypeOK
  <2>5. ASSUME NEW o \in k + 1..aUpto[a], o \notin Bad
        PROVE  \E n \in DOMAIN log' : log'[n].replayOf = 0 /\ o \in log'[n].offsets
    <3>1. o \in BatchVersion(a).offsets /\ BatchVersion(a).replayOf = 0
      BY <2>1, <2>2, <2>5 DEF BatchVersion, Batch
    <3> QED
      BY <1>4, <2>1, <3>1, Appended
  <2>6. ASSUME NEW o \in k + 1..aUpto[a], o \in Bad PROVE status'[o] # "NONE"
    <3>1. o \in Batch(a)
      BY <2>1, <2>2 DEF Batch
    <3> QED
      BY <1>4, <2>6, <3>1 DEF ArchiveCommit, InsertDeadLetters
  <2>7. \A o \in 1..aUpto[a] : o \in 1..k \/ o \in k + 1..aUpto[a]
    BY <2>3, <2>4
  <2> QED
    BY <2>3, <2>4, <2>5, <2>6, <2>7 DEF NothingSkipped, Covered
<1>5. ASSUME NEW c \in Callers, CommitReplay(c), log' = Append(log, ReplayVersion(c))
      PROVE  NothingSkipped'
  <2>1. ReplayVersion(c) \in Version /\ Covered(meta[c])
    BY <1>5, VersionsTyped DEF CallsAreSound, CommitReplay
  <2>2. PICK k : k = meta[c]
    OBVIOUS
  <2>3. Cursor' = k
    BY <1>5, <2>1, <2>2, Appended DEF ReplayVersion
  <2>4. Covered(k)'
    BY <1>2, <2>1, <2>2
  <2> QED
    BY <2>3, <2>4 DEF NothingSkipped, Covered
<1> QED
  BY <1>3, <1>4, <1>5, LogSteps DEF LogStep

-----------------------------------------------------------------------------
(* Every step, and the theorems *)

\* A step that changes nothing keeps everything.
LEMMA StutterKeeps == ReplayInv /\ NothingSkipped /\ UNCHANGED vars => (ReplayInv /\ NothingSkipped)'
<1> SUFFICES ASSUME ReplayInv, NothingSkipped, UNCHANGED vars PROVE (ReplayInv /\ NothingSkipped)'
  OBVIOUS
<1> USE DEF vars, letterVars, archiveVars, callVars, boundVars, Covered, Cursor
<1>1. TypeOK'
  BY DEF ReplayInv, TypeOK
<1>2. ResolvedIffReplayed' /\ ReplayedOnce'
  BY DEF ReplayInv, ResolvedIffReplayed, ReplayedOnce
<1>3. ArchiversReadOn' /\ CallsAreSound' /\ NothingSkipped'
  BY DEF ReplayInv, ArchiversReadOn, CursorCurrent, CallsAreSound, NothingSkipped
<1> QED
  BY <1>1, <1>2, <1>3 DEF ReplayInv

\* Every step of an archiver, a call, the operator or the watchdog keeps the
\* invariant; the two halves lean on each other, for a replay copies a cursor
\* that an archiver wrote and an archiver reads on from one a replay copied.
LEMMA StepKeeps == ReplayInv /\ NothingSkipped /\ [Next]_vars => (ReplayInv /\ NothingSkipped)'
<1>1. ReplayInv /\ Next => TypeOK'
  <2> SUFFICES ASSUME ReplayInv, Next PROVE TypeOK'
    OBVIOUS
  <2>1. log' \in Seq(Version) /\ LetterTypes' /\ CallTypes' /\ FlowTypes'
    BY GrowsOnly, LettersKept, CallsKept, FlowKept DEF ReplayInv
  <2> QED
    BY <2>1 DEF TypeOK, LetterTypes, CallTypes, FlowTypes
<1> QED
  BY <1>1, ResolvedKept, OnceKept, ReadOnKept, SoundKept, CoveredKept, StutterKeeps DEF ReplayInv

\* For any number of archivers, callers, keys, requests, crashes and takeovers,
\* and any stream: a dead letter is RESOLVED exactly when a version carries its
\* replay, and no record is replayed twice (_finalize_replay).
THEOREM LettersMatchVersions == Spec => []ReplayInv
<1>1. Spec => [](ReplayInv /\ NothingSkipped)
  BY InitHolds, StepKeeps, PTL DEF Spec
<1> QED
  BY <1>1, PTL

\* The archive loses no event: up to the cursor, each is in a version or in the
\* dead letters, though replays copy old cursors and archivers overtake each
\* other (finalize_stream_archive_commit, insert_stream_dead_letters).
THEOREM ArchiveSkipsNothing == Spec => []NothingSkipped
<1>1. Spec => [](ReplayInv /\ NothingSkipped)
  BY InitHolds, StepKeeps, PTL DEF Spec
<1> QED
  BY <1>1, PTL
===============================================================================
