------------------------ MODULE RuntimeCustodyProofs ------------------------
(* Theorems about RuntimeCustody, for every set of runs, hosts and inodes.   *)
EXTENDS RuntimeCustody, TLAPS

USE DEF ContendPc, WorkPc, ReleasePc, HoldPc, RestPc

-----------------------------------------------------------------------------
(* Type correctness.                                                         *)

\* Removing the private claim record keeps the types of what it changes.
LEMMA DropEntryType ==
  ASSUME TypeOK, NEW p \in Proc, DropEntry(p)
  PROVE  crec' \in [Proc -> SUBSET Proc] /\ old' \in [Proc -> BOOLEAN]
<1> USE ProcAssumption DEF TypeOK, DropEntry
<1>1. CASE lock = None
  BY <1>1
<1>2. CASE lock # None
  <2>1. crec' \in [Proc -> SUBSET Proc]
    BY <1>2
  <2>2. old' = [d \in Proc |-> IF d = lock THEN old[lock] /\ p \notin crec[lock]
                                          ELSE old[d]]
    BY <1>2
  <2>3. \A d \in Proc : (IF d = lock THEN old[lock] /\ p \notin crec[lock]
                                     ELSE old[d]) \in BOOLEAN
    BY Zenon
  <2> QED BY <2>1, <2>2, <2>3
<1> QED BY <1>1, <1>2

\* Every variable keeps its type under every fault the model knows: the record,
\* claim and identity fields only ever name runs and inodes.
THEOREM TypeCorrect == Spec => []TypeOK
<1> USE ProcAssumption, SetAssumption, AttemptsAssumption DEF TypeOK
<1>1. Init => TypeOK
  BY DEF Init, StageState, BlobState, Code, Success
<1>2. TypeOK /\ [Next]_vars => TypeOK'
  <2> SUFFICES ASSUME TypeOK, [Next]_vars PROVE TypeOK'
    OBVIOUS
  <2> USE DEF Goto, Die, FailApply, Touch, dirVars, seenVars,
              LockRecord, LockInode, LockMarker, StageState, BlobState, Code, Success
  <2>1. ASSUME NEW p \in Proc, Start(p) PROVE TypeOK'
    BY <2>1 DEF Start
  <2>2. ASSUME NEW p \in Proc, Step(p) PROVE TypeOK'
    <3>1. CASE MkdirOk(p)           BY <3>1 DEF MkdirOk
    <3>2. CASE MkdirFails(p)        BY <3>2 DEF MkdirFails
    <3>3. CASE PublishRecord(p)
      <4>1. CASE lock # None /\ Touch(lock) /\ record' = [record EXCEPT ![lock] = p]
        BY <3>3, <4>1 DEF PublishRecord
      <4>2. CASE UNCHANGED <<record, old>>
        BY <3>3, <4>2 DEF PublishRecord
      <4> QED BY <3>3, <4>1, <4>2 DEF PublishRecord
    <3>4. CASE CheckExists(p)       BY <3>4 DEF CheckExists
    <3>5. CASE ReadRecord(p)        BY <3>5 DEF ReadRecord
    <3>6. CASE ReadIdentity(p)      BY <3>6 DEF ReadIdentity
    <3>7. CASE Judge(p)             BY <3>7 DEF Judge
    <3>8. CASE WriteClaim(p)
      <4>1. CASE lock # None /\ Touch(lock) /\ crec' = [crec EXCEPT ![lock] = @ \cup {p}]
        BY <3>8, <4>1 DEF WriteClaim
      <4>2. CASE UNCHANGED <<crec, old>>
        BY <3>8, <4>2 DEF WriteClaim
      <4> QED BY <3>8, <4>1, <4>2 DEF WriteClaim
    <3>9. CASE Claim(p)             BY <3>9 DEF Claim, Claimable
    <3>10. CASE ClaimFails(p)       BY <3>10 DEF ClaimFails
    <3>11. CASE ClaimLost(p)        BY <3>11, DropEntryType DEF ClaimLost
    <3>12. CASE DropClaimRecord(p)  BY <3>12, DropEntryType DEF DropClaimRecord
    <3>13. CASE RereadRecord(p)     BY <3>13 DEF RereadRecord
    <3>14. CASE CompareIdentity(p)  BY <3>14 DEF CompareIdentity
    <3>15. CASE RemoveMarker(p)
      <4>1. CASE LockMarker = p /\ Touch(lock) /\ marker' = [marker EXCEPT ![lock] = None]
        BY <3>15, <4>1 DEF RemoveMarker
      <4>2. CASE UNCHANGED <<marker, old>>
        BY <3>15, <4>2 DEF RemoveMarker
      <4> QED BY <3>15, <4>1, <4>2 DEF RemoveMarker
    <3>16. CASE AbandonClaim(p)     BY <3>16 DEF AbandonClaim
    <3>17. CASE Rename(p)           BY <3>17 DEF Rename
    <3>18. CASE SweepStaging(p)     BY <3>18 DEF SweepStaging
    <3>19. CASE ScrapClaimed(p)     BY <3>19 DEF ScrapClaimed
    <3>20. CASE Recheck(p)          BY <3>20 DEF Recheck
    <3>21. CASE MakeStage(p)        BY <3>21 DEF MakeStage
    <3>22. CASE Download(p)         BY <3>22 DEF Download
    <3>23. CASE Verify(p)           BY <3>23 DEF Verify
    <3>24. CASE ClearDestination(p) BY <3>24 DEF ClearDestination
    <3>25. CASE MoveStaged(p)       BY <3>25 DEF MoveStaged
    <3>26. CASE ReverifyBlob(p)     BY <3>26 DEF ReverifyBlob
    <3>27. CASE UnlinkBlob(p)       BY <3>27 DEF UnlinkBlob
    <3>28. CASE TidyStage(p)        BY <3>28 DEF TidyStage
    <3>29. CASE ClearLock(p)        BY ZenonT(60), <3>29 DEF ClearLock
    <3>30. CASE RemoveLock(p)       BY <3>30 DEF RemoveLock
    <3> QED BY <2>2, <3>1, <3>2, <3>3, <3>4, <3>5, <3>6, <3>7, <3>8, <3>9, <3>10,
               <3>11, <3>12, <3>13, <3>14, <3>15, <3>16, <3>17, <3>18, <3>19, <3>20,
               <3>21, <3>22, <3>23, <3>24, <3>25, <3>26, <3>27, <3>28, <3>29, <3>30
            DEF Step
  <2>3. ASSUME NEW p \in Proc, Crash(p) PROVE TypeOK'
    BY <2>3 DEF Crash
  <2>4. ASSUME NEW p \in Proc, Age(p) PROVE TypeOK'
    BY <2>4 DEF Age
  <2>5. CASE Tamper
    BY <2>5 DEF Tamper
  <2>6. CASE HumanRemovesMarker
    BY <2>6 DEF HumanRemovesMarker
  <2>7. CASE UNCHANGED vars
    BY <2>7 DEF vars
  <2> QED BY <2>1, <2>2, <2>3, <2>4, <2>5, <2>6, <2>7 DEF Next, Environment
<1> QED BY <1>1, <1>2, PTL DEF Spec

-----------------------------------------------------------------------------
(* The lock.                                                                 *)

\* Points of the contention at which nothing is remembered about the lock.
FreePc == {"mkdir", "exists", "read", "lost", "unmark", "unclaim", "sweep", "scrap"}

\* A run that goes on working, goes back to a point where it remembers nothing,
\* or ends, without touching lock, record or marker, endangers nobody.
LEMMA QuietMove ==
  ASSUME TypeOK, LockInv, NEW p \in Proc, NEW l \in HoldPc \cup ContendPc \cup RestPc,
         pc' = [pc EXCEPT ![p] = l],
         \/ pc[p] \in HoldPc /\ l \in HoldPc
         \/ pc[p] \in ContendPc /\ l \in FreePc
         \/ pc[p] \notin RestPc /\ l \in {"done", "crashed"},
         UNCHANGED <<lock, ino, record, marker, rec, erec, eino>>,
         \A d \in Proc : old'[d] => old[d]
  PROVE  LockInv'
<1> USE ProcAssumption DEF TypeOK, LockInv, FreePc, Active, Holding
<1>1. LockOwned'
  BY DEF LockOwned
<1>2. RenameConfirmed'
  BY DEF RenameConfirmed
<1>3. DirectoryInv'
  BY DEF DirectoryInv
<1>4. GraceInv'
  BY DEF GraceInv
<1>5. ForeignInv'
  BY DEF ForeignInv
<1>6. ClaimInv'
  BY DEF ClaimInv, Target, Ended
<1> QED BY <1>1, <1>2, <1>3, <1>4, <1>5, <1>6

\* A run that starts owns nothing yet; a foreign run starts in quiet only.
LEMMA StartSafe ==
  ASSUME TypeOK, LockInv, NEW p \in Proc, Start(p)
  PROVE  LockInv'
<1> USE ProcAssumption DEF TypeOK, LockInv, Active, Holding, Goto, Die, FailApply, Touch,
            dirVars, seenVars, Start, ForeignQuiet
<1>1. LockOwned'
  BY DEF LockOwned
<1>2. RenameConfirmed'
  BY DEF RenameConfirmed, DirectoryInv
<1>3. DirectoryInv'
  BY DEF DirectoryInv
<1>4. GraceInv'
  BY DEF GraceInv, DirectoryInv
<1>5. ForeignInv'
  BY DEF ForeignInv
<1>6. ClaimInv'
  BY DEF ClaimInv, Target, Ended
<1> QED BY <1>1, <1>2, <1>3, <1>4, <1>5, <1>6

\* A new directory is fresh, and nobody has taken its inode down.
LEMMA MkdirOkSafe ==
  ASSUME TypeOK, LockInv, NEW p \in Proc, MkdirOk(p), Steady
  PROVE  LockInv'
<1> USE ProcAssumption DEF TypeOK, LockInv, Active, Holding, Goto, Die, FailApply, Touch,
            dirVars, seenVars, MkdirOk, Steady, FreeInode
<1>1. LockOwned'
  BY DEF LockOwned
<1>2. RenameConfirmed'
  BY DEF RenameConfirmed
<1>3. DirectoryInv'
  BY DEF DirectoryInv
<1>4. GraceInv'
  BY DEF GraceInv
<1>5. ForeignInv'
  BY DEF ForeignInv
<1>6. ClaimInv'
  BY DEF ClaimInv, Target, Ended
<1> QED BY <1>1, <1>2, <1>3, <1>4, <1>5, <1>6

\* The record lands in the writer's own directory.
LEMMA PublishRecordSafe ==
  ASSUME TypeOK, LockInv, NEW p \in Proc, PublishRecord(p)
  PROVE  LockInv'
<1> USE ProcAssumption DEF TypeOK, LockInv, Active, Holding, Goto, Die, FailApply, Touch,
            dirVars, seenVars, PublishRecord
<1>1. LockOwned'
  BY DEF LockOwned
<1>2. RenameConfirmed'
  BY DEF RenameConfirmed
<1>3. DirectoryInv'
  BY DEF DirectoryInv, LockOwned
<1>4. GraceInv'
  BY DEF GraceInv
<1>5. ForeignInv'
  BY DEF ForeignInv
<1>6. ClaimInv'
  BY DEF ClaimInv, Target, Ended
<1> QED BY <1>1, <1>2, <1>3, <1>4, <1>5, <1>6

\* A lock found without a record within the grace is not old.
LEMMA ReadRecordSafe ==
  ASSUME TypeOK, LockInv, NEW p \in Proc, ReadRecord(p)
  PROVE  LockInv'
<1> USE ProcAssumption DEF TypeOK, LockInv, Active, Holding, Goto, Die, FailApply, Touch,
            dirVars, seenVars, ReadRecord, LockRecord
<1>1. LockOwned'
  BY DEF LockOwned
<1>2. RenameConfirmed'
  BY DEF RenameConfirmed
<1>3. DirectoryInv'
  BY DEF DirectoryInv
<1>4. GraceInv'
  BY DEF GraceInv
<1>5. ForeignInv'
  BY DEF ForeignInv
<1>6. ClaimInv'
  BY DEF ClaimInv, Target, Ended
<1> QED BY <1>1, <1>2, <1>3, <1>4, <1>5, <1>6

\* The identity joins the record and the inode.
LEMMA ReadIdentitySafe ==
  ASSUME TypeOK, LockInv, NEW p \in Proc, ReadIdentity(p)
  PROVE  LockInv'
<1> USE ProcAssumption DEF TypeOK, LockInv, Active, Holding, Goto, Die, FailApply, Touch,
            dirVars, seenVars, ReadIdentity, LockInode
<1>1. LockOwned'
  BY DEF LockOwned
<1>2. RenameConfirmed'
  BY DEF RenameConfirmed
<1>3. DirectoryInv'
  BY DEF DirectoryInv
<1>4. GraceInv'
  BY DEF GraceInv
<1>5. ForeignInv'
  BY DEF ForeignInv
<1>6. ClaimInv'
  BY DEF ClaimInv, Target, Ended
<1> QED BY <1>1, <1>2, <1>3, <1>4, <1>5, <1>6

\* What is judged dead has ended.
LEMMA JudgeSafe ==
  ASSUME TypeOK, LockInv, NEW p \in Proc, Judge(p)
  PROVE  LockInv'
<1> USE ProcAssumption DEF TypeOK, LockInv, Active, Holding, Goto, Die, FailApply, Touch,
            dirVars, seenVars, Judge, JudgedDead, LockIsOld
<1>1. LockOwned'
  BY DEF LockOwned
<1>2. RenameConfirmed'
  BY DEF RenameConfirmed
<1>3. DirectoryInv'
  BY DEF DirectoryInv
<1>4. GraceInv'
  BY DEF GraceInv
<1>5. ForeignInv'
  BY DEF ForeignInv
<1>6. ClaimInv'
  <2>1. CASE JudgedDead(p) /\ rec[p] = None
    BY <2>1 DEF ClaimInv, GraceInv, DirectoryInv, Target, Ended
  <2>2. CASE JudgedDead(p) /\ rec[p] # None
    <3>1. ~Active(rec[p])
      BY <2>2 DEF ForeignInv
    <3>2. Ended(rec[p])
      BY <2>2, <3>1 DEF DirectoryInv, Ended
    <3> QED BY <2>2, <3>2 DEF ClaimInv, GraceInv, Target, Ended
  <2>3. CASE ~JudgedDead(p)
    BY <2>3 DEF ClaimInv, Target, Ended
  <2> QED BY <2>1, <2>2, <2>3
<1> QED BY <1>1, <1>2, <1>3, <1>4, <1>5, <1>6

\* Writing the claim record only rejuvenates the directory.
LEMMA WriteClaimSafe ==
  ASSUME TypeOK, LockInv, NEW p \in Proc, WriteClaim(p)
  PROVE  LockInv'
<1> USE ProcAssumption DEF TypeOK, LockInv, Active, Holding, Goto, Die, FailApply, Touch,
            dirVars, seenVars, WriteClaim
<1>1. LockOwned'
  BY DEF LockOwned
<1>2. RenameConfirmed'
  BY DEF RenameConfirmed
<1>3. DirectoryInv'
  BY DEF DirectoryInv
<1>4. GraceInv'
  BY DEF GraceInv
<1>5. ForeignInv'
  BY DEF ForeignInv
<1>6. ClaimInv'
  BY DEF ClaimInv, Target, Ended
<1> QED BY <1>1, <1>2, <1>3, <1>4, <1>5, <1>6

\* The claim is on whatever directory is at the path.
LEMMA ClaimSafe ==
  ASSUME TypeOK, LockInv, NEW p \in Proc, Claim(p)
  PROVE  LockInv'
<1> USE ProcAssumption DEF TypeOK, LockInv, Active, Holding, Goto, Die, FailApply, Touch,
            dirVars, seenVars, Claim, Claimable
<1>1. LockOwned'
  BY DEF LockOwned
<1>2. RenameConfirmed'
  BY DEF RenameConfirmed
<1>3. DirectoryInv'
  BY DEF DirectoryInv
<1>4. GraceInv'
  BY DEF GraceInv
<1>5. ForeignInv'
  BY DEF ForeignInv
<1>6. ClaimInv'
  BY DEF ClaimInv, Target, Ended
<1> QED BY <1>1, <1>2, <1>3, <1>4, <1>5, <1>6

\* A record read under the claim belongs to the claimed directory.
LEMMA RereadRecordSafe ==
  ASSUME TypeOK, LockInv, NEW p \in Proc, RereadRecord(p)
  PROVE  LockInv'
<1> USE ProcAssumption DEF TypeOK, LockInv, Active, Holding, Goto, Die, FailApply, Touch,
            dirVars, seenVars, RereadRecord, LockRecord
<1>1. LockOwned'
  BY DEF LockOwned
<1>2. RenameConfirmed'
  BY DEF RenameConfirmed
<1>3. DirectoryInv'
  BY DEF DirectoryInv
<1>4. GraceInv'
  BY DEF GraceInv
<1>5. ForeignInv'
  BY DEF ForeignInv
<1>6. ClaimInv'
  BY DEF ClaimInv, Target, Ended, DirectoryInv
<1> QED BY <1>1, <1>2, <1>3, <1>4, <1>5, <1>6

\* An identity that still holds is that of the directory judged dead.
LEMMA CompareIdentitySafe ==
  ASSUME TypeOK, LockInv, NEW p \in Proc, CompareIdentity(p)
  PROVE  LockInv'
<1> USE ProcAssumption DEF TypeOK, LockInv, Active, Holding, Goto, Die, FailApply, Touch,
            dirVars, seenVars, CompareIdentity, IdentityHolds, LockInode
<1>1. LockOwned'
  BY DEF LockOwned
<1>2. RenameConfirmed'
  BY DEF RenameConfirmed, ClaimInv, Target, Ended, DirectoryInv
<1>3. DirectoryInv'
  BY DEF DirectoryInv
<1>4. GraceInv'
  BY DEF GraceInv
<1>5. ForeignInv'
  BY DEF ForeignInv
<1>6. ClaimInv'
  BY DEF ClaimInv, Target, Ended
<1> QED BY <1>1, <1>2, <1>3, <1>4, <1>5, <1>6

\* Only the own claim is removed.
LEMMA RemoveMarkerSafe ==
  ASSUME TypeOK, LockInv, NEW p \in Proc, RemoveMarker(p)
  PROVE  LockInv'
<1> USE ProcAssumption DEF TypeOK, LockInv, Active, Holding, Goto, Die, FailApply, Touch,
            dirVars, seenVars, RemoveMarker, LockMarker
<1>1. LockOwned'
  BY DEF LockOwned
<1>2. RenameConfirmed'
  BY DEF RenameConfirmed
<1>3. DirectoryInv'
  BY DEF DirectoryInv
<1>4. GraceInv'
  BY DEF GraceInv
<1>5. ForeignInv'
  BY DEF ForeignInv
<1>6. ClaimInv'
  BY DEF ClaimInv, Target, Ended
<1> QED BY <1>1, <1>2, <1>3, <1>4, <1>5, <1>6

\* Only the own claim is given up.
LEMMA AbandonClaimSafe ==
  ASSUME TypeOK, LockInv, NEW p \in Proc, AbandonClaim(p)
  PROVE  LockInv'
<1> USE ProcAssumption DEF TypeOK, LockInv, Active, Holding, Goto, Die, FailApply, Touch,
            dirVars, seenVars, AbandonClaim, LockMarker
<1>1. LockOwned'
  BY DEF LockOwned
<1>2. RenameConfirmed'
  BY DEF RenameConfirmed
<1>3. DirectoryInv'
  BY DEF DirectoryInv
<1>4. GraceInv'
  BY DEF GraceInv
<1>5. ForeignInv'
  BY DEF ForeignInv
<1>6. ClaimInv'
  BY DEF ClaimInv, Target, Ended
<1> QED BY <1>1, <1>2, <1>3, <1>4, <1>5, <1>6

\* A rename takes away a dead writer's directory.
LEMMA RenameSafe ==
  ASSUME TypeOK, LockInv, NEW p \in Proc, Rename(p)
  PROVE  LockInv'
<1> USE ProcAssumption DEF TypeOK, LockInv, Active, Holding, Goto, Die, FailApply, Touch,
            dirVars, seenVars, Rename
<1>1. LockOwned'
  BY DEF LockOwned, RenameConfirmed
<1>2. RenameConfirmed'
  BY DEF RenameConfirmed
<1>3. DirectoryInv'
  BY DEF DirectoryInv
<1>4. GraceInv'
  BY DEF GraceInv
<1>5. ForeignInv'
  BY DEF ForeignInv
<1>6. ClaimInv'
  BY DEF ClaimInv, Target, Ended, RenameConfirmed
<1> QED BY <1>1, <1>2, <1>3, <1>4, <1>5, <1>6

\* The releaser empties its own directory, which nobody has judged dead.
LEMMA ClearLockSafe ==
  ASSUME TypeOK, LockInv, NEW p \in Proc, ClearLock(p)
  PROVE  LockInv'
<1> USE ProcAssumption DEF TypeOK, LockInv, Active, Holding, Goto, Die, FailApply, Touch,
            dirVars, seenVars, ClearLock
<1>1. LockOwned'
  BY DEF LockOwned
<1>2. RenameConfirmed'
  BY DEF RenameConfirmed, LockOwned
<1>3. DirectoryInv'
  BY DEF DirectoryInv
<1>4. GraceInv'
  BY DEF GraceInv
<1>5. ForeignInv'
  BY DEF ForeignInv
<1>6. ClaimInv'
  BY DEF ClaimInv, Target, Ended, LockOwned, DirectoryInv
<1> QED BY <1>1, <1>2, <1>3, <1>4, <1>5, <1>6

\* The releaser removes its own directory.
LEMMA RemoveLockSafe ==
  ASSUME TypeOK, LockInv, NEW p \in Proc, RemoveLock(p)
  PROVE  LockInv'
<1> USE ProcAssumption DEF TypeOK, LockInv, Active, Holding, Goto, Die, FailApply, Touch,
            dirVars, seenVars, RemoveLock, LockEmpty
<1>1. LockOwned'
  BY DEF LockOwned
<1>2. RenameConfirmed'
  BY DEF RenameConfirmed
<1>3. DirectoryInv'
  BY DEF DirectoryInv
<1>4. GraceInv'
  BY DEF GraceInv
<1>5. ForeignInv'
  BY DEF ForeignInv
<1>6. ClaimInv'
  BY DEF ClaimInv, Target, Ended
<1> QED BY <1>1, <1>2, <1>3, <1>4, <1>5, <1>6

\* The grace never passes for a writer that has yet to publish its record.
LEMMA AgeSafe ==
  ASSUME TypeOK, LockInv, NEW p \in Proc, Age(p), Steady
  PROVE  LockInv'
<1> USE ProcAssumption DEF TypeOK, LockInv, Active, Holding, Goto, Die, FailApply, Touch,
            dirVars, seenVars, Age, Steady, InRecordlessWindow
<1>1. LockOwned'
  BY DEF LockOwned
<1>2. RenameConfirmed'
  BY DEF RenameConfirmed
<1>3. DirectoryInv'
  BY DEF DirectoryInv
<1>4. GraceInv'
  BY DEF GraceInv
<1>5. ForeignInv'
  BY DEF ForeignInv
<1>6. ClaimInv'
  BY DEF ClaimInv, Target, Ended
<1> QED BY <1>1, <1>2, <1>3, <1>4, <1>5, <1>6

\* The approved removal of a claim happens while nobody holds one.
LEMMA HumanRemovesMarkerSafe ==
  ASSUME TypeOK, LockInv, HumanRemovesMarker
  PROVE  LockInv'
<1> USE ProcAssumption DEF TypeOK, LockInv, Active, Holding, Touch, seenVars,
            LockMarker, HumanRemovesMarker
<1>1. LockOwned'
  BY DEF LockOwned
<1>2. RenameConfirmed'
  BY DEF RenameConfirmed
<1>3. DirectoryInv'
  BY DEF DirectoryInv
<1>4. GraceInv'
  BY DEF GraceInv
<1>5. ForeignInv'
  BY DEF ForeignInv
<1>6. ClaimInv'
  BY DEF ClaimInv, Target, Ended
<1> QED BY <1>1, <1>2, <1>3, <1>4, <1>5, <1>6

\* A directory that lost an entry is younger, never older.
LEMMA DropEntryOld ==
  ASSUME TypeOK, NEW p \in Proc, DropEntry(p)
  PROVE  \A d \in Proc : old'[d] => old[d]
<1>1. CASE lock = None
  BY <1>1 DEF DropEntry
<1>2. CASE lock # None
  <2>1. old' = [old EXCEPT ![lock] = @ /\ p \notin crec[lock]]
    BY <1>2 DEF DropEntry
  <2> QED BY <2>1 DEF TypeOK
<1> QED BY <1>1, <1>2

\* Dropping the private record of a claim that was made.
LEMMA DropClaimRecordSafe ==
  ASSUME TypeOK, LockInv, NEW p \in Proc, DropClaimRecord(p)
  PROVE  LockInv'
<1>1. \A d \in Proc : old'[d] => old[d]
  BY DropEntryOld DEF DropClaimRecord, Goto, TypeOK
<1> USE <1>1, ProcAssumption DEF TypeOK, LockInv, Active, Holding, Goto, seenVars
<1> HIDE DEF DropEntry
<1>2. /\ pc[p] = "drop"
      /\ pc' = [pc EXCEPT ![p] = "reread"] \/ pc' = [pc EXCEPT ![p] = "unclaim"]
      /\ UNCHANGED <<lock, ino, record, marker, rec, erec, eino>>
  BY DEF DropClaimRecord
<1>3. LockOwned'
  BY <1>2 DEF LockOwned
<1>4. RenameConfirmed'
  BY <1>2 DEF RenameConfirmed
<1>5. DirectoryInv'
  BY <1>2 DEF DirectoryInv
<1>6. GraceInv'
  BY <1>2 DEF GraceInv
<1>7. ForeignInv'
  BY <1>2 DEF ForeignInv
<1>8. ClaimInv'
  BY SMTT(40), <1>2 DEF ClaimInv, Target, Ended
<1> QED BY <1>3, <1>4, <1>5, <1>6, <1>7, <1>8

\* The steps that change nothing but where the run is.
QuietStep(p) ==
  \/ MkdirFails(p) \/ CheckExists(p) \/ ClaimFails(p) \/ ClaimLost(p)
  \/ SweepStaging(p) \/ ScrapClaimed(p)
  \/ Recheck(p) \/ MakeStage(p) \/ Download(p) \/ Verify(p)
  \/ ClearDestination(p) \/ MoveStaged(p) \/ ReverifyBlob(p) \/ UnlinkBlob(p)
  \/ TidyStage(p) \/ Crash(p)

LEMMA QuietStepSafe ==
  ASSUME TypeOK, LockInv, NEW p \in Proc, QuietStep(p)
  PROVE  LockInv'
<1> DEFINE Quiet(l) ==
      /\ pc' = [pc EXCEPT ![p] = l]
      /\ \/ pc[p] \in HoldPc /\ l \in HoldPc
         \/ pc[p] \in ContendPc /\ l \in FreePc
         \/ pc[p] \notin RestPc /\ l \in {"done", "crashed"}
      /\ UNCHANGED <<lock, ino, record, marker, rec, erec, eino>>
      /\ \A d \in Proc : old'[d] => old[d]
<1> SUFFICES \E l \in HoldPc \cup ContendPc \cup RestPc : Quiet(l)
  BY QuietMove
<1> USE DEF TypeOK, Goto, Die, FailApply, dirVars, seenVars, FreePc
<1>1. CASE MkdirFails(p)
  BY <1>1 DEF MkdirFails
<1>2. CASE CheckExists(p)
  BY <1>2 DEF CheckExists
<1>3. CASE ClaimFails(p)
  BY <1>3 DEF ClaimFails
<1>4. CASE ClaimLost(p)
  BY <1>4, DropEntryOld DEF ClaimLost
<1>5. CASE SweepStaging(p)
  BY <1>5 DEF SweepStaging
<1>6. CASE ScrapClaimed(p)
  BY <1>6 DEF ScrapClaimed
<1>7. CASE Recheck(p)
  BY <1>7 DEF Recheck
<1>8. CASE MakeStage(p)
  BY <1>8 DEF MakeStage
<1>9. CASE Download(p)
  BY <1>9 DEF Download
<1>10. CASE Verify(p)
  BY <1>10 DEF Verify
<1>11. CASE ClearDestination(p)
  BY <1>11 DEF ClearDestination
<1>12. CASE MoveStaged(p)
  BY <1>12 DEF MoveStaged
<1>13. CASE ReverifyBlob(p)
  BY <1>13 DEF ReverifyBlob
<1>14. CASE UnlinkBlob(p)
  BY <1>14 DEF UnlinkBlob
<1>15. CASE TidyStage(p)
  BY <1>15 DEF TidyStage
<1>16. CASE Crash(p)
  BY <1>16 DEF Crash, Active
<1> QED BY Zenon, <1>1, <1>2, <1>3, <1>4, <1>5, <1>6, <1>7, <1>8, <1>9, <1>10, <1>11, <1>12,
           <1>13, <1>14, <1>15, <1>16 DEF QuietStep

LEMMA LockInvInit == Init => LockInv
<1> SUFFICES ASSUME Init PROVE LockInv
  OBVIOUS
<1> USE ProcAssumption, SetAssumption DEF Init, Active, Holding
<1>1. LockOwned
  BY DEF LockOwned
<1>2. RenameConfirmed
  BY DEF RenameConfirmed
<1>3. DirectoryInv
  BY DEF DirectoryInv
<1>4. GraceInv
  BY DEF GraceInv
<1>5. ForeignInv
  BY DEF ForeignInv
<1>6. ClaimInv
  BY DEF ClaimInv
<1> QED BY <1>1, <1>2, <1>3, <1>4, <1>5, <1>6 DEF LockInv

LEMMA LockInvNext ==
  ASSUME Steady, TypeOK, LockInv, [Next]_vars
  PROVE  LockInv'
<1>1. ASSUME NEW p \in Proc, Start(p) PROVE LockInv'
  BY <1>1, StartSafe
<1>2. ASSUME NEW p \in Proc, Step(p) PROVE LockInv'
  BY <1>2, MkdirOkSafe, PublishRecordSafe, ReadRecordSafe, ReadIdentitySafe, JudgeSafe,
     WriteClaimSafe, ClaimSafe, DropClaimRecordSafe, RereadRecordSafe,
     CompareIdentitySafe, RemoveMarkerSafe, AbandonClaimSafe, RenameSafe,
     ClearLockSafe, RemoveLockSafe, QuietStepSafe
  DEF Step, QuietStep
<1>3. ASSUME NEW p \in Proc, Crash(p) PROVE LockInv'
  BY <1>3, QuietStepSafe DEF QuietStep
<1>4. ASSUME NEW p \in Proc, Age(p) PROVE LockInv'
  BY <1>4, AgeSafe
<1>5. CASE HumanRemovesMarker
  BY <1>5, HumanRemovesMarkerSafe
<1>6. ASSUME UNCHANGED <<dirVars, seenVars, pc>> PROVE LockInv'
  BY <1>6 DEF LockInv, LockOwned, RenameConfirmed, DirectoryInv, GraceInv, ForeignInv,
              ClaimInv, Target, Ended, Active, Holding, dirVars, seenVars
<1>7. CASE Tamper
  BY <1>6, <1>7 DEF Tamper
<1>8. CASE UNCHANGED vars
  BY <1>6, <1>8 DEF vars, dirVars, seenVars
<1> QED BY <1>1, <1>2, <1>3, <1>4, <1>5, <1>7, <1>8 DEF Next, Environment

\* The inductive invariant holds on a file system that does not reuse inodes,
\* whatever else fails, and for any number of runs and hosts.
THEOREM Inductive == Steady /\ Spec => []LockInv
<1> SUFFICES ASSUME Steady PROVE Spec => []LockInv
  OBVIOUS
<1>1. Init => LockInv
  BY LockInvInit
<1>2. TypeOK /\ LockInv /\ [Next]_vars => LockInv'
  BY LockInvNext
<1> QED BY <1>1, <1>2, TypeCorrect, PTL DEF Spec

\* Two repairs never hold the lock at once: a run between its mkdir and the end
\* of its release finds its own directory at $lock_dir.
THEOREM MutualExclusion == Steady /\ Spec => []LockOwned
<1>1. LockInv => LockOwned
  BY DEF LockInv
<1> QED BY <1>1, Inductive, PTL

\* When reclaim_stale_lock reaches its mv, the directory at the path is a dead
\* run's, and claimed by the run that is about to move it.
THEOREM RenameIsConfirmed == Steady /\ Spec => []RenameConfirmed
<1>1. LockInv => RenameConfirmed
  BY DEF LockInv
<1> QED BY <1>1, Inductive, PTL

\* No step takes the lock of a run that is still under way, except the run's
\* own release.
THEOREM LiveWriterKept == Steady /\ Spec => OnlyOwnerReleases
<1> DEFINE Kept == \A d \in Proc : (lock = d /\ Active(d) /\ lock' # d) => pc[d] = "rmdir"
<1>1. TypeOK /\ LockInv /\ [Next]_vars => [Kept]_vars
  <2> SUFFICES ASSUME TypeOK, LockInv, Next, NEW d \in Proc,
                      lock = d, Active(d), lock' # d
               PROVE  pc[d] = "rmdir"
    OBVIOUS
  <2> USE ProcAssumption DEF dirVars, seenVars
  <2>1. ASSUME NEW p \in Proc, Rename(p) PROVE FALSE
    BY <2>1 DEF Rename, LockInv, RenameConfirmed
  <2>2. ASSUME NEW p \in Proc, RemoveLock(p) PROVE pc[d] = "rmdir"
    BY <2>2 DEF RemoveLock, LockInv, LockOwned, Holding
  <2>3. ASSUME NEW p \in Proc, MkdirOk(p) PROVE FALSE
    BY <2>3 DEF MkdirOk
  <2>4. ASSUME NEW p \in Proc, Start(p) PROVE FALSE
    BY <2>4 DEF Start
  <2>5. ASSUME NEW p \in Proc, Step(p), ~MkdirOk(p), ~Rename(p), ~RemoveLock(p)
        PROVE  FALSE
    BY <2>5 DEF Step, MkdirFails, PublishRecord, CheckExists, ReadRecord, ReadIdentity,
       Judge, WriteClaim, Claim, ClaimFails, ClaimLost, DropClaimRecord, RereadRecord,
       CompareIdentity, RemoveMarker, AbandonClaim, SweepStaging, ScrapClaimed, Recheck,
       MakeStage, Download, Verify, ClearDestination, MoveStaged, ReverifyBlob,
       UnlinkBlob, TidyStage, ClearLock
  <2>6. CASE Environment
    BY <2>6 DEF Environment, Crash, Age, Tamper, HumanRemovesMarker
  <2> QED BY <2>1, <2>2, <2>3, <2>4, <2>5, <2>6 DEF Next
<1> QED BY <1>1, TypeCorrect, Inductive, PTL DEF Spec, OnlyOwnerReleases

-----------------------------------------------------------------------------
(* The abstract store.                                                       *)

\* What is unlinked after publication is never a verified runtime.
UnlinkInv == \A p \in Proc : pc[p] = "unlink" => blob # "valid"

LEMMA UnlinkInvNext ==
  ASSUME TypeOK, LockInv, UnlinkInv, [Next]_vars
  PROVE  UnlinkInv'
<1> USE DEF TypeOK, UnlinkInv, Goto, Die, FailApply, Active
<1>1. ASSUME NEW p \in Proc, Start(p) PROVE UnlinkInv'
  BY <1>1 DEF Start
<1>2. ASSUME NEW p \in Proc, Step(p) PROVE UnlinkInv'
  <2>1. CASE MoveStaged(p)
    BY <2>1 DEF MoveStaged, LockInv, LockOwned, Holding
  <2>2. CASE ClearDestination(p)
    BY <2>2 DEF ClearDestination
  <2>3. CASE ReverifyBlob(p)
    BY <2>3 DEF ReverifyBlob
  <2>4. CASE UnlinkBlob(p)
    BY <2>4 DEF UnlinkBlob
  <2>5. CASE MkdirOk(p) \/ MkdirFails(p) \/ PublishRecord(p) \/ CheckExists(p)
             \/ ReadRecord(p) \/ ReadIdentity(p) \/ Judge(p)
    BY <2>5 DEF MkdirOk, MkdirFails, PublishRecord, CheckExists, ReadRecord, ReadIdentity,
                Judge
  <2>6. CASE WriteClaim(p) \/ Claim(p) \/ ClaimFails(p) \/ ClaimLost(p)
             \/ DropClaimRecord(p) \/ RereadRecord(p) \/ CompareIdentity(p)
    BY <2>6 DEF WriteClaim, Claim, ClaimFails, ClaimLost, DropClaimRecord, RereadRecord,
                CompareIdentity
  <2>7. CASE RemoveMarker(p) \/ AbandonClaim(p) \/ Rename(p) \/ SweepStaging(p)
             \/ ScrapClaimed(p) \/ Recheck(p) \/ MakeStage(p)
    BY <2>7 DEF RemoveMarker, AbandonClaim, Rename, SweepStaging, ScrapClaimed, Recheck,
                MakeStage
  <2>8. CASE Download(p) \/ Verify(p) \/ TidyStage(p) \/ ClearLock(p) \/ RemoveLock(p)
    BY <2>8 DEF Download, Verify, TidyStage, ClearLock, RemoveLock
  <2> QED BY <1>2, <2>1, <2>2, <2>3, <2>4, <2>5, <2>6, <2>7, <2>8 DEF Step
<1>3. CASE Environment
  BY <1>3 DEF Environment, Crash, Age, Tamper, HumanRemovesMarker
<1>4. CASE UNCHANGED vars
  BY <1>4 DEF vars
<1> QED BY <1>1, <1>2, <1>3, <1>4 DEF Next

\* With one holder at a time, Holder is that run.
LEMMA HolderIsHolding ==
  ASSUME LockOwned, NEW p \in Proc, Holding(p)
  PROVE  Holder = p
<1>1. \A q \in Proc : Holding(q) => q = p
  BY DEF LockOwned
<1> QED BY <1>1 DEF Holder

\* A step of a run that keeps what it has leaves the holder alone.
LEMMA SameHolders ==
  ASSUME \A p \in Proc : Holding(p)' <=> Holding(p)
  PROVE  Holder' = Holder
  BY DEF Holder

\* The run that creates the directory acquires the store.
LEMMA MkdirAcquires ==
  ASSUME TypeOK, LockInv, LockInv', NEW p \in Proc, MkdirOk(p)
  PROVE  Store!Acquire(p)
<1> USE ProcAssumption DEF TypeOK, MkdirOk, Goto
<1>1. \A q \in Proc : ~Holding(q)
  BY DEF LockInv, LockOwned
<1>2. Holder = None
  BY <1>1 DEF Holder
<1>3. \A q \in Proc : Holding(q)' <=> q = p
  BY <1>1 DEF Holding
<1>4. Holder' = p
  BY <1>3 DEF Holder
<1> QED BY <1>2, <1>4 DEF Store!Acquire

\* A holder that ends, or is killed, releases it.
LEMMA EndReleases ==
  ASSUME TypeOK, LockInv, NEW p \in Proc, Holding(p), UNCHANGED blob,
         pc' = [pc EXCEPT ![p] = "done"] \/ pc' = [pc EXCEPT ![p] = "crashed"]
  PROVE  Store!Release(p)
<1> USE ProcAssumption DEF TypeOK
<1>1. Holder = p
  BY HolderIsHolding DEF LockInv
<1>2. \A q \in Proc : Holding(q) => q = p
  BY DEF LockInv, LockOwned
<1>3. \A q \in Proc : ~Holding(q)'
  BY <1>2 DEF Holding
<1>4. Holder' = None
  BY <1>3 DEF Holder
<1> QED BY <1>1, <1>4 DEF Store!Release

\* A run that keeps the lock, or that never had it, changes no holder.
LEMMA KeepsHolders ==
  ASSUME TypeOK, NEW p \in Proc, NEW l,
         pc' = [pc EXCEPT ![p] = l], (l \in HoldPc) <=> Holding(p)
  PROVE  Holder' = Holder
<1>1. \A q \in Proc : Holding(q)' <=> Holding(q)
  BY DEF Holding, TypeOK
<1> QED BY <1>1, SameHolders

LEMMA StepSimulates ==
  ASSUME TypeOK, LockInv, LockInv', UnlinkInv, NEW p \in Proc, Step(p)
  PROVE  [Store!Next]_<<Holder, blob>>
<1> USE DEF Goto, Die, FailApply
<1>1. CASE MkdirOk(p)
  BY <1>1, MkdirAcquires DEF Store!Next
<1>2. CASE RemoveLock(p)
  <2>1. Holding(p) /\ UNCHANGED blob /\ pc' = [pc EXCEPT ![p] = "done"]
    BY <1>2 DEF RemoveLock, Holding
  <2> QED BY <2>1, EndReleases DEF Store!Next
<1>3. CASE ClearDestination(p)
  <2>1. Holding(p) /\ Holder' = Holder
    BY <1>3, KeepsHolders DEF ClearDestination, Holding
  <2>2. Holder = p
    BY <2>1, HolderIsHolding DEF LockInv
  <2>3. (blob' = blob) \/ (blob # "valid" /\ blob' = "missing")
    BY <1>3 DEF ClearDestination
  <2> QED BY <2>1, <2>2, <2>3 DEF Store!Next, Store!Discard
<1>4. CASE UnlinkBlob(p)
  <2>1. Holding(p) /\ Holder' = Holder
    BY <1>4, KeepsHolders DEF UnlinkBlob, Holding
  <2>2. Holder = p
    BY <2>1, HolderIsHolding DEF LockInv
  <2>3. (blob' = blob) \/ (blob # "valid" /\ blob' = "missing")
    BY <1>4 DEF UnlinkBlob, UnlinkInv
  <2> QED BY <2>1, <2>2, <2>3 DEF Store!Next, Store!Discard
<1>5. CASE MoveStaged(p)
  <2>1. Holding(p) /\ Holder' = Holder
    BY <1>5, KeepsHolders DEF MoveStaged, Holding
  <2>2. Holder = p
    BY <2>1, HolderIsHolding DEF LockInv
  <2>3. UNCHANGED blob \/ blob' = "valid"
    BY <1>5 DEF MoveStaged
  <2> QED BY <2>1, <2>2, <2>3 DEF Store!Next, Store!Publish
<1>6. CASE \/ PublishRecord(p) \/ Recheck(p) \/ MakeStage(p) \/ Download(p)
           \/ Verify(p) \/ ReverifyBlob(p) \/ TidyStage(p) \/ ClearLock(p)
  <2>1. Holding(p) /\ UNCHANGED blob /\ \E l \in HoldPc : pc' = [pc EXCEPT ![p] = l]
    BY <1>6 DEF PublishRecord, Recheck, MakeStage, Download, Verify, ReverifyBlob,
                TidyStage, ClearLock, Holding
  <2> QED BY <2>1, KeepsHolders
<1>7. CASE \/ MkdirFails(p) \/ CheckExists(p) \/ ReadRecord(p) \/ ReadIdentity(p)
           \/ Judge(p) \/ WriteClaim(p) \/ Claim(p) \/ ClaimFails(p) \/ ClaimLost(p)
  <2>1. ~Holding(p) /\ UNCHANGED blob
    BY <1>7 DEF MkdirFails, CheckExists, ReadRecord, ReadIdentity, Judge, WriteClaim,
                Claim, ClaimFails, ClaimLost, Holding
  <2>2. \E l \in ContendPc \cup {"done"} : pc' = [pc EXCEPT ![p] = l]
    BY <1>7 DEF MkdirFails, CheckExists, ReadRecord, ReadIdentity, Judge, WriteClaim,
                Claim, ClaimFails, ClaimLost
  <2> QED BY <2>1, <2>2, KeepsHolders
<1>8. CASE \/ DropClaimRecord(p) \/ RereadRecord(p) \/ CompareIdentity(p)
           \/ RemoveMarker(p) \/ AbandonClaim(p) \/ Rename(p) \/ SweepStaging(p)
           \/ ScrapClaimed(p)
  <2>1. ~Holding(p) /\ UNCHANGED blob
    BY <1>8 DEF DropClaimRecord, RereadRecord, CompareIdentity, RemoveMarker,
                AbandonClaim, Rename, SweepStaging, ScrapClaimed, Holding
  <2>2. \E l \in ContendPc \cup {"done"} : pc' = [pc EXCEPT ![p] = l]
    BY <1>8 DEF DropClaimRecord, RereadRecord, CompareIdentity, RemoveMarker,
                AbandonClaim, Rename, SweepStaging, ScrapClaimed
  <2> QED BY <2>1, <2>2, KeepsHolders
<1> QED BY <1>1, <1>2, <1>3, <1>4, <1>5, <1>6, <1>7, <1>8 DEF Step

\* The shell's directories and markers implement the abstract store: one writer,
\* and a blob path that goes from unverified to verified and never back.
THEOREM StoreImplemented == Steady /\ Spec => StoreSpec
<1> SUFFICES ASSUME Steady PROVE Spec => StoreSpec
  OBVIOUS
<1>1. Init => Store!Init
  BY DEF Init, Store!Init, Holder, Holding, BlobState, Store!BlobState
<1>2. Init => UnlinkInv
  BY DEF Init, UnlinkInv
<1>3. TypeOK /\ LockInv /\ UnlinkInv /\ [Next]_vars => UnlinkInv'
  BY UnlinkInvNext
<1>4. TypeOK /\ LockInv /\ LockInv' /\ UnlinkInv /\ [Next]_vars
        => [Store!Next]_<<Holder, blob>>
  <2> SUFFICES ASSUME TypeOK, LockInv, LockInv', UnlinkInv, [Next]_vars
               PROVE  [Store!Next]_<<Holder, blob>>
    OBVIOUS
  <2>1. ASSUME NEW p \in Proc, Start(p) PROVE UNCHANGED <<Holder, blob>>
    <3>1. ~Holding(p) /\ UNCHANGED blob
      BY <2>1 DEF Start, Holding
    <3>2. \E l \in {"mkdir", "done"} : pc' = [pc EXCEPT ![p] = l]
      BY <2>1 DEF Start, Goto, Die
    <3> QED BY <3>1, <3>2, KeepsHolders
  <2>2. ASSUME NEW p \in Proc, Step(p) PROVE [Store!Next]_<<Holder, blob>>
    BY <2>2, StepSimulates
  <2>3. ASSUME NEW p \in Proc, Crash(p) PROVE [Store!Next]_<<Holder, blob>>
    <3>1. UNCHANGED blob /\ pc' = [pc EXCEPT ![p] = "crashed"]
      BY <2>3 DEF Crash
    <3>2. CASE Holding(p)
      BY <3>1, <3>2, EndReleases DEF Store!Next
    <3>3. CASE ~Holding(p)
      BY <3>1, <3>3, KeepsHolders
    <3> QED BY <3>2, <3>3
  <2>4. ASSUME UNCHANGED pc PROVE UNCHANGED Holder
    BY <2>4 DEF Holder, Holding
  <2>5. ASSUME NEW p \in Proc, Age(p) PROVE UNCHANGED <<Holder, blob>>
    BY <2>4, <2>5 DEF Age
  <2>6. CASE Tamper
    BY <2>4, <2>6 DEF Tamper, Store!Next, Store!Damage, BlobState, Store!BlobState
  <2>7. CASE HumanRemovesMarker
    BY <2>4, <2>7 DEF HumanRemovesMarker
  <2>8. CASE UNCHANGED vars
    BY <2>4, <2>8 DEF vars
  <2> QED BY <2>1, <2>2, <2>3, <2>5, <2>6, <2>7, <2>8 DEF Next, Environment
<1> QED BY <1>1, <1>2, <1>3, <1>4, TypeCorrect, Inductive, PTL DEF Spec, StoreSpec, Store!Spec
-----------------------------------------------------------------------------

(* What a run leaves behind.                                                 *)

\* Where a run may have something left: a directory it has renamed away, staging
\* of its own; and what it knows when it says it succeeded.
LeavesAt(p) ==
  /\ claimed[p] # None =>
       pc[p] \in {"sweep", "scrap", "crashed"} \/ (pc[p] = "done" /\ out[p] \notin Success)
  /\ pc[p] \in ContendPc \cup {"idle", "record", "recheck", "stage"} => stage[p] = "none"
  /\ out[p] \in Success =>
       /\ pc[p] \in {"tidy", "clear", "rmdir", "done", "crashed"}
       /\ pc[p] \in {"clear", "rmdir", "done"} => stage[p] = "none"
       /\ pc[p] = "done" => lock # p
       /\ "tamper" \notin Faults => blob = "valid"
  /\ pc[p] \in {"rename", "sweep"} /\ rec[p] # None => Ended(rec[p])

LeavesInv == \A p \in Proc : LeavesAt(p)

LEMMA LeavesInit == Init => LeavesInv
<1> SUFFICES ASSUME Init, NEW p \in Proc PROVE LeavesAt(p)
  BY DEF LeavesInv
<1>1. claimed[p] = None /\ out[p] = "none" /\ rec[p] = None /\ pc[p] \in {"idle", "crashed"}
  BY DEF Init
<1>2. pc[p] = "idle" => stage[p] = "none"
  <2>1. pc[p] = "idle" => p \notin Fallen
    BY DEF Init
  <2>2. stage[p] # "none" => lock = p /\ lock # None
    BY ProcAssumption DEF Init
  <2>3. lock # None => lock \in Fallen
    BY DEF Init
  <2> QED BY <2>1, <2>2, <2>3
<1> QED BY <1>1, <1>2 DEF LeavesAt, Success, ContendPc

\* A step of p, as the others see it.
Aside(p) ==
  /\ \A q \in Proc \ {p} :
       /\ pc'[q] = pc[q] /\ out'[q] = out[q] /\ claimed'[q] = claimed[q] /\ rec'[q] = rec[q]
       /\ stage'[q] = stage[q] \/ stage'[q] = "none"
  /\ Ended(p) => Ended(p)'
  /\ lock' \in {lock, None, p}
  /\ blob = "valid" => blob' = "valid"

LEMMA StepAside ==
  ASSUME TypeOK, UnlinkInv, NEW p \in Proc, Start(p) \/ Step(p) \/ Crash(p)
  PROVE  Aside(p)
<1> USE DEF Aside, TypeOK, Goto, Die, FailApply, dirVars, seenVars, Ended, UnlinkInv, Active, RestPc
<1>1. CASE Start(p)  BY <1>1 DEF Start
<1>2. CASE MkdirOk(p)  BY <1>2 DEF MkdirOk
<1>3. CASE MkdirFails(p)  BY <1>3 DEF MkdirFails
<1>4. CASE PublishRecord(p)  BY <1>4 DEF PublishRecord
<1>5. CASE CheckExists(p)  BY <1>5 DEF CheckExists
<1>6. CASE ReadRecord(p)  BY <1>6 DEF ReadRecord
<1>7. CASE ReadIdentity(p)  BY <1>7 DEF ReadIdentity
<1>8. CASE Judge(p)  BY <1>8 DEF Judge
<1>9. CASE WriteClaim(p)  BY <1>9 DEF WriteClaim
<1>10. CASE Claim(p)  BY <1>10 DEF Claim
<1>11. CASE ClaimFails(p)  BY <1>11 DEF ClaimFails
<1>12. CASE ClaimLost(p)  BY <1>12 DEF ClaimLost
<1>13. CASE DropClaimRecord(p)  BY <1>13 DEF DropClaimRecord
<1>14. CASE RereadRecord(p)  BY <1>14 DEF RereadRecord
<1>15. CASE CompareIdentity(p)  BY <1>15 DEF CompareIdentity
<1>16. CASE RemoveMarker(p)  BY <1>16 DEF RemoveMarker
<1>17. CASE AbandonClaim(p)  BY <1>17 DEF AbandonClaim
<1>18. CASE Rename(p)  BY <1>18 DEF Rename
<1>19. CASE SweepStaging(p)  BY <1>19 DEF SweepStaging
<1>20. CASE ScrapClaimed(p)  BY <1>20 DEF ScrapClaimed
<1>21. CASE Recheck(p)  BY <1>21 DEF Recheck
<1>22. CASE MakeStage(p)  BY <1>22 DEF MakeStage
<1>23. CASE Download(p)  BY <1>23 DEF Download
<1>24. CASE Verify(p)  BY <1>24 DEF Verify
<1>25. CASE ClearDestination(p)  BY <1>25 DEF ClearDestination
<1>26. CASE MoveStaged(p)  BY <1>26 DEF MoveStaged
<1>27. CASE ReverifyBlob(p)  BY <1>27 DEF ReverifyBlob
<1>28. CASE UnlinkBlob(p)  BY <1>28 DEF UnlinkBlob
<1>29. CASE TidyStage(p)  BY <1>29 DEF TidyStage
<1>30. CASE ClearLock(p)  BY <1>30 DEF ClearLock
<1>31. CASE RemoveLock(p)  BY <1>31 DEF RemoveLock
<1>32. CASE Crash(p)  BY <1>32 DEF Crash
<1> QED BY <1>1, <1>2, <1>3, <1>4, <1>5, <1>6, <1>7, <1>8, <1>9, <1>10, <1>11, <1>12, <1>13,
           <1>14, <1>15, <1>16, <1>17, <1>18, <1>19, <1>20, <1>21, <1>22, <1>23, <1>24, <1>25,
           <1>26, <1>27, <1>28, <1>29, <1>30, <1>31, <1>32 DEF Step

LEMMA LeavesOthers ==
  ASSUME TypeOK, LeavesInv, NEW p \in Proc, Aside(p)
  PROVE  \A q \in Proc \ {p} : LeavesAt(q)'
<1> SUFFICES ASSUME NEW q \in Proc \ {p} PROVE LeavesAt(q)'
  OBVIOUS
<1>1. LeavesAt(q) /\ rec[q] \in Proc \cup {None}
  BY DEF LeavesInv, TypeOK
<1>2. /\ pc'[q] = pc[q] /\ out'[q] = out[q] /\ claimed'[q] = claimed[q] /\ rec'[q] = rec[q]
      /\ stage'[q] = stage[q] \/ stage'[q] = "none"
  BY DEF Aside
<1>3. \A d \in Proc : Ended(d) => Ended(d)'
  BY DEF Aside, Ended
<1>4. lock # q => lock' # q
  BY ProcAssumption DEF Aside
<1>5. blob = "valid" => blob' = "valid"
  BY DEF Aside
<1>6. pc'[q] \in {"rename", "sweep"} /\ rec'[q] # None => pc'[rec'[q]] \in {"done", "crashed"}
  BY <1>1, <1>2, <1>3 DEF LeavesAt, Ended
<1> QED BY <1>1, <1>2, <1>4, <1>5, <1>6 DEF LeavesAt, Ended

\* A run that has done nothing yet under the lock has made no directory, or its own.
LEMMA LeavesOwn ==
  ASSUME TypeOK, LockInv, UnlinkInv, LeavesInv, NEW p \in Proc, Start(p) \/ Step(p) \/ Crash(p)
  PROVE  LeavesAt(p)'
<1> USE ProcAssumption DEF TypeOK, Goto, Die, FailApply, dirVars, seenVars
<1>1. LeavesAt(p) /\ Aside(p)
  BY StepAside DEF LeavesInv
<1> USE <1>1 DEF LeavesAt, ContendPc, Success, Code
<1>2. CASE Start(p)
  <2>1. lock # p
    BY <1>2 DEF Start, LockInv, DirectoryInv
  <2> QED BY <1>2, <2>1 DEF Start
<1>3. CASE \/ MkdirOk(p) \/ MkdirFails(p) \/ PublishRecord(p) \/ CheckExists(p)
  BY <1>3 DEF MkdirOk, MkdirFails, PublishRecord, CheckExists
<1>4. CASE \/ ReadRecord(p) \/ ReadIdentity(p) \/ Judge(p) \/ WriteClaim(p)
  BY <1>4 DEF ReadRecord, ReadIdentity, Judge, WriteClaim
<1>5. CASE \/ Claim(p) \/ ClaimFails(p) \/ ClaimLost(p) \/ DropClaimRecord(p)
  BY <1>5 DEF Claim, ClaimFails, ClaimLost, DropClaimRecord
<1>6. CASE RereadRecord(p) \/ RemoveMarker(p) \/ AbandonClaim(p)
  BY <1>6 DEF RereadRecord, RemoveMarker, AbandonClaim
<1>7. CASE CompareIdentity(p)
  <2>1. pc'[p] = "rename" /\ rec[p] # None => Ended(rec[p])
    BY <1>7 DEF CompareIdentity, IdentityHolds, LockInv, ClaimInv, Target
  <2>2. pc[p] = "reident" /\ (pc' = [pc EXCEPT ![p] = "rename"] \/ pc' = [pc EXCEPT ![p] = "unmark"])
    BY <1>7 DEF CompareIdentity
  <2> QED BY <1>7, <2>1, <2>2 DEF CompareIdentity, Ended
<1>8. CASE Rename(p)
  BY <1>8 DEF Rename, Ended
<1>9. CASE SweepStaging(p)
  BY <1>9 DEF SweepStaging
<1>10. CASE ScrapClaimed(p)
  BY <1>10 DEF ScrapClaimed
<1>11. CASE Recheck(p)
  BY <1>11 DEF Recheck
<1>12. CASE MakeStage(p) \/ Download(p) \/ Verify(p)
  BY <1>12 DEF MakeStage, Download, Verify
<1>13. CASE ClearDestination(p) \/ MoveStaged(p) \/ UnlinkBlob(p)
  BY <1>13 DEF ClearDestination, MoveStaged, UnlinkBlob
<1>14. CASE ReverifyBlob(p)
  BY <1>14 DEF ReverifyBlob
<1>15. CASE TidyStage(p)
  BY <1>15 DEF TidyStage
<1>16. CASE ClearLock(p)
  BY <1>16 DEF ClearLock
<1>17. CASE RemoveLock(p)
  BY <1>17 DEF RemoveLock
<1>18. CASE Crash(p)
  BY <1>18 DEF Crash
<1> QED BY <1>2, <1>3, <1>4, <1>5, <1>6, <1>7, <1>8, <1>9, <1>10, <1>11, <1>12, <1>13, <1>14,
           <1>15, <1>16, <1>17, <1>18 DEF Step

LEMMA LeavesNext ==
  ASSUME TypeOK, LockInv, UnlinkInv, LeavesInv, [Next]_vars
  PROVE  LeavesInv'
<1>1. ASSUME NEW p \in Proc, Start(p) \/ Step(p) \/ Crash(p) PROVE LeavesInv'
  BY <1>1, StepAside, LeavesOthers, LeavesOwn DEF LeavesInv
<1>2. ASSUME UNCHANGED <<lock, claimed, rec, stage, pc, out>>, blob' = blob \/ "tamper" \in Faults
      PROVE  LeavesInv'
  BY <1>2 DEF LeavesInv, LeavesAt, Ended
<1>3. ASSUME NEW p \in Proc, Age(p) PROVE LeavesInv'
  BY <1>2, <1>3 DEF Age, seenVars
<1>4. CASE Tamper
  BY <1>2, <1>4 DEF Tamper, dirVars, seenVars
<1>5. CASE HumanRemovesMarker
  BY <1>2, <1>5 DEF HumanRemovesMarker, seenVars
<1>6. CASE UNCHANGED vars
  BY <1>2, <1>6 DEF vars
<1> QED BY <1>1, <1>3, <1>4, <1>5, <1>6 DEF Next, Environment

Known == TypeOK /\ LockInv /\ UnlinkInv /\ LeavesInv

LEMMA KnownHolds == Steady /\ Spec => []Known
<1> SUFFICES ASSUME Steady PROVE Spec => []Known
  OBVIOUS
<1>1. Init => UnlinkInv /\ LeavesInv
  BY LeavesInit DEF Init, UnlinkInv
<1>2. TypeOK /\ LockInv /\ UnlinkInv /\ LeavesInv /\ [Next]_vars => (UnlinkInv /\ LeavesInv)'
  BY UnlinkInvNext, LeavesNext
<1>3. TypeOK /\ LockInv /\ UnlinkInv /\ LeavesInv => Known
  BY DEF Known
<1> QED BY <1>1, <1>2, <1>3, TypeCorrect, Inductive, PTL DEF Spec

\* A reported success left no lock, staging or reclaim debris of that run, and a
\* verified runtime, however many runs contend, crash or fail beside it.
THEOREM SuccessIsHonest == Steady /\ Spec => []HonestSuccess
<1>1. Known => HonestSuccess
  BY DEF Known, LeavesInv, LeavesAt, HonestSuccess, TypeOK
<1> QED BY <1>1, KnownHolds, PTL

\* The steps that LiveStagingKept and ValidBlobKept ask of every step.
KeepsStaging ==
  \A q \in Proc : (Active(q) /\ stage[q] # "none" /\ stage'[q] = "none")
                    => pc[q] \in {"tidy", "abort"}
KeepsBlob == (blob = "valid" /\ blob' # "valid") => UNCHANGED pc

LEMMA StepKeeps == ASSUME Known, [Next]_vars PROVE KeepsStaging /\ KeepsBlob
<1>1. ASSUME NEW p \in Proc, Start(p) \/ Step(p) \/ Crash(p) PROVE KeepsBlob
  BY <1>1, StepAside DEF Aside, KeepsBlob, Known
<1>2. ASSUME NEW p \in Proc, SweepStaging(p) PROVE KeepsStaging
  <2>1. rec[p] # None => Ended(rec[p])
    BY <1>2 DEF SweepStaging, Known, LeavesInv, LeavesAt
  <2> QED BY <1>2, <2>1 DEF SweepStaging, KeepsStaging, Known, TypeOK, Ended, Active, RestPc
<1>3. ASSUME NEW p \in Proc, TidyStage(p) PROVE KeepsStaging
  BY <1>3 DEF TidyStage, KeepsStaging, Known, TypeOK
<1>4. ASSUME NEW p \in Proc, MakeStage(p) \/ Download(p) \/ Verify(p) \/ MoveStaged(p)
      PROVE  KeepsStaging
  BY <1>4 DEF MakeStage, Download, Verify, MoveStaged, KeepsStaging, Known, TypeOK
<1>5. ASSUME UNCHANGED stage PROVE KeepsStaging
  BY <1>5 DEF KeepsStaging
<1>6. ASSUME NEW p \in Proc, Start(p) \/ Step(p) \/ Crash(p) PROVE KeepsStaging
  <2>1. ASSUME ~(SweepStaging(p) \/ TidyStage(p) \/ MakeStage(p) \/ Download(p) \/ Verify(p)
                   \/ MoveStaged(p))
        PROVE  UNCHANGED stage
    BY <1>6, <2>1 DEF Start, Step, Crash, MkdirOk, MkdirFails, PublishRecord, CheckExists,
       ReadRecord, ReadIdentity, Judge, WriteClaim, Claim, ClaimFails, ClaimLost, DropClaimRecord,
       RereadRecord, CompareIdentity, RemoveMarker, AbandonClaim, Rename, ScrapClaimed, Recheck,
       ClearDestination, ReverifyBlob, UnlinkBlob, ClearLock, RemoveLock
  <2> QED BY <1>2, <1>3, <1>4, <1>5, <2>1
<1>7. CASE (\E p \in Proc : Age(p)) \/ Tamper \/ HumanRemovesMarker
  BY <1>7 DEF Age, Tamper, HumanRemovesMarker, KeepsStaging, KeepsBlob
<1>8. CASE UNCHANGED vars
  BY <1>8 DEF vars, KeepsStaging, KeepsBlob
<1> QED BY <1>1, <1>6, <1>7, <1>8 DEF Next, Environment

\* Reclaiming removes the staging of dead writers only.
THEOREM LiveStagingIsKept == Steady /\ Spec => LiveStagingKept
<1>1. Known /\ [Next]_vars => [KeepsStaging]_vars
  BY StepKeeps
<1>2. [][KeepsStaging]_vars <=> LiveStagingKept
  BY DEF LiveStagingKept, KeepsStaging
<1> QED BY <1>1, <1>2, KnownHolds, PTL DEF Spec

\* No operation of a repair takes a verified runtime away from the blob path.
THEOREM ValidBlobIsKept == Steady /\ Spec => ValidBlobKept
<1>1. Known /\ [Next]_vars => [KeepsBlob]_vars
  BY StepKeeps
<1>2. [][KeepsBlob]_vars <=> ValidBlobKept
  BY DEF ValidBlobKept, KeepsBlob
<1> QED BY <1>1, <1>2, KnownHolds, PTL DEF Spec
-----------------------------------------------------------------------------
(* Convergence: what becomes of contention when nothing fails.               *)

\* How far a run has come that nothing stood in the way of.
UnhinderedAt(p) ==
  /\ p \in Fallen <=> pc[p] = "crashed"
  /\ pc[p] \notin {"unclaim", "unlink", "abort"}
  /\ pc[p] = "idle" => attempts[p] = 0
  /\ out[p] # "none" => pc[p] \in {"tidy", "clear", "rmdir", "done"}
  /\ out[p] = "CACHE_ROOT_UNSAFE" => pc[p] = "done"
  /\ pc[p] = "download" => stage[p] = "empty"
  /\ pc[p] = "verify" => stage[p] = "archive"
  /\ pc[p] \in {"publish", "move"} => stage[p] = "verified"
  /\ pc[p] = "move" => blob # "nonregular"
  /\ pc[p] \in {"reverify", "tidy", "clear", "rmdir"} => blob = "valid"
  /\ pc[p] = "done" /\ ino[p] # None => blob = "valid"

\* Where there is no lock, and repairs have begun, one is about to make it.
SuccessorInv ==
  lock = None /\ blob # "valid" /\ (\E p \in Proc : pc[p] \notin {"idle", "crashed"})
    => \E q \in Proc : pc[q] \in {"sweep", "scrap", "mkdir"}

\* The lock is still the one a dead run left, with its record in it.
Left ==
  /\ lock \in Fallen
  /\ record[lock] # None
  /\ blob # "valid"
  /\ \A p \in Proc : out[p] # "CACHE_ROOT_UNSAFE"

Claiming == {"drop", "reread", "reident", "rename"}

\* A claim stands in the way of p that p will not take for a dead run's.
Barred(p) ==
  /\ marker[lock] # None
  /\ marker[lock] \in Fallen => p \notin Approved /\ HostOf[p] # HostOf[marker[lock]]

\* What a run has seen of that lock, and why it gave up if it did.
LeftAt(p) ==
  /\ pc[p] \in {"idle", "crashed", "done", "mkdir", "exists", "read", "ident", "judge",
                "write", "claim", "lost"} \cup Claiming
  /\ pc[p] \in {"mkdir", "exists"} /\ attempts[p] # 0 => Barred(p)
  /\ pc[p] \in {"ident", "judge", "reident", "rename"} => rec[p] = lock
  /\ pc[p] \in {"judge", "write", "claim"} \cup Claiming => erec[p] = lock /\ eino[p] = ino[lock]
  /\ pc[p] = "claim" => p \in crec[lock]
  /\ pc[p] = "lost" => marker[lock] # None
  /\ pc[p] \in Claiming => marker[lock] = p
  /\ pc[p] = "done" =>
       \/ out[p] = "LOCK_HELD" /\ Barred(p)
       \/ /\ out[p] = "FOREIGN_LOCK_REQUIRES_APPROVAL"
          /\ p \notin Approved /\ HostOf[p] # HostOf[lock]

LeftInv ==
  Left =>
    /\ marker[lock] # None => marker[lock] \in Fallen \/ pc[marker[lock]] \in Claiming
    /\ \A p \in Proc : LeftAt(p)

UnhinderedInv == \A p \in Proc : UnhinderedAt(p)

LEMMA ConvergeInit == Init => UnhinderedInv /\ SuccessorInv /\ LeftInv
<1> SUFFICES ASSUME Init PROVE UnhinderedInv /\ SuccessorInv /\ LeftInv
  OBVIOUS
<1>1. /\ pc = [p \in Proc |-> IF p \in Fallen THEN "crashed" ELSE "idle"]
      /\ \A p \in Proc : attempts[p] = 0 /\ out[p] = "none"
  BY DEF Init
<1>2. UnhinderedInv
  BY <1>1 DEF UnhinderedInv, UnhinderedAt
<1>3. SuccessorInv
  BY <1>1 DEF SuccessorInv
<1>4. LeftInv
  <2> SUFFICES ASSUME Left PROVE (marker[lock] # None => marker[lock] \in Fallen)
                                 /\ \A p \in Proc : LeftAt(p)
    BY DEF LeftInv
  <2>1. marker[lock] # None => marker[lock] \in Fallen
    BY SetAssumption DEF Left, Init
  <2>2. \A p \in Proc : LeftAt(p)
    BY <1>1 DEF LeftAt, Claiming
  <2> QED BY <2>1, <2>2
<1> QED BY <1>2, <1>3, <1>4

\* What a step of p leaves alone, whichever it is.
LEMMA StepLeaves ==
  ASSUME TypeOK, NEW p \in Proc, Start(p) \/ Step(p)
  PROVE  /\ pc[p] \notin {"done", "crashed"}
         /\ Step(p) => pc[p] # "idle"
         /\ \A q \in Proc \ {p} : /\ ino'[q] = ino[q] /\ attempts'[q] = attempts[q]
                                  /\ erec'[q] = erec[q] /\ eino'[q] = eino[q]
         /\ blob' = "nonregular" => blob = "nonregular"
         /\ MkdirOk(p) \/ UNCHANGED ino
         /\ MkdirOk(p) \/ Holding(p) \/ UNCHANGED <<record, blob>>
BY DEF TypeOK, Holding, dirVars, seenVars, Start, Step, MkdirOk, MkdirFails, PublishRecord,
   CheckExists,
   ReadRecord, ReadIdentity, Judge, WriteClaim, Claim, ClaimFails, ClaimLost, DropClaimRecord,
   RereadRecord, CompareIdentity, RemoveMarker, AbandonClaim, Rename, SweepStaging, ScrapClaimed,
   Recheck, MakeStage, Download, Verify, ClearDestination, MoveStaged, ReverifyBlob, UnlinkBlob,
   TidyStage, ClearLock, RemoveLock

LEMMA UnhinderedOthers ==
  ASSUME Faults = {}, Known, UnhinderedInv, NEW p \in Proc, Start(p) \/ Step(p)
  PROVE  \A q \in Proc \ {p} : UnhinderedAt(q)'
<1> SUFFICES ASSUME NEW q \in Proc \ {p} PROVE UnhinderedAt(q)'
  OBVIOUS
<1>1. Aside(p) /\ KeepsStaging
  <2>1. Next
    BY DEF Next
  <2> QED BY <2>1, StepAside, StepKeeps DEF Known
<1>2. pc'[q] = pc[q] /\ out'[q] = out[q] /\ (stage'[q] = stage[q] \/ stage'[q] = "none")
  BY <1>1 DEF Aside
<1>3. attempts'[q] = attempts[q] /\ ino'[q] = ino[q]
  BY StepLeaves DEF Known
<1>4. pc[q] \in {"download", "verify", "publish", "move"} => stage'[q] = stage[q]
  BY <1>1, <1>2 DEF KeepsStaging, Active, RestPc
<1>5. blob = "valid" => blob' = "valid"
  BY <1>1 DEF Aside
<1>6. blob' = "nonregular" => blob = "nonregular"
  BY StepLeaves DEF Known
<1>7. UnhinderedAt(q)
  BY DEF UnhinderedInv
<1> QED BY <1>2, <1>3, <1>4, <1>5, <1>6, <1>7 DEF UnhinderedAt

LEMMA UnhinderedOwn ==
  ASSUME Faults = {}, Known, UnhinderedInv, NEW p \in Proc, Start(p) \/ Step(p)
  PROVE  UnhinderedAt(p)'
<1> USE ProcAssumption DEF TypeOK, Goto, Die, FailApply, dirVars, seenVars
<1>1. UnhinderedAt(p) /\ TypeOK /\ LockInv /\ LeavesAt(p)
  BY DEF UnhinderedInv, Known, LeavesInv
<1>2. Holding(p) => lock = p /\ lock # None
  BY <1>1 DEF LockInv, LockOwned
<1> USE <1>1, <1>2 DEF UnhinderedAt, Holding, Success, Code, StageState, BlobState
<1>3. CASE Start(p)
  <2>1. ino[p] = None
    BY <1>3 DEF Start, LockInv, DirectoryInv
  <2> QED BY <1>3, <2>1 DEF Start
<1>4. CASE MkdirOk(p) \/ MkdirFails(p) \/ PublishRecord(p)
  BY <1>4 DEF MkdirOk, MkdirFails, PublishRecord
<1>5. MkdirOk(p) \/ (ino'[p] = ino[p] /\ (pc[p] \in ContendPc => ino[p] = None))
  BY StepLeaves DEF LockInv, DirectoryInv
<1>6. CASE CheckExists(p) \/ ReadRecord(p) \/ ReadIdentity(p) \/ Judge(p) \/ WriteClaim(p)
  BY <1>5, <1>6, <1>4 DEF CheckExists, ReadRecord, ReadIdentity, Judge, WriteClaim
<1>7. CASE Claim(p) \/ ClaimFails(p) \/ ClaimLost(p) \/ DropClaimRecord(p)
  BY <1>5, <1>7, <1>4 DEF Claim, ClaimFails, ClaimLost, DropClaimRecord
<1>8. CASE RereadRecord(p) \/ CompareIdentity(p) \/ RemoveMarker(p) \/ AbandonClaim(p)
  BY <1>5, <1>8, <1>4 DEF RereadRecord, CompareIdentity, RemoveMarker, AbandonClaim
<1>9. CASE Rename(p) \/ SweepStaging(p) \/ ScrapClaimed(p)
  BY <1>5, <1>9, <1>4 DEF Rename, SweepStaging, ScrapClaimed
<1>10. CASE Recheck(p) \/ MakeStage(p) \/ Download(p) \/ Verify(p)
  BY <1>10 DEF Recheck, MakeStage, Download, Verify
<1>11. CASE ClearDestination(p) \/ MoveStaged(p) \/ ReverifyBlob(p) \/ UnlinkBlob(p)
  BY <1>11 DEF ClearDestination, MoveStaged, ReverifyBlob, UnlinkBlob
<1>12. CASE TidyStage(p) \/ ClearLock(p) \/ RemoveLock(p)
  BY <1>12 DEF TidyStage, ClearLock, RemoveLock
<1> QED BY <1>3, <1>4, <1>6, <1>7, <1>8, <1>9, <1>10, <1>11, <1>12 DEF Step

LEMMA SuccessorStep ==
  ASSUME Faults = {}, Known, UnhinderedInv, SuccessorInv, NEW p \in Proc, Start(p) \/ Step(p)
  PROVE  SuccessorInv'
<1> USE ProcAssumption DEF Known, TypeOK, Goto, Die, FailApply, dirVars, seenVars
<1>1. UnhinderedAt(p) /\ Aside(p)
  BY StepAside DEF UnhinderedInv
<1>2. SUFFICES ASSUME lock' = None, blob' # "valid"
               PROVE  \E q \in Proc : pc'[q] \in {"sweep", "scrap", "mkdir"}
  BY DEF SuccessorInv
<1>3. blob # "valid" /\ \A q \in Proc \ {p} : pc'[q] = pc[q]
  BY <1>1, <1>2 DEF Aside
<1>4. CASE Start(p)
  BY <1>3, <1>4 DEF Start
<1>5. CASE Step(p) /\ lock # None
  <2>1. Rename(p) \/ RemoveLock(p)
    BY <1>2, <1>5 DEF Step, MkdirOk, MkdirFails, PublishRecord, CheckExists, ReadRecord,
       ReadIdentity,
       Judge, WriteClaim, Claim, ClaimFails, ClaimLost, DropClaimRecord, RereadRecord,
       CompareIdentity, RemoveMarker, AbandonClaim, SweepStaging, ScrapClaimed, Recheck, MakeStage,
       Download, Verify, ClearDestination, MoveStaged, ReverifyBlob, UnlinkBlob, TidyStage,
       ClearLock
  <2>2. ~RemoveLock(p)
    BY <1>1, <1>3 DEF RemoveLock, UnhinderedAt
  <2> QED BY <1>5, <2>1, <2>2 DEF Rename
<1>6. CASE Step(p) /\ lock = None
  <2>1. pc[p] \notin {"idle", "crashed"}
    BY <1>6, StepLeaves
  <2>2. PICK q \in Proc : pc[q] \in {"sweep", "scrap", "mkdir"}
    BY <1>3, <1>6, <2>1 DEF SuccessorInv
  <2>3. CASE q # p
    BY <1>3, <2>2, <2>3
  <2>4. CASE q = p
    <3>1. MkdirOk(p) \/ MkdirFails(p) \/ SweepStaging(p) \/ ScrapClaimed(p)
      BY <1>6, <2>2, <2>4 DEF Step, PublishRecord, CheckExists, ReadRecord, ReadIdentity,
         Judge, WriteClaim, Claim, ClaimFails, ClaimLost, DropClaimRecord, RereadRecord,
         CompareIdentity, RemoveMarker, AbandonClaim, Rename, Recheck, MakeStage, Download, Verify,
         ClearDestination, MoveStaged, ReverifyBlob, UnlinkBlob, TidyStage, ClearLock, RemoveLock
    <3>2. ~MkdirOk(p) /\ ~MkdirFails(p)
      BY <1>2, <1>6 DEF MkdirOk, MkdirFails
    <3>3. CASE SweepStaging(p)
      BY <3>3 DEF SweepStaging
    <3>4. CASE ScrapClaimed(p)
      BY <1>1, <3>4 DEF ScrapClaimed, UnhinderedAt
    <3> QED BY <3>1, <3>2, <3>3, <3>4
  <2> QED BY <2>3, <2>4
<1> QED BY <1>4, <1>5, <1>6

\* Where the lock of a dead run is still there after a step, it was there before,
\* with the same record, and a claim on it stays.
LEMMA LeftBefore ==
  ASSUME Faults = {}, Known, UnhinderedInv, LeftInv, NEW p \in Proc, Start(p) \/ Step(p), Left'
  PROVE  /\ Left /\ lock' = lock /\ lock \in Proc /\ lock # None /\ record[lock] = lock
         /\ \A q \in Proc : LeftAt(q)
         /\ ino'[lock] = ino[lock]
         /\ \A q \in Proc \ {p} : /\ rec'[q] = rec[q] /\ erec'[q] = erec[q] /\ eino'[q] = eino[q]
                                  /\ attempts'[q] = attempts[q] /\ out'[q] = out[q] /\ pc'[q] = pc[q]
                                  /\ q \in crec[lock] => q \in crec'[lock]
         /\ marker[lock] # None => marker'[lock] = marker[lock]
<1> USE ProcAssumption, SetAssumption
<1>1. TypeOK /\ LockInv /\ UnhinderedAt(p) /\ Aside(p)
  BY StepAside DEF Known, UnhinderedInv
<1>2. p \notin Fallen
  <2>1. pc[p] # "crashed"
    BY <1>1, StepLeaves
  <2> QED BY <1>1, <2>1 DEF UnhinderedAt
<1>3. lock' = lock /\ lock \in Proc /\ lock # None /\ lock \in Fallen /\ p # lock
  BY <1>1, <1>2 DEF Left, Aside
<1>4. ~Holding(p)
  BY <1>1, <1>3 DEF LockInv, LockOwned
<1>5. ~MkdirOk(p)
  BY <1>3 DEF MkdirOk
<1>6. UNCHANGED <<record, ino, blob>>
  BY <1>1, <1>4, <1>5, StepLeaves
<1>7. out[p] # "CACHE_ROOT_UNSAFE"
  <2>1. pc[p] # "done"
    BY <1>1, StepLeaves
  <2> QED BY <1>1, <2>1 DEF UnhinderedAt
<1>8. Left
  BY <1>1, <1>3, <1>6, <1>7 DEF Left, Aside
<1>9. \A q \in Proc : LeftAt(q)
  BY <1>8 DEF LeftInv
<1>10. record[lock] = lock
  BY <1>1, <1>3, <1>8 DEF Left, LockInv, DirectoryInv
<1>11. pc[p] \notin {"unmark", "unclaim", "clear", "rmdir", "sweep", "scrap"}
  BY <1>9 DEF LeftAt, Claiming
<1>12. marker[lock] # None => marker'[lock] = marker[lock]
  BY <1>1, <1>5, <1>11 DEF TypeOK, Start, Step, seenVars, dirVars, MkdirFails, PublishRecord,
     CheckExists,
     ReadRecord, ReadIdentity, Judge, WriteClaim, Claim, Claimable, ClaimFails, ClaimLost,
     DropClaimRecord,
     RereadRecord, CompareIdentity, RemoveMarker, AbandonClaim, Rename, SweepStaging, ScrapClaimed,
     Recheck, MakeStage, Download, Verify, ClearDestination, MoveStaged, ReverifyBlob, UnlinkBlob,
     TidyStage, ClearLock, RemoveLock
<1>13. \A q \in Proc \ {p} : q \in crec[lock] => q \in crec'[lock]
  BY <1>1, <1>3, <1>5, <1>11 DEF TypeOK, DropEntry, Start, Step, seenVars, dirVars, MkdirFails,
     PublishRecord, CheckExists,
     ReadRecord, ReadIdentity, Judge, WriteClaim, Claim, ClaimFails, ClaimLost, DropClaimRecord,
     RereadRecord, CompareIdentity, RemoveMarker, AbandonClaim, Rename, SweepStaging, ScrapClaimed,
     Recheck, MakeStage, Download, Verify, ClearDestination, MoveStaged, ReverifyBlob, UnlinkBlob,
     TidyStage, ClearLock, RemoveLock
<1>14. \A q \in Proc \ {p} : /\ rec'[q] = rec[q] /\ erec'[q] = erec[q] /\ eino'[q] = eino[q]
                             /\ attempts'[q] = attempts[q] /\ out'[q] = out[q] /\ pc'[q] = pc[q]
  <2>1. \A q \in Proc \ {p} : rec'[q] = rec[q] /\ out'[q] = out[q] /\ pc'[q] = pc[q]
    BY <1>1 DEF Aside
  <2>2. \A q \in Proc \ {p} : erec'[q] = erec[q] /\ eino'[q] = eino[q] /\ attempts'[q] = attempts[q]
    BY <1>1, StepLeaves
  <2> QED BY <2>1, <2>2
<1> QED BY <1>3, <1>6, <1>8, <1>9, <1>10, <1>12, <1>13, <1>14

LEMMA LeftOthers ==
  ASSUME Faults = {}, Known, UnhinderedInv, LeftInv, NEW p \in Proc, Start(p) \/ Step(p), Left'
  PROVE  \A q \in Proc \ {p} : LeftAt(q)'
<1> SUFFICES ASSUME NEW q \in Proc \ {p} PROVE LeftAt(q)'
  OBVIOUS
<1>1. LeftAt(q)
  BY LeftBefore
<1>2. /\ lock' = lock /\ ino'[lock] = ino[lock]
      /\ rec'[q] = rec[q] /\ erec'[q] = erec[q] /\ eino'[q] = eino[q]
      /\ attempts'[q] = attempts[q] /\ out'[q] = out[q] /\ pc'[q] = pc[q]
      /\ q \in crec[lock] => q \in crec'[lock]
  BY LeftBefore
<1>3. marker[lock] # None => marker'[lock] = marker[lock]
  BY LeftBefore
<1>4. Barred(q) => Barred(q)'
  BY <1>2, <1>3 DEF Barred
<1> QED BY <1>1, <1>2, <1>3, <1>4, ProcAssumption DEF LeftAt, Claiming

LEMMA LeftOwn ==
  ASSUME Faults = {}, Known, UnhinderedInv, LeftInv, NEW p \in Proc, Start(p) \/ Step(p), Left'
  PROVE  LeftAt(p)'
<1> USE ProcAssumption, AttemptsAssumption DEF Goto, Die, dirVars, seenVars, Claiming
<1>1. /\ Left /\ lock' = lock /\ lock \in Proc /\ lock # None /\ record[lock] = lock
      /\ ino'[lock] = ino[lock] /\ LeftAt(p)
      /\ marker[lock] # None => marker'[lock] = marker[lock]
  BY LeftBefore
<1>2. TypeOK /\ UnhinderedAt(p) /\ UnhinderedAt(lock)
  BY <1>1 DEF Known, UnhinderedInv
<1>3. Barred(p) => Barred(p)'
  BY <1>1 DEF Barred
<1>4. out'[p] # "CACHE_ROOT_UNSAFE" /\ blob # "valid" /\ ~Active(lock)
  BY <1>1, <1>2 DEF Left, UnhinderedAt, Active
<1> USE <1>1, <1>2, <1>3, <1>4 DEF TypeOK, LeftAt
<1>5. CASE Start(p)
  BY <1>5 DEF Start, UnhinderedAt
<1>6. CASE MkdirFails(p)
  BY <1>6 DEF MkdirFails
<1>7. CASE CheckExists(p)
  <2>1. CASE attempts[p] = 0
    <3>1. ~(attempts[p] + 1 > MaxAttempts)
      BY <2>1
    <3> QED BY <1>7, <3>1 DEF CheckExists
  <2>2. CASE attempts[p] # 0
    BY <1>7, <2>2 DEF CheckExists
  <2> QED BY <2>1, <2>2
<1>8. CASE ReadRecord(p)
  BY <1>8 DEF ReadRecord, LockRecord
<1>9. CASE ReadIdentity(p)
  BY <1>9 DEF ReadIdentity, LockInode
<1>10. CASE Judge(p)
  BY <1>10 DEF Judge, JudgedDead
<1>11. CASE WriteClaim(p)
  BY <1>11 DEF WriteClaim
<1>12. CASE Claim(p)
  BY <1>12 DEF Claim
<1>13. CASE ClaimFails(p)
  BY <1>13 DEF ClaimFails, Claimable
<1>14. CASE ClaimLost(p)
  <2>1. LockMarker = marker[lock] /\ marker[lock] # None /\ marker'[lock] = marker[lock]
    BY <1>14 DEF ClaimLost, LockMarker
  <2>2. MarkerOwnerLive(p, marker[lock]) => Barred(p)'
    <3>1. marker[lock] \in Fallen => ~Active(marker[lock])
      BY SetAssumption DEF Known, UnhinderedInv, UnhinderedAt, Active
    <3> QED BY <2>1, <3>1 DEF MarkerOwnerLive, Barred
  <2>3. pc' = [pc EXCEPT ![p] = "mkdir"] /\ Barred(p)'
    BY <1>14, <2>1, <2>2 DEF ClaimLost
  <2> QED BY <2>3
<1>15. CASE DropClaimRecord(p)
  BY <1>15 DEF DropClaimRecord
<1>16. CASE RereadRecord(p)
  BY <1>16 DEF RereadRecord, LockRecord
<1>17. CASE CompareIdentity(p)
  BY <1>17 DEF CompareIdentity, IdentityHolds, LockInode
<1>18. ~Rename(p) /\ ~MkdirOk(p)
  BY DEF Rename, MkdirOk
<1> QED
  BY <1>5, <1>6, <1>7, <1>8, <1>9, <1>10, <1>11, <1>12, <1>13, <1>14, <1>15, <1>16, <1>17, <1>18
  DEF Step, PublishRecord, RemoveMarker, AbandonClaim, SweepStaging, ScrapClaimed, Recheck,
  MakeStage,
      Download, Verify, ClearDestination, MoveStaged, ReverifyBlob, UnlinkBlob, TidyStage,
      ClearLock,
      RemoveLock

LEMMA LeftStep ==
  ASSUME Faults = {}, Known, UnhinderedInv, LeftInv, NEW p \in Proc, Start(p) \/ Step(p)
  PROVE  LeftInv'
<1> SUFFICES ASSUME Left' PROVE (/\ marker[lock] # None => marker[lock] \in Fallen \/ pc[marker[lock]] \in Claiming
                                 /\ \A q \in Proc : LeftAt(q))'
  BY DEF LeftInv
<1>1. \A q \in Proc : LeftAt(q)'
  BY LeftOthers, LeftOwn
<1>2. /\ Left /\ lock' = lock /\ lock \in Proc
      /\ marker[lock] # None => marker'[lock] = marker[lock]
      /\ \A q \in Proc \ {p} : pc'[q] = pc[q]
  BY LeftBefore
<1>3. marker[lock] # None => marker[lock] \in Fallen \/ pc[marker[lock]] \in Claiming
  BY <1>2 DEF LeftInv
<1>4. TypeOK /\ LeftAt(p)
  BY <1>2, LeftBefore DEF Known
<1>5. CASE marker[lock] = None
  <2>1. marker'[lock] # None => marker'[lock] = p /\ pc'[p] = "drop"
    <3>1. CASE Claim(p)
      BY <1>2, <1>4, <3>1 DEF Claim, Goto, TypeOK
    <3>2. CASE ~Claim(p)
      <4>1. ~MkdirOk(p)
        BY <1>2, ProcAssumption DEF MkdirOk
      <4>2. pc[p] \notin {"unmark", "unclaim", "clear", "rmdir", "sweep", "scrap"}
        BY <1>4 DEF LeftAt, Claiming
      <4>3. marker' = marker
        BY <3>2, <4>1, <4>2 DEF Start, Step, seenVars, dirVars, MkdirFails, PublishRecord,
           CheckExists,
           ReadRecord, ReadIdentity, Judge, WriteClaim, ClaimFails, ClaimLost, DropClaimRecord,
           RereadRecord, CompareIdentity, RemoveMarker, AbandonClaim, Rename, SweepStaging,
           ScrapClaimed, Recheck, MakeStage, Download, Verify, ClearDestination, MoveStaged,
           ReverifyBlob, UnlinkBlob, TidyStage, ClearLock, RemoveLock
      <4> QED BY <1>5, <4>3
    <3> QED BY <3>1, <3>2
  <2> QED BY <1>1, <1>2, <2>1 DEF Claiming
<1>6. CASE marker[lock] # None
  <2> DEFINE m == marker[lock]
  <2>1. m \in Proc /\ marker'[lock] = m /\ (m \in Fallen \/ pc[m] \in Claiming)
    BY <1>2, <1>3, <1>4, <1>6 DEF TypeOK
  <2>2. m # p => pc'[m] = pc[m]
    BY <1>2, <2>1
  <2>3. pc[p] \in Claiming => pc'[p] \in Claiming
    <3>1. lock' # None /\ ~("io" \in Faults) /\ \A q \in Proc : LeftAt(q)'
      BY <1>1, <1>2, ProcAssumption
    <3>2. LeftAt(p)'
      BY <1>1
    <3>3. pc[p] \in Claiming => DropClaimRecord(p) \/ RereadRecord(p) \/ CompareIdentity(p) \/ Rename(p)
      BY DEF Claiming, Start, Step, MkdirOk, MkdirFails, PublishRecord, CheckExists,
           ReadRecord, ReadIdentity, Judge, WriteClaim, Claim, ClaimFails, ClaimLost,
           RemoveMarker, AbandonClaim, SweepStaging,
           ScrapClaimed, Recheck, MakeStage, Download, Verify, ClearDestination, MoveStaged,
           ReverifyBlob, UnlinkBlob, TidyStage, ClearLock, RemoveLock
    <3>4. ~Rename(p)
      BY <1>2, <3>1 DEF Rename
    <3> QED BY <1>4, <3>1, <3>2, <3>3, <3>4
            DEF DropClaimRecord, RereadRecord, CompareIdentity, Goto, TypeOK, LeftAt, Claiming
  <2> QED BY <1>1, <1>2, <2>1, <2>2, <2>3
<1> QED BY <1>5, <1>6

LEMMA ConvergeNext ==
  ASSUME Faults = {}, Known, UnhinderedInv, SuccessorInv, LeftInv, [Next]_vars
  PROVE  (UnhinderedInv /\ SuccessorInv /\ LeftInv)'
<1>1. ASSUME NEW p \in Proc, Start(p) \/ Step(p) PROVE (UnhinderedInv /\ SuccessorInv /\ LeftInv)'
  BY <1>1, UnhinderedOthers, UnhinderedOwn, SuccessorStep, LeftStep DEF UnhinderedInv
<1>2. CASE UNCHANGED vars
  BY <1>2 DEF vars, UnhinderedInv, UnhinderedAt, SuccessorInv, LeftInv, Left, LeftAt, Barred
<1>3. ASSUME NEW d \in Proc, Age(d) PROVE (UnhinderedInv /\ SuccessorInv /\ LeftInv)'
  BY <1>3 DEF Age, seenVars, UnhinderedInv, UnhinderedAt, SuccessorInv, LeftInv, Left, LeftAt,
     Barred
<1>4. CASE HumanRemovesMarker
  <2>1. ~Left'
    BY <1>4 DEF HumanRemovesMarker, Left
  <2> QED BY <1>4, <2>1 DEF HumanRemovesMarker, seenVars, UnhinderedInv, UnhinderedAt,
             SuccessorInv, LeftInv
<1> QED BY <1>1, <1>2, <1>3, <1>4 DEF Next, Environment, Crash, Tamper

\* Contention alone, without faults, leaves the runtime uninstalled only where a dead
\* run's lock is left that needs a person: one without a record, one whose claim was
\* reported as abandoned, or another host's that no approved run was made for.
THEOREM ContentionConverges == ASSUME Faults = {} PROVE Spec => []RepairConverges
<1>1. Steady
  BY DEF Steady
<1>2. Init => UnhinderedInv /\ SuccessorInv /\ LeftInv
  BY ConvergeInit
<1>3. Known /\ UnhinderedInv /\ SuccessorInv /\ LeftInv /\ [Next]_vars
        => (UnhinderedInv /\ SuccessorInv /\ LeftInv)'
  BY ConvergeNext
<1>4. Known /\ UnhinderedInv /\ SuccessorInv /\ LeftInv => RepairConverges
  <2> SUFFICES ASSUME Known, UnhinderedInv, SuccessorInv, LeftInv,
                      \A p \in Proc : ~Active(p), NEW p \in Proc, pc[p] = "done", blob # "valid"
               PROVE  /\ lock \in Fallen
                      /\ \/ record[lock] = None
                         \/ \E q \in Proc : out[q] = "CACHE_ROOT_UNSAFE"
                         \/ /\ \/ \E q \in Proc : out[q] = "FOREIGN_LOCK_REQUIRES_APPROVAL"
                               \/ /\ marker[lock] # None
                                  /\ \E q \in Proc : HostOf[q] # HostOf[marker[lock]]
                            /\ \A q \in Approved : pc[q] # "done"
    BY DEF RepairConverges
  <2>1. \A q \in Proc : pc[q] \in RestPc
    BY DEF Active
  <2>2. lock # None /\ lock \in Proc
    BY <2>1 DEF SuccessorInv, Known, TypeOK
  <2>3. lock \in Fallen
    <3>1. ino[lock] # None /\ (pc[lock] = "idle" => ino[lock] = None)
      BY <2>2 DEF Known, LockInv, DirectoryInv
    <3> QED BY <2>1, <2>2, <3>1 DEF UnhinderedInv, UnhinderedAt
  <2>4. ASSUME Left PROVE /\ \/ out[p] = "FOREIGN_LOCK_REQUIRES_APPROVAL"
                             \/ marker[lock] # None /\ HostOf[p] # HostOf[marker[lock]]
                          /\ \A q \in Approved : pc[q] # "done"
    <3>1. marker[lock] \in Fallen \cup {None}
      <4>1. marker[lock] # None => marker[lock] \in Proc
        BY <2>2 DEF Known, TypeOK
      <4> QED BY <2>1, <2>4, <4>1 DEF LeftInv, Claiming
    <3>2. \A q \in Proc : LeftAt(q)
      BY <2>4 DEF LeftInv
    <3> QED BY <3>1, <3>2, SetAssumption DEF LeftAt, Barred
  <2> QED BY <2>3, <2>4 DEF Left
<1> QED BY <1>1, <1>2, <1>3, <1>4, KnownHolds, PTL DEF Spec
=============================================================================
