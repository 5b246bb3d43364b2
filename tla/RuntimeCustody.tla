--------------------------- MODULE RuntimeCustody ---------------------------
(***************************************************************************)
(* The writer lock, the stale-lock reclamation and the publication of      *)
(* `runtime-exec repair --apply` (plugin/runtime/runtime-exec).  Several   *)
(* repairs, possibly on several hosts, share one cache directory; every    *)
(* action below is one file-system operation of the shell script, so       *)
(* repairs interleave and may die between any two of them.                 *)
(*                                                                         *)
(* A process stands for one run of the command (one pid, start time and    *)
(* nonce).  It creates at most one lock directory, so a lock directory is  *)
(* named by its creator; what the script itself can see of the identity    *)
(* of a directory is its inode number, ino, and the record inside.         *)
(***************************************************************************)
EXTENDS Naturals

CONSTANTS
  Proc,        \* the runs of `repair --apply`
  Inode,       \* inode numbers the file system hands out
  None,        \* no process, no directory, no inode
  HostOf,      \* the host each run executes on
  Approved,    \* the runs invoked with --reclaim-foreign-lock
  Fallen,      \* the runs that had died before the behaviour begins
  Faults,      \* the faults the environment may inject, a subset of FaultKind
  MaxAttempts  \* the bound of acquire_lock on contended attempts (3)

FaultKind == {"crash", "io", "net", "tamper", "slow", "reuse"}

ASSUME ProcAssumption == None \notin Proc /\ None \notin Inode
ASSUME SetAssumption ==
  /\ Approved \subseteq Proc
  /\ Fallen \subseteq Proc
  /\ Faults \subseteq FaultKind
ASSUME AttemptsAssumption == MaxAttempts \in Nat \ {0}

VARIABLES
  lock,     \* the directory now at $lock_dir, or None
  ino,      \* the inode of each lock directory, None before it is created
  record,   \* the owner named by the directory's record file, or None
  marker,   \* the owner of the directory's .reclaim-claim, or None
  crec,     \* the runs whose .reclaim-record-<nonce> is in the directory
  old,      \* the directory's mtime is older than the recordless grace
  claimed,  \* the directory each run has renamed to reclaim-<nonce>
  stage,    \* the contents of each run's staging directory
  blob,     \* the state assess_blob would report
  pc,       \* the next operation of each run
  attempts, \* _al_attempts
  rec,      \* rec_*, as last read by read_lock_record
  erec,     \* the record part of _al_lock_identity
  eino,     \* the inode part of _al_lock_identity
  out       \* the code of the control object each run ends with

dirVars == <<lock, ino, record, marker, crec, old, claimed>>
seenVars == <<attempts, rec, erec, eino>>
vars == <<lock, ino, record, marker, crec, old, claimed, stage, blob,
          pc, attempts, rec, erec, eino, out>>

BlobState == {"missing", "corrupt", "nonregular", "valid"}
StageState == {"none", "empty", "archive", "verified"}
ContendPc == {"mkdir", "exists", "read", "ident", "judge", "write", "claim",
              "lost", "drop", "reread", "reident", "unmark", "unclaim",
              "rename", "sweep", "scrap"}
WorkPc == {"record", "recheck", "stage", "download", "verify", "publish",
           "move", "reverify", "unlink", "tidy", "abort"}
ReleasePc == {"clear", "rmdir"}
HoldPc == WorkPc \cup ReleasePc
RestPc == {"idle", "done", "crashed"}
Success == {"REPAIR_APPLIED", "REPAIR_UNNEEDED"}
Code == Success \cup {"none", "LOCK_HELD", "FOREIGN_LOCK_REQUIRES_APPROVAL",
                      "CACHE_ROOT_UNSAFE", "DOWNLOAD_FAILED", "INTEGRITY"}

TypeOK ==
  /\ lock \in Proc \cup {None}
  /\ ino \in [Proc -> Inode \cup {None}]
  /\ record \in [Proc -> Proc \cup {None}]
  /\ marker \in [Proc -> Proc \cup {None}]
  /\ crec \in [Proc -> SUBSET Proc]
  /\ old \in [Proc -> BOOLEAN]
  /\ claimed \in [Proc -> Proc \cup {None}]
  /\ stage \in [Proc -> StageState]
  /\ blob \in BlobState
  /\ pc \in [Proc -> ContendPc \cup HoldPc \cup RestPc]
  /\ attempts \in [Proc -> Nat]
  /\ rec \in [Proc -> Proc \cup {None}]
  /\ erec \in [Proc -> Proc \cup {None}]
  /\ eino \in [Proc -> Inode \cup {None}]
  /\ out \in [Proc -> Code]

-----------------------------------------------------------------------------
(* What the script can observe. *)

\* `kill -0 pid` together with an unchanged start token.
Active(p) == pc[p] \notin RestPc

\* The lock has been created and not yet given back.
Holding(p) == pc[p] \in HoldPc

\* A directory that is still on disk, at $lock_dir or under a reclaim name.
Exists(d) == lock = d \/ \E p \in Proc : claimed[p] = d

\* An inode mkdir may hand out.  ext4 reuses a freed inode at once, APFS never.
FreeInode(i) ==
  \A d \in Proc : ino[d] = i => ("reuse" \in Faults /\ ~Exists(d))

LockInode == IF lock = None THEN None ELSE ino[lock]
LockRecord == IF lock = None THEN None ELSE record[lock]
LockMarker == IF lock = None THEN None ELSE marker[lock]

\* lock_is_older_than_grace: find on a vanished path reports nothing.
LockIsOld == IF lock = None THEN FALSE ELSE old[lock]

\* A human approves a foreign reclamation only after confirming that no other
\* machine is repairing, and starts none while the approved run is under way.
ForeignQuiet(p) ==
  \A q \in Proc : (Active(q) /\ HostOf[q] # HostOf[p])
                    => (p \notin Approved /\ q \notin Approved)

-----------------------------------------------------------------------------
(* A lock left by a run that died: with or without its record, possibly    *)
(* with the claim of a reclaimer that died as well.                        *)
Init ==
  /\ lock \in Fallen \cup {None}
  /\ ino \in [Proc -> Inode \cup {None}]
  /\ \A p \in Proc : ino[p] = None <=> p # lock
  /\ record \in [Proc -> Fallen \cup {None}]
  /\ \A p \in Proc : record[p] \in (IF p = lock THEN {None, p} ELSE {None})
  /\ marker \in [Proc -> Fallen \cup {None}]
  /\ \A p \in Proc : marker[p] # None => p = lock /\ marker[p] # p
  /\ crec = [p \in Proc |-> {}]
  /\ old \in [Proc -> BOOLEAN]
  /\ \A p \in Proc : old[p] => p = lock
  /\ claimed = [p \in Proc |-> None]
  /\ stage \in [Proc -> StageState]
  /\ \A p \in Proc : stage[p] # "none" => record[p] = p
  /\ blob \in BlobState
  /\ pc = [p \in Proc |-> IF p \in Fallen THEN "crashed" ELSE "idle"]
  /\ attempts = [p \in Proc |-> 0]
  /\ rec = [p \in Proc |-> None]
  /\ erec = [p \in Proc |-> None]
  /\ eino = [p \in Proc |-> None]
  /\ out = [p \in Proc |-> "none"]

Goto(p, l) == pc' = [pc EXCEPT ![p] = l] /\ UNCHANGED out

\* die: emit the control object and exit.
Die(p, code) ==
  /\ pc' = [pc EXCEPT ![p] = "done"]
  /\ out' = [out EXCEPT ![p] = code]

\* fail_apply: settle the code, then remove the staging and release the lock.
FailApply(p, code) ==
  /\ pc' = [pc EXCEPT ![p] = "abort"]
  /\ out' = [out EXCEPT ![p] = code]

\* An entry of directory d is added or removed: its mtime is now.
Touch(d) == old' = [old EXCEPT ![d] = FALSE]

-----------------------------------------------------------------------------
(* do_apply up to the lock: an unlocked look at the blob.                  *)
Start(p) ==
  /\ pc[p] = "idle"
  /\ ForeignQuiet(p)
  /\ \/ blob = "valid" /\ Die(p, "REPAIR_UNNEEDED")
     \/ blob # "valid" /\ Goto(p, "mkdir")
     \/ "io" \in Faults /\ Die(p, "CACHE_ROOT_UNSAFE")
  /\ UNCHANGED <<dirVars, seenVars, stage, blob>>

(* acquire_lock: mkdir $lock_dir. *)
MkdirOk(p) ==
  /\ pc[p] = "mkdir"
  /\ lock = None
  /\ \E i \in Inode :
       /\ FreeInode(i)
       /\ ino' = [ino EXCEPT ![p] = i]
  /\ lock' = p
  /\ record' = [record EXCEPT ![p] = None]
  /\ marker' = [marker EXCEPT ![p] = None]
  /\ crec' = [crec EXCEPT ![p] = {}]
  /\ Touch(p)
  /\ Goto(p, "record")
  /\ UNCHANGED <<claimed, seenVars, stage, blob>>

MkdirFails(p) ==
  /\ pc[p] = "mkdir"
  /\ lock # None \/ "io" \in Faults
  /\ Goto(p, "exists")
  /\ UNCHANGED <<dirVars, seenVars, stage, blob>>

(* The record is written under a private name and renamed into place; the  *)
(* path is resolved again, whatever directory it now leads to.             *)
PublishRecord(p) ==
  /\ pc[p] = "record"
  /\ \/ /\ lock # None
        /\ record' = [record EXCEPT ![lock] = p]
        /\ Touch(lock)
        /\ Goto(p, "recheck")
     \/ /\ lock = None \/ "io" \in Faults
        /\ FailApply(p, "CACHE_ROOT_UNSAFE")
        /\ UNCHANGED <<record, old>>
  /\ UNCHANGED <<lock, ino, marker, crec, claimed, seenVars, stage, blob>>

(* Contention: does the path exist at all, and is an attempt left? *)
CheckExists_Uncounted(p) ==
  /\ pc[p] = "exists"
  /\ \/ lock = None /\ Die(p, "CACHE_ROOT_UNSAFE")
     \/ lock # None /\ Goto(p, "read")
  /\ UNCHANGED <<dirVars, seenVars, stage, blob>>

CheckExists(p) ==
  /\ pc[p] = "exists"
  /\ \/ /\ lock = None
        /\ Die(p, "CACHE_ROOT_UNSAFE")
        /\ UNCHANGED attempts
     \/ /\ lock # None
        /\ attempts' = [attempts EXCEPT ![p] = @ + 1]
        /\ IF attempts[p] + 1 > MaxAttempts THEN Die(p, "LOCK_HELD")
                                           ELSE Goto(p, "read")
  /\ UNCHANGED <<dirVars, rec, erec, eino, stage, blob>>

\* read_lock_record: an absent record leaves every field empty.
ReadRecord(p) ==
  /\ pc[p] = "read"
  /\ \/ /\ rec' = [rec EXCEPT ![p] = LockRecord]
        /\ Goto(p, "ident")
     \/ /\ "io" \in Faults
        /\ Die(p, "CACHE_ROOT_UNSAFE")
        /\ UNCHANGED rec
  /\ UNCHANGED <<dirVars, attempts, erec, eino, stage, blob>>

\* lock_record_identity: the inode is a second look at the path.
ReadIdentity(p) ==
  /\ pc[p] = "ident"
  /\ erec' = [erec EXCEPT ![p] = rec[p]]
  /\ eino' = [eino EXCEPT ![p] = LockInode]
  /\ Goto(p, "judge")
  /\ UNCHANGED <<dirVars, attempts, rec, stage, blob>>

\* Judging a lock dead: two readings the code avoids, then its own.
JudgedDead_NoGrace(p) ==
  LET q == rec[p] IN
    IF q = None THEN TRUE
    ELSE IF HostOf[q] # HostOf[p] THEN p \in Approved
    ELSE ~Active(q)

JudgedDead_ApprovalIgnored(p) ==
  LET q == rec[p] IN
    IF q = None THEN LockIsOld
    ELSE HostOf[q] = HostOf[p] /\ ~Active(q)

\* writer_is_live: what cannot be proven dead is live.
JudgedDead(p) ==
  LET q == rec[p] IN
    IF q = None THEN LockIsOld
    ELSE IF HostOf[q] # HostOf[p] THEN p \in Approved
    ELSE ~Active(q)

Judge(p) ==
  /\ pc[p] = "judge"
  /\ \/ /\ JudgedDead(p)
        /\ Goto(p, "write")
     \/ /\ ~JudgedDead(p)
        /\ IF rec[p] # None /\ HostOf[rec[p]] # HostOf[p]
             THEN Die(p, "FOREIGN_LOCK_REQUIRES_APPROVAL")
             ELSE Die(p, "LOCK_HELD")
  /\ UNCHANGED <<dirVars, seenVars, stage, blob>>

-----------------------------------------------------------------------------
(* reclaim_stale_lock.                                                     *)

\* The path must still be a directory; the claimant's record goes inside it.
WriteClaim(p) ==
  /\ pc[p] = "write"
  /\ \/ /\ lock # None
        /\ crec' = [crec EXCEPT ![lock] = @ \cup {p}]
        /\ Touch(lock)
        /\ Goto(p, "claim")
     \/ /\ lock = None \/ "io" \in Faults
        /\ Die(p, "CACHE_ROOT_UNSAFE")
        /\ UNCHANGED <<crec, old>>
  /\ UNCHANGED <<lock, ino, record, marker, claimed, seenVars, stage, blob>>

\* ln refuses an existing marker, and a record that vanished with its directory.
Claimable_Forced(p) == lock # None /\ p \in crec[lock]

Claimable(p) == lock # None /\ p \in crec[lock] /\ marker[lock] = None

Claim(p) ==
  /\ pc[p] = "claim"
  /\ Claimable(p)
  /\ marker' = [marker EXCEPT ![lock] = p]
  /\ Touch(lock)
  /\ Goto(p, "drop")
  /\ UNCHANGED <<lock, ino, record, crec, claimed, seenVars, stage, blob>>

ClaimFails(p) ==
  /\ pc[p] = "claim"
  /\ ~Claimable(p) \/ "io" \in Faults
  /\ Goto(p, "lost")
  /\ UNCHANGED <<dirVars, seenVars, stage, blob>>

\* reclaim_marker_owner_is_live.
MarkerOwnerLive(p, q) ==
  IF HostOf[q] # HostOf[p] THEN p \notin Approved ELSE Active(q)

\* rm -f $lock_dir/.reclaim-record-<nonce>: only a removal touches the directory.
DropEntry(p) ==
  IF lock = None
    THEN UNCHANGED <<crec, old>>
    ELSE /\ crec' = [crec EXCEPT ![lock] = @ \ {p}]
         /\ old' = [old EXCEPT ![lock] = @ /\ p \notin crec[lock]]

\* Why ln failed is read off whatever is at the path by now.
ClaimLost(p) ==
  /\ pc[p] = "lost"
  /\ DropEntry(p)
  /\ IF lock = None \/ (LockMarker # None /\ MarkerOwnerLive(p, LockMarker))
       THEN Goto(p, "mkdir")
       ELSE Die(p, "CACHE_ROOT_UNSAFE")
  /\ UNCHANGED <<lock, ino, record, marker, claimed, seenVars, stage, blob>>

\* The marker holds the claim now; the private name of its record goes.
DropClaimRecord(p) ==
  /\ pc[p] = "drop"
  /\ \/ DropEntry(p) /\ Goto(p, "reread")
     \/ "io" \in Faults /\ Goto(p, "unclaim") /\ UNCHANGED <<crec, old>>
  /\ UNCHANGED <<lock, ino, record, marker, claimed, seenVars, stage, blob>>

\* The second read of the record, now under the claim.
RereadRecord(p) ==
  /\ pc[p] = "reread"
  /\ \/ rec' = [rec EXCEPT ![p] = LockRecord] /\ Goto(p, "reident")
     \/ "io" \in Faults /\ UNCHANGED rec /\ Goto(p, "unclaim")
  /\ UNCHANGED <<dirVars, attempts, erec, eino, stage, blob>>

IdentityHolds_Unchecked(p) == rec[p] = rec[p]

IdentityHolds(p) == rec[p] = erec[p] /\ LockInode = eino[p]

CompareIdentity(p) ==
  /\ pc[p] = "reident"
  /\ Goto(p, IF IdentityHolds(p) THEN "rename" ELSE "unmark")
  /\ UNCHANGED <<dirVars, seenVars, stage, blob>>

(* remove_owned_reclaim_marker; after it, the acquisition is retried.  A   *)
(* path that changed hands no longer holds this run's marker.              *)
RemoveMarker(p) ==
  /\ pc[p] = "unmark"
  /\ \/ /\ LockMarker = p
        /\ marker' = [marker EXCEPT ![lock] = None]
        /\ Touch(lock)
        /\ \/ Goto(p, "mkdir")
           \/ "io" \in Faults /\ Die(p, "CACHE_ROOT_UNSAFE")
     \/ /\ LockMarker # p \/ "io" \in Faults
        /\ Die(p, "CACHE_ROOT_UNSAFE")
        /\ UNCHANGED <<marker, old>>
  /\ UNCHANGED <<lock, ino, record, crec, claimed, seenVars, stage, blob>>

\* A claim that could not be completed is given up, and the run with it.
AbandonClaim(p) ==
  /\ pc[p] = "unclaim"
  /\ \/ /\ LockMarker = p
        /\ marker' = [marker EXCEPT ![lock] = None]
        /\ Touch(lock)
     \/ /\ LockMarker # p \/ "io" \in Faults
        /\ UNCHANGED <<marker, old>>
  /\ Die(p, "CACHE_ROOT_UNSAFE")
  /\ UNCHANGED <<lock, ino, record, crec, claimed, seenVars, stage, blob>>

\* mv $lock_dir reclaim-<nonce>: moves whatever directory is at the path.
Rename(p) ==
  /\ pc[p] = "rename"
  /\ \/ /\ lock # None
        /\ claimed' = [claimed EXCEPT ![p] = lock]
        /\ lock' = None
        /\ Goto(p, "sweep")
     \/ /\ lock = None \/ "io" \in Faults
        /\ Goto(p, "unmark")
        /\ UNCHANGED <<lock, claimed>>
  /\ UNCHANGED <<ino, record, marker, crec, old, seenVars, stage, blob>>

\* The staging the re-read record names goes; a failure is reported at the end.
SweepStaging_Everything(p) ==
  /\ pc[p] = "sweep"
  /\ stage' = [q \in Proc |-> "none"]
  /\ Goto(p, "scrap")
  /\ UNCHANGED <<dirVars, seenVars, blob>>

SweepStaging(p) ==
  /\ pc[p] = "sweep"
  /\ \/ /\ stage' = IF rec[p] = None THEN stage
                                     ELSE [stage EXCEPT ![rec[p]] = "none"]
        /\ UNCHANGED out
     \/ /\ "io" \in Faults
        /\ out' = [out EXCEPT ![p] = "CACHE_ROOT_UNSAFE"]
        /\ UNCHANGED stage
  /\ pc' = [pc EXCEPT ![p] = "scrap"]
  /\ UNCHANGED <<dirVars, seenVars, blob>>

ScrapClaimed(p) ==
  /\ pc[p] = "scrap"
  /\ \/ /\ claimed' = [claimed EXCEPT ![p] = None]
        /\ IF out[p] = "none" THEN Goto(p, "mkdir") ELSE Die(p, out[p])
     \/ /\ "io" \in Faults
        /\ Die(p, "CACHE_ROOT_UNSAFE")
        /\ UNCHANGED claimed
  /\ UNCHANGED <<lock, ino, record, marker, crec, old, seenVars, stage, blob>>

-----------------------------------------------------------------------------
(* do_apply under the lock.                                                *)

\* A concurrent repair may have published meanwhile.
Recheck(p) ==
  /\ pc[p] = "recheck"
  /\ IF blob = "valid"
       THEN /\ pc' = [pc EXCEPT ![p] = "clear"]
            /\ out' = [out EXCEPT ![p] = "REPAIR_UNNEEDED"]
       ELSE Goto(p, "stage")
  /\ UNCHANGED <<dirVars, seenVars, stage, blob>>

MakeStage(p) ==
  /\ pc[p] = "stage"
  /\ \/ stage' = [stage EXCEPT ![p] = "empty"] /\ Goto(p, "download")
     \/ "io" \in Faults /\ FailApply(p, "CACHE_ROOT_UNSAFE") /\ UNCHANGED stage
  /\ UNCHANGED <<dirVars, seenVars, blob>>

\* download_archive: curl bounds connection, duration, redirects and size.
Download(p) ==
  /\ pc[p] = "download"
  /\ \/ /\ stage[p] = "empty"
        /\ stage' = [stage EXCEPT ![p] = "archive"]
        /\ Goto(p, "verify")
     \/ /\ stage[p] # "empty" \/ "net" \in Faults
        /\ \E code \in {"DOWNLOAD_FAILED", "INTEGRITY"} : FailApply(p, code)
        /\ UNCHANGED stage
  /\ UNCHANGED <<dirVars, seenVars, blob>>

\* verify_archive, extract_member and verify_staged.
Verify(p) ==
  /\ pc[p] = "verify"
  /\ \/ /\ stage[p] = "archive"
        /\ stage' = [stage EXCEPT ![p] = "verified"]
        /\ Goto(p, "publish")
     \/ /\ stage[p] # "archive" \/ {"net", "io"} \cap Faults # {}
        /\ \E code \in {"INTEGRITY", "CACHE_ROOT_UNSAFE"} : FailApply(p, code)
        /\ UNCHANGED stage
  /\ UNCHANGED <<dirVars, seenVars, blob>>

\* publish_blob: a destination mv would treat as a directory goes first.
ClearDestination(p) ==
  /\ pc[p] = "publish"
  /\ \/ blob' = (IF blob = "nonregular" THEN "missing" ELSE blob) /\ Goto(p, "move")
     \/ "io" \in Faults /\ FailApply(p, "CACHE_ROOT_UNSAFE") /\ UNCHANGED blob
  /\ UNCHANGED <<dirVars, seenVars, stage>>

\* mv -f staged blob: a rename, or a move into a directory that came back.
MoveStaged(p) ==
  /\ pc[p] = "move"
  /\ \/ /\ stage[p] = "verified"
        /\ stage' = [stage EXCEPT ![p] = "empty"]
        /\ blob' = IF blob = "nonregular" THEN blob ELSE "valid"
        /\ Goto(p, "reverify")
     \/ /\ stage[p] # "verified" \/ "io" \in Faults
        /\ FailApply(p, "CACHE_ROOT_UNSAFE")
        /\ UNCHANGED <<stage, blob>>
  /\ UNCHANGED <<dirVars, seenVars>>

\* assess_blob again; bytes that fail it are unlinked (rm -f spares a directory).
ReverifyBlob_StaleStatus(p) ==
  /\ pc[p] = "reverify"
  /\ pc' = [pc EXCEPT ![p] = "unlink"]
  /\ UNCHANGED <<dirVars, seenVars, stage, blob, out>>

ReverifyBlob(p) ==
  /\ pc[p] = "reverify"
  /\ \/ /\ blob = "valid"
        /\ pc' = [pc EXCEPT ![p] = "tidy"]
        /\ out' = [out EXCEPT ![p] = "REPAIR_APPLIED"]
        /\ UNCHANGED blob
     \/ /\ blob # "valid"
        /\ pc' = [pc EXCEPT ![p] = "unlink"]
        /\ UNCHANGED <<blob, out>>
  /\ UNCHANGED <<dirVars, seenVars, stage>>

UnlinkBlob(p) ==
  /\ pc[p] = "unlink"
  /\ \/ blob' = IF blob = "nonregular" THEN blob ELSE "missing"
     \/ "io" \in Faults /\ UNCHANGED blob
  /\ FailApply(p, "INTEGRITY")
  /\ UNCHANGED <<dirVars, seenVars, stage>>

\* rm -rf of the staging after publication, and in fail_apply.
TidyStage(p) ==
  /\ pc[p] \in {"tidy", "abort"}
  /\ pc' = [pc EXCEPT ![p] = "clear"]
  /\ \/ stage' = [stage EXCEPT ![p] = "none"] /\ UNCHANGED out
     \/ /\ "io" \in Faults
        /\ UNCHANGED stage
        /\ out' = IF pc[p] = "tidy" THEN [out EXCEPT ![p] = "CACHE_ROOT_UNSAFE"]
                                    ELSE out
  /\ UNCHANGED <<dirVars, seenVars, blob>>

(* release_lock: rm -rf $lock_dir empties the directory at the path, then  *)
(* removes it unless somebody put an entry there in between.               *)
ClearLock(p) ==
  /\ pc[p] = "clear"
  /\ IF lock = None
       THEN UNCHANGED <<record, marker, crec, old>>
       ELSE /\ record' = [record EXCEPT ![lock] = None]
            /\ marker' = [marker EXCEPT ![lock] = None]
            /\ crec' = [crec EXCEPT ![lock] = {}]
            /\ Touch(lock)
  /\ Goto(p, "rmdir")
  /\ UNCHANGED <<lock, ino, claimed, seenVars, stage, blob>>

LockEmpty == lock # None => /\ record[lock] = None
                            /\ marker[lock] = None
                            /\ crec[lock] = {}

RemoveLock_FailureIgnored(p) ==
  /\ pc[p] = "rmdir"
  /\ lock' = IF LockEmpty THEN None ELSE lock
  /\ Die(p, out[p])
  /\ UNCHANGED <<ino, record, marker, crec, old, claimed, seenVars, stage, blob>>

RemoveLock(p) ==
  /\ pc[p] = "rmdir"
  /\ \/ LockEmpty /\ lock' = None /\ Die(p, out[p])
     \/ /\ ~LockEmpty \/ "io" \in Faults
        /\ Die(p, IF out[p] \in Success THEN "CACHE_ROOT_UNSAFE" ELSE out[p])
        /\ UNCHANGED lock
  /\ UNCHANGED <<ino, record, marker, crec, old, claimed, seenVars, stage, blob>>

-----------------------------------------------------------------------------
(* The environment. *)

\* A run is killed; the shell installs no trap, so nothing is cleaned up.
Crash(p) ==
  /\ "crash" \in Faults
  /\ Active(p)
  /\ pc' = [pc EXCEPT ![p] = "crashed"]
  /\ UNCHANGED <<dirVars, seenVars, stage, blob, out>>

(* The grace passes.  Unless "slow" is a fault, a run spends less than the *)
(* grace between mkdir and the record's rename, between emptying and       *)
(* removing its directory, and between finding no record and asking how    *)
(* old the directory is: what it then finds old was old when it looked.    *)
InRecordlessWindow(d) ==
  \/ Active(d) /\ record[d] = None
  \/ \E p \in Proc : pc[p] \in {"ident", "judge"} /\ rec[p] = None

Age(d) ==
  /\ lock = d
  /\ ~old[d]
  /\ "slow" \in Faults \/ ~InRecordlessWindow(d)
  /\ old' = [old EXCEPT ![d] = TRUE]
  /\ UNCHANGED <<lock, ino, record, marker, crec, claimed, seenVars,
                 stage, blob, pc, out>>

\* Something outside custody damages the blob.
Tamper ==
  /\ "tamper" \in Faults
  /\ blob' \in BlobState \ {"valid", blob}
  /\ UNCHANGED <<dirVars, seenVars, stage, pc, out>>

\* The approved removal of an abandoned .reclaim-claim, no repair being active.
HumanRemovesMarker ==
  /\ LockMarker # None
  /\ \E p \in Proc : out[p] = "CACHE_ROOT_UNSAFE"
  /\ \A p \in Proc : ~Active(p)
  /\ marker' = [marker EXCEPT ![lock] = None]
  /\ Touch(lock)
  /\ UNCHANGED <<lock, ino, record, crec, claimed, seenVars, stage, blob, pc, out>>

\* The operations of one run.
Step(p) ==
  \/ MkdirOk(p) \/ MkdirFails(p) \/ PublishRecord(p) \/ CheckExists(p)
  \/ ReadRecord(p) \/ ReadIdentity(p) \/ Judge(p)
  \/ WriteClaim(p) \/ Claim(p) \/ ClaimFails(p) \/ ClaimLost(p)
  \/ DropClaimRecord(p) \/ RereadRecord(p) \/ CompareIdentity(p)
  \/ RemoveMarker(p) \/ AbandonClaim(p)
  \/ Rename(p) \/ SweepStaging(p) \/ ScrapClaimed(p)
  \/ Recheck(p) \/ MakeStage(p) \/ Download(p) \/ Verify(p)
  \/ ClearDestination(p) \/ MoveStaged(p) \/ ReverifyBlob(p) \/ UnlinkBlob(p)
  \/ TidyStage(p) \/ ClearLock(p) \/ RemoveLock(p)

Environment == (\E p \in Proc : Crash(p) \/ Age(p)) \/ Tamper \/ HumanRemovesMarker

Next == (\E p \in Proc : Start(p) \/ Step(p)) \/ Environment

Spec == Init /\ [][Next]_vars

\* The operating system schedules a started run until it ends or is killed.
FairSpec == Spec /\ \A p \in Proc : WF_vars(Step(p))

-----------------------------------------------------------------------------
(* What the lock promises. *)

\* A run between its mkdir and the end of its release finds its own directory
\* at $lock_dir, so two runs never repair at once: no operation on the path
\* (record, rm -rf) reaches a lock somebody else holds.
LockOwned == \A p \in Proc : Holding(p) => lock = p

\* Never reclaim a live writer: the directory of a run that is still under way
\* leaves $lock_dir only by that run's own release.
OnlyOwnerReleases ==
  [][\A d \in Proc : (lock = d /\ Active(d) /\ lock' # d) => pc[d] = "rmdir"]_vars

\* At most one run is between a confirmed identity and the rename, and the
\* directory it is about to rename is a dead writer's, claimed by that run.
RenameConfirmed ==
  \A p \in Proc : pc[p] = "rename" =>
     /\ lock # None
     /\ ~Active(lock)
     /\ marker[lock] = p

\* Reclaiming removes the staging of dead writers only.
LiveStagingKept ==
  [][\A q \in Proc : (Active(q) /\ stage[q] # "none" /\ stage'[q] = "none")
                       => pc[q] \in {"tidy", "abort"}]_vars

\* No operation of a repair, and above all not the removal of bytes that failed
\* re-verification, ever takes a verified runtime away from the blob path.
ValidBlobKept == [][(blob = "valid" /\ blob' # "valid") => UNCHANGED pc]_vars

\* A reported success left nothing behind: no lock, staging or reclaim debris
\* of that run, and a verified runtime unless something outside damaged it.
HonestSuccess ==
  \A p \in Proc : out[p] \in Success /\ pc[p] = "done" =>
     /\ lock # p
     /\ stage[p] = "none"
     /\ claimed[p] = None
     /\ "tamper" \notin Faults => blob = "valid"

\* Contention alone never makes every run give up: when the last one has ended
\* without the runtime being installed, the lock is the one left by a dead run,
\* and it has no record to judge it by, carries a claim that a run reported as
\* abandoned, or is (or is claimed by) another host's and no approved run was made.
RepairConverges ==
  (/\ \A p \in Proc : ~Active(p)
   /\ \E p \in Proc : pc[p] = "done"
   /\ blob # "valid")
  => /\ lock \in Fallen
     /\ \/ record[lock] = None
        \/ \E p \in Proc : out[p] = "CACHE_ROOT_UNSAFE"
        \/ /\ \/ \E p \in Proc : out[p] = "FOREIGN_LOCK_REQUIRES_APPROVAL"
              \/ /\ marker[lock] # None
                 /\ \E p \in Proc : HostOf[p] # HostOf[marker[lock]]
           /\ \A p \in Approved : pc[p] # "done"

\* Every run ends: the attempts are bounded and nothing waits for the lock.
RunsEnd == \A p \in Proc : Active(p) ~> ~Active(p)

-----------------------------------------------------------------------------
(* Why the lock is safe: an inductive invariant, for a file system that does *)
(* not reuse inodes and runs that respect the grace.                         *)
Steady == "slow" \notin Faults /\ "reuse" \notin Faults

Ended(d) == pc[d] \in {"done", "crashed"}

\* Every run creates at most one directory, under an inode of its own, and
\* writes no name but its own into the record there.
DirectoryInv ==
  /\ lock # None => ino[lock] # None
  /\ \A d \in Proc : pc[d] \in ContendPc \cup {"idle"} => ino[d] = None
  /\ \A d, e \in Proc : ino[d] = ino[e] /\ ino[d] # None => d = e
  /\ \A d \in Proc : record[d] # None => record[d] = d /\ ino[d] # None
  /\ \A p \in Proc : rec[p] # None => ino[rec[p]] # None

\* A lock seen without a record that is old enough to be judged is a dead
\* run's, and it is the one whose inode was taken down.
GraceInv ==
  /\ lock # None => (old[lock] /\ Active(lock) => record[lock] # None)
  /\ \A p \in Proc :
       /\ pc[p] = "judge" => erec[p] = rec[p]
       /\ (pc[p] \in {"ident", "judge"} /\ rec[p] = None /\ lock # None)
            => /\ old[lock] => ~Active(lock)
               /\ (old[lock] /\ pc[p] = "judge") => ino[lock] = eino[p]

ForeignInv ==
  \A p, q \in Proc :
    Active(p) /\ Active(q) /\ HostOf[p] # HostOf[q] => p \notin Approved

\* The directory that the identity taken down by p stands for.
Target(p, d) ==
  IF erec[p] # None THEN d = erec[p] ELSE eino[p] # None /\ ino[d] = eino[p]

\* What p judged dead has ended; once p has claimed that very directory the
\* claim stays p's, and a record read under it is still there.
ClaimInv ==
  \A p \in Proc :
    /\ pc[p] \in {"write", "claim", "drop", "reread", "reident"}
         => \E d \in Proc : Target(p, d) /\ Ended(d)
    /\ (pc[p] \in {"drop", "reread", "reident"} /\ lock # None)
         => (Target(p, lock) => marker[lock] = p)
    /\ (pc[p] = "reident" /\ rec[p] # None /\ rec[p] = erec[p]) => lock = rec[p]

\* The invariant the proofs of RuntimeCustodyProofs are by induction on.
LockInv ==
  /\ LockOwned
  /\ RenameConfirmed
  /\ DirectoryInv
  /\ GraceInv
  /\ ForeignInv
  /\ ClaimInv

-----------------------------------------------------------------------------
(* The abstract store: see RuntimeStore. *)
Holder ==
  IF \E p \in Proc : Holding(p) THEN CHOOSE p \in Proc : Holding(p) ELSE None

Store == INSTANCE RuntimeStore WITH holder <- Holder
StoreSpec == Store!Spec
=============================================================================
