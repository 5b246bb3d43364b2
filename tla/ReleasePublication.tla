-------------------------- MODULE ReleasePublication --------------------------
(***************************************************************************)
(* The publication of one version by the Release workflow                  *)
(* (.github/workflows/release.yml) and the admission it replays before it  *)
(* changes anything (scripts/release-validate.ts).  A run publishes the    *)
(* candidate that was pushed, resumes one that was stranded before its     *)
(* tag, or repairs an incomplete publication at its tag.  Any of its jobs  *)
(* may fail, be cancelled, and be run again, alone or with all the others; *)
(* only the release jobs of one tag exclude each other.                    *)
(*                                                                         *)
(* The admission record is a function of the candidate and stands for it.  *)
(* The bytes of a package depend on its commit and on the toolchain of the *)
(* runner.  The repository is public; its ruleset forbids moving or        *)
(* deleting a version tag, but not making one by hand.  Nobody else changes*)
(* the Release while a release job runs.                                   *)
(***************************************************************************)
CONSTANTS
  Candidate,  \* merged Release Please pull requests of the version
  Job,        \* runs of the workflow
  Toolchain,
  None

VARIABLES
  tag,        \* the version's tag: its commit and the record it carries
  records,    \* the admissions persisted as artifacts that have not expired
  release,    \* the GitHub Release, or None
  labels,     \* those of each release pull request
  tool,       \* the toolchain the runners have by now
  run,        \* what each run of the workflow knows
  group       \* the run whose release job holds the tag's concurrency group

world == <<tag, records, release, labels, tool>>
publicationVars ==
  <<tag, records, release, labels, tool, run, group>>

Asset == {"archive", "checksums"}
Distribution == [commit : Candidate, tool : Toolchain]
Tagged == [commit : Candidate, record : Candidate \cup {None}]
Release == [target : Candidate, asset : [Asset -> Distribution \cup {None}], extra : BOOLEAN]
Label == {"pending", "both", "tagged"}

\* The steps of the resolve job, the candidate and package jobs, and the steps of the
\* release job.
ReleaseStep == {"replay", "tag", "create", "compare", "upload", "attest", "label",
                "unlabel", "completed"}
Step == {"resolve", "persist", "candidate", "package", "queued"} \cup ReleaseStep

Run == [mode : {"publish", "resume", "repair"},
        replace : BOOLEAN,                    \* replace_mismatched_assets
        narrowed : BOOLEAN,                   \* a path is off the workflow's allowlist by now
        of : Candidate \cup {None},
        built : Distribution \cup {None},          \* what the candidate job packaged
        proven : Distribution \cup {None},         \* what the package job has proven
        todo : [Asset -> {"keep", "add", "replace"}],
        at : Step \cup {"failed", "succeeded"},
        from : {"resolve", "candidate", "package", "queued"}] \* the job that failed

PublicationTypeOK ==
  /\ tag \in Tagged \cup {None}
  /\ records \subseteq Candidate
  /\ release \in Release \cup {None}
  /\ labels \in [Candidate -> Label]
  /\ tool \in Toolchain
  /\ run \in [Job -> Run \cup {None}]
  /\ group \in Job \cup {None}

PublicationInit ==
  /\ tag = None
  /\ records = {}
  /\ release = None
  /\ labels = [c \in Candidate |-> "pending"]
  /\ tool \in Toolchain
  /\ run = [j \in Job |-> None]
  /\ group = None
-----------------------------------------------------------------------------
At(j, step) == run[j] # None /\ run[j].at = step
Repairs(j) == run[j].mode = "repair"
Holds(j) == run[j].at \in ReleaseStep

Knows(j, r) == run' = [run EXCEPT ![j] = r]
Goes(j, step) == Knows(j, [run[j] EXCEPT !.at = step])
Leaves(j) == group' = IF Holds(j) THEN None ELSE group

NoActions == [a \in Asset |-> "keep"]

\* What the jobs that succeeded have put out stays, for those that are run again.  A
\* job is run again from its first step.
Fails_AtStep(j) ==
  /\ Knows(j, [run[j] EXCEPT !.at = "failed", !.todo = NoActions, !.from = run[j].at])
  /\ Leaves(j)
Fails(j) ==
  /\ Knows(j, [run[j] EXCEPT !.at = "failed", !.todo = NoActions,
                             !.from = CASE Holds(j) -> "queued"
                                        [] At(j, "persist") -> "resolve"
                                        [] OTHER -> run[j].at])
  /\ Leaves(j)

\* The push of a merged release pull request, or a dispatch on main.
Starts(j) ==
  /\ run[j] = None
  /\ \E m \in {"publish", "resume", "repair"}, c \in Candidate \cup {None},
        r \in BOOLEAN, n \in BOOLEAN :
       /\ (c = None) <=> (m = "repair")
       /\ r => m = "repair"
       /\ n => m = "resume"
       /\ Knows(j, [mode |-> m, replace |-> r, narrowed |-> n, of |-> c,
                    built |-> None, proven |-> None, todo |-> NoActions,
                    at |-> "resolve", from |-> "resolve"])
  /\ UNCHANGED <<world, group>>

(* The admission of a candidate.                                           *)

\* parsePublicationCandidateRecord.
Parses(record) == record # None

\* admitCandidate: one merged pull request of the expected identity whose record, as
\* GitHub's facts give it by now, is the prior one if there is one; files that are
\* allowed; and no tag.
AdmitCandidate(c, prior, allowed, tagExists) == allowed /\ ~tagExists /\ prior \in {None, c}

Persisted(c) == IF c \in records THEN c ELSE None

\* admitPublicationCandidate, which holds a resume to the allowlist of the current
\* workflow as well.
Admitted(j) == AdmitCandidate(run[j].of, Persisted(run[j].of), ~run[j].narrowed, tag # None)

\* validateResumeCandidateBinding, which does not.
Resumable(c) == Parses(Persisted(c)) /\ AdmitCandidate(c, Persisted(c), TRUE, tag # None)

\* validateRepairBinding: the tag is at the commit, and a Release targets it if there is one.
RepairBound(c) == tag.commit = c /\ (release # None => release.target = c)

\* validateRepairCandidateBinding, with the admission the tag carries.
Repairable(c) ==
  /\ tag # None
  /\ Parses(tag.record) /\ AdmitCandidate(c, tag.record, TRUE, FALSE)
  /\ RepairBound(c)

Resolve(j) ==
  /\ At(j, "resolve")
  /\ CASE run[j].mode = "publish" ->
            IF Admitted(j)
            THEN /\ Goes(j, IF run[j].of \in records THEN "candidate" ELSE "persist")
                 /\ UNCHANGED group
            ELSE Fails(j)
       [] run[j].mode = "resume" ->
            IF Resumable(run[j].of) THEN Goes(j, "candidate") /\ UNCHANGED group ELSE Fails(j)
       [] run[j].mode = "repair" ->
            \/ ~(\E c \in Candidate : Repairable(c)) /\ Fails(j)
            \/ \E c \in Candidate :
                 /\ Repairable(c)
                 /\ Knows(j, [run[j] EXCEPT !.of = c, !.at = "candidate"])
                 /\ UNCHANGED group
  /\ UNCHANGED world

Persist(j) ==
  /\ At(j, "persist")
  /\ records' = records \cup {run[j].of}
  /\ Goes(j, "candidate")
  /\ UNCHANGED <<tag, release, labels, tool, group>>

Built(j) == [commit |-> run[j].of, tool |-> tool]

BuildCandidate(j) ==
  /\ At(j, "candidate")
  /\ Knows(j, [run[j] EXCEPT !.built = Built(j), !.at = "package"])
  /\ UNCHANGED <<world, group>>

\* After the compatibility jobs, which a repair skips, the package is built again, and
\* must come out byte for byte the same.
ProvePackage(j) ==
  /\ At(j, "package")
  /\ IF Built(j) = run[j].built
     THEN /\ Knows(j, [run[j] EXCEPT !.proven = run[j].built, !.built = None,
                                     !.at = "queued"])
          /\ UNCHANGED group
     ELSE Fails(j)
  /\ UNCHANGED world
-----------------------------------------------------------------------------
(* The release job.                                                        *)

\* One release job of a tag at a time, after the approval of its environment.
Enters_Alone(j) == At(j, "queued")
Enters(j) == At(j, "queued") /\ group = None

Enter(j) ==
  /\ Enters(j)
  /\ Goes(j, "replay")
  /\ group' = j
  /\ UNCHANGED world

\* The record is fetched, from the tag or the artifact, and the admission replayed.
Replays(j) ==
  IF Repairs(j) THEN Repairable(run[j].of)
  ELSE Parses(Persisted(run[j].of)) /\ Admitted(j)

Replay(j) ==
  /\ At(j, "replay")
  /\ IF Replays(j) THEN Goes(j, "tag") /\ UNCHANGED group ELSE Fails(j)
  /\ UNCHANGED world

\* Git refuses to push over a tag that appeared in between.
CreateTag(j) ==
  LET own == [commit |-> run[j].of, record |-> run[j].of]
  IN /\ At(j, "tag")
     /\ CASE tag = own -> Goes(j, "create") /\ UNCHANGED <<tag, group>>
          [] tag = None /\ ~Repairs(j) -> tag' = own /\ Goes(j, "create") /\ UNCHANGED group
          [] OTHER -> Fails(j) /\ UNCHANGED tag
     /\ UNCHANGED <<records, release, labels, tool>>

EmptyRelease(c) ==
  [target |-> c, asset |-> [a \in Asset |-> None], extra |-> FALSE]

CreateRelease(j) ==
  /\ At(j, "create")
  /\ release' = IF release = None THEN EmptyRelease(run[j].of) ELSE release
  /\ IF release'.target = run[j].of THEN Goes(j, "compare") /\ UNCHANGED group ELSE Fails(j)
  /\ UNCHANGED <<tag, records, labels, tool>>

Mismatched_ByName(j, a) == FALSE
Mismatched(j, a) == release.asset[a] \notin {None, run[j].proven}

Compares(j) ==
  /\ release # None
  /\ ~release.extra
  /\ (\E a \in Asset : Mismatched(j, a)) => Repairs(j) /\ run[j].replace

AssetActions(j) ==
  [a \in Asset |-> CASE release.asset[a] = None -> "add"
                     [] Mismatched(j, a) -> "replace"
                     [] OTHER -> "keep"]

Proceeds(j, todo) ==
  Knows(j, [run[j] EXCEPT !.todo = todo,
                          !.at = IF todo = NoActions THEN "attest" ELSE "upload"])

CompareAssets(j) ==
  /\ At(j, "compare")
  /\ IF Compares(j) THEN Proceeds(j, AssetActions(j)) /\ UNCHANGED group ELSE Fails(j)
  /\ UNCHANGED world

\* The archive before the checksums.
Upcoming(j) == IF run[j].todo["archive"] # "keep" THEN "archive" ELSE "checksums"

UploadAsset(j) ==
  /\ At(j, "upload") /\ release # None
  /\ release' = [release EXCEPT !.asset[Upcoming(j)] = run[j].proven]
  /\ Proceeds(j, [run[j].todo EXCEPT ![Upcoming(j)] = "keep"])
  /\ UNCHANGED <<tag, records, labels, tool, group>>

\* The attestation of the archive is added if there is none.  Attestations stay, and no
\* other step reads one.
Attest(j) ==
  /\ At(j, "attest")
  /\ Goes(j, "label")
  /\ UNCHANGED <<world, group>>

AddLabel(j) ==
  /\ At(j, "label")
  /\ labels' = [labels EXCEPT ![run[j].of] = IF @ = "pending" THEN "both" ELSE @]
  /\ Goes(j, "unlabel")
  /\ UNCHANGED <<tag, records, release, tool, group>>

RemoveLabel(j) ==
  /\ At(j, "unlabel")
  /\ labels' = [labels EXCEPT ![run[j].of] = IF @ = "both" THEN "tagged" ELSE @]
  /\ IF labels'[run[j].of] = "tagged" THEN Goes(j, "completed") /\ UNCHANGED group
     ELSE Fails(j)
  /\ UNCHANGED <<tag, records, release, tool>>

Converge(j) ==
  /\ At(j, "completed")
  /\ Knows(j, [run[j] EXCEPT !.at = "succeeded", !.proven = None,
                             !.of = IF Repairs(j) THEN None ELSE @])
  /\ Leaves(j)
  /\ UNCHANGED world
-----------------------------------------------------------------------------
\* A job fails or is cancelled at any step; an asset that was being replaced may
\* be gone, its successor not yet there.
Breaks(j) ==
  /\ run[j] # None /\ run[j].at \notin {"failed", "succeeded"}
  /\ Fails(j)
  /\ release' \in {release} \cup
       IF At(j, "upload") /\ release # None /\ run[j].todo[Upcoming(j)] = "replace"
       THEN {[release EXCEPT !.asset[Upcoming(j)] = None]} ELSE {}
  /\ UNCHANGED <<tag, records, labels, tool>>

\* All jobs are run again, or those that failed, on what the others had put out.
Rerun(j) ==
  /\ run[j] # None /\ run[j].at \in {"failed", "succeeded"}
  /\ \/ Knows(j, [run[j] EXCEPT !.at = "resolve", !.from = "resolve",
                                !.built = None, !.proven = None,
                                !.of = IF Repairs(j) THEN None ELSE @])
     \/ /\ run[j].at = "failed"
        /\ Knows(j, [run[j] EXCEPT !.at = run[j].from, !.from = "resolve"])
  /\ UNCHANGED <<world, group>>

\* By hand, with the admission of its commit or without.
MakesTag ==
  /\ tag = None
  /\ \E c \in Candidate, r \in BOOLEAN :
       tag' = [commit |-> c, record |-> IF r THEN c ELSE None]
  /\ UNCHANGED <<records, release, labels, tool, run, group>>

\* Somebody makes a Release, deletes it or one of its assets, or adds one.
ChangesRelease ==
  /\ tag # None /\ group = None
  /\ \/ release' = None
     \/ release = None /\ release' \in {EmptyRelease(c) : c \in Candidate}
     \/ /\ release # None
        /\ \/ release' = [release EXCEPT !.extra = ~@]
           \/ \E a \in Asset : release' = [release EXCEPT !.asset[a] = None]
  /\ UNCHANGED <<tag, records, labels, tool, run, group>>

\* Records expire, and the runners' toolchain moves on.
Passes ==
  /\ \/ \E c \in records : records' = records \ {c} /\ UNCHANGED tool
     \/ tool' \in Toolchain \ {tool} /\ UNCHANGED records
  /\ UNCHANGED <<tag, release, labels, run, group>>

PublicationNext ==
  \/ \E j \in Job :
       \/ Starts(j) \/ Resolve(j) \/ Persist(j) \/ BuildCandidate(j)
       \/ ProvePackage(j) \/ Enter(j) \/ Replay(j) \/ CreateTag(j) \/ CreateRelease(j)
       \/ CompareAssets(j) \/ UploadAsset(j) \/ Attest(j) \/ AddLabel(j)
       \/ RemoveLabel(j) \/ Converge(j) \/ Breaks(j) \/ Rerun(j)
  \/ MakesTag \/ ChangesRelease \/ Passes

PublicationSpec == PublicationInit /\ [][PublicationNext]_publicationVars
-----------------------------------------------------------------------------
\* A run whose release job completes has published what it proved and nothing else
\* (docs/release-repair.md): the immutable tag is at its candidate and carries that
\* candidate's admission, the Release targets it and holds the two proven assets,
\* and the pull request's lineage has moved on; however many runs were at it, wherever
\* earlier ones had stopped, and whatever tag, Release or toolchain they found.
PublishedExact ==
  \A j \in Job :
    At(j, "completed") =>
      LET r == run[j]
      IN /\ r.proven.commit = r.of
         /\ tag = [commit |-> r.of, record |-> r.of]
         /\ release = [target |-> r.of, asset |-> [a \in Asset |-> r.proven], extra |-> FALSE]
         /\ labels[r.of] = "tagged"
=============================================================================
