---------------------------- MODULE HostedCanary ----------------------------
(***************************************************************************)
(* `ship:canary --execute` (scripts/ship-canary.ts): publish one source    *)
(* commit, and the sanitized public commit derived from it, to two canary  *)
(* repositories under refs named for the commits, wait for the hosted proof*)
(* of the public one, install both through the native clients and compare. *)
(*                                                                         *)
(* Several qualifications of the same source may run at once, each may be  *)
(* cancelled anywhere and started again, and every command may fail with or*)
(* without its effect.  Other people write to the repositories.  The       *)
(* sanitized commit is deterministic, so the candidates are the same for   *)
(* all of them.                                                            *)
(*                                                                         *)
(* Commits are told from the bytes they carry: a twin is another commit    *)
(* with the candidate's plugin, which nothing that looks at bytes can tell *)
(* from the candidate.                                                     *)
(***************************************************************************)
CONSTANT Qualification \* the qualifications of the source, each of them run again and again

Target == {"public", "private"}
Client == {"claude", "codex"}

VARIABLES
  derived,   \* whether the sanitized commit carries the plugin the source packages
  repo,      \* whether each canary repository exists, and with the right visibility
  ref,       \* what its candidate ref names: nothing, the candidate, another commit,
             \* or a twin of the candidate
  hosted,    \* the latest hosted run of the public candidate
  passed,    \* history: one of them succeeded
  stage,     \* the next step of each qualification
  found,     \* what it knows of each target
  got        \* the bytes each native client installed from each target

canaryVars == <<derived, repo, ref, hosted, passed, stage, found, got>>

\* The steps at one target.
At(name, t) == <<name, t>>
PerTarget == {"visibility", "ref", "publish", "clone", "claude", "codex", "package"}
Stage == (PerTarget \X Target) \cup {<<"idle">>, <<"wait">>, <<"bind">>, <<"qualified">>}
Found == {"unknown", "repository-missing", "missing", "current"}
Versions == {"candidate", "twin", "another"}
Payload == {"source", "altered", "foreign"}

CanaryTypeOK ==
  /\ derived \in BOOLEAN
  /\ repo \in [Target -> {"absent", "proper", "wrong"}]
  /\ ref \in [Target -> {"none"} \cup Versions]
  /\ hosted \in {"none", "running", "success", "failure"}
  /\ passed \in BOOLEAN
  /\ stage \in [Qualification -> Stage]
  /\ found \in [Qualification -> [Target -> Found]]
  /\ got \in [Qualification -> [Target -> [Client -> {"none"} \cup Payload]]]

Nothing == [t \in Target |-> [c \in Client |-> "none"]]

CanaryInit ==
  /\ derived \in BOOLEAN
  /\ repo \in [Target -> {"absent", "proper", "wrong"}]
  /\ ref = [t \in Target |-> "none"]
  /\ hosted = "none" /\ passed = FALSE
  /\ stage = [q \in Qualification |-> <<"idle">>]
  /\ found = [q \in Qualification |-> [t \in Target |-> "unknown"]]
  /\ got = [q \in Qualification |-> Nothing]
-----------------------------------------------------------------------------
Goes(q, s) == stage' = [stage EXCEPT ![q] = s]
Finds(q, t, f) == found' = [found EXCEPT ![q][t] = f]
Remote == <<derived, repo, ref, hosted, passed>>

Begins(q) ==
  /\ stage[q] \in {<<"idle">>, <<"qualified">>}
  /\ Goes(q, At("visibility", "public"))
  /\ found' = [found EXCEPT ![q] = [t \in Target |-> "unknown"]]
  /\ got' = [got EXCEPT ![q] = Nothing]
  /\ UNCHANGED Remote

\* Any refusal, failure, deadline or cancellation: nothing is undone.
Stops(q) ==
  /\ stage[q] \notin {<<"idle">>, <<"qualified">>}
  /\ Goes(q, <<"idle">>)
  /\ found' = [found EXCEPT ![q] = [t \in Target |-> "unknown"]]
  /\ got' = [got EXCEPT ![q] = Nothing]
  /\ UNCHANGED Remote

\* buildTargets, one target after the other.  A repository that cannot be read is
\* taken for one that is not there; one of the wrong visibility refuses.
ReadVisibility(q, t) ==
  /\ stage[q] = At("visibility", t)
  /\ \/ repo[t] = "proper" /\ Finds(q, t, "missing") /\ Goes(q, At("ref", t))
     \/ /\ Finds(q, t, "repository-missing")
        /\ Goes(q, IF t = "public" THEN At("visibility", "private") ELSE At("publish", "public"))
  /\ UNCHANGED <<Remote, got>>

\* proveCandidateRef, admitCandidateRef: another commit refuses.
AdmitsRef(t) == ref[t] \in {"none", "candidate"}

ReadRef(q, t) ==
  /\ stage[q] = At("ref", t)
  /\ AdmitsRef(t)
  /\ Finds(q, t, IF ref[t] = "none" THEN "missing" ELSE "current")
  /\ Goes(q, IF t = "public" THEN At("visibility", "private") ELSE At("publish", "public"))
  /\ UNCHANGED <<Remote, got>>

AfterPublish(t) == IF t = "public" THEN At("publish", "private") ELSE <<"wait">>

AlreadyCurrent(q, t) ==
  /\ stage[q] = At("publish", t) /\ found[q][t] = "current"
  /\ Goes(q, AfterPublish(t))
  /\ UNCHANGED <<Remote, found, got>>

\* createTarget: a repository that turns out to be there refuses.
Creatable_Any(t) == TRUE
Creatable(t) == repo[t] = "absent"

CreateTarget(q, t) ==
  /\ stage[q] = At("publish", t) /\ found[q][t] = "repository-missing"
  /\ Creatable(t)
  /\ repo' = [repo EXCEPT ![t] = IF @ = "absent" THEN "proper" ELSE @]
  /\ \/ Finds(q, t, "missing") /\ UNCHANGED stage
     \/ UNCHANGED found /\ Goes(q, <<"idle">>)
  /\ UNCHANGED <<derived, ref, hosted, passed, got>>

\* The push is admitted only onto a ref that is not there.
Leased_Forced(t) == repo[t] # "absent"
Leased(t) == repo[t] # "absent" /\ ref[t] = "none"

Push(q, t) ==
  /\ stage[q] = At("publish", t) /\ found[q][t] = "missing"
  /\ Leased(t)
  /\ ref' = [ref EXCEPT ![t] = "candidate"]
  /\ hosted' = IF t = "public" THEN "running" ELSE hosted
  /\ Goes(q, AfterPublish(t)) \/ UNCHANGED stage
  /\ UNCHANGED <<derived, repo, passed, found, got>>

\* A rejected push is looked at again: somebody may have published the same.
Raced(q, t) ==
  /\ stage[q] = At("publish", t) /\ found[q][t] = "missing"
  /\ ref[t] = "candidate"
  /\ Goes(q, AfterPublish(t))
  /\ UNCHANGED <<Remote, found, got>>

\* waitForRun: the latest run of this very commit, until the deadline.
HostedSucceeded_Completed == hosted \in {"success", "failure"}
HostedSucceeded == hosted = "success"

WaitForRun(q) ==
  /\ stage[q] = <<"wait">> /\ HostedSucceeded
  /\ Goes(q, At("clone", "public"))
  /\ UNCHANGED <<Remote, found, got>>

\* installCandidate: the clone must resolve to the candidate ...
Clone(q, t) ==
  /\ stage[q] = At("clone", t) /\ ref[t] = "candidate"
  /\ Goes(q, At("claude", t))
  /\ UNCHANGED <<Remote, found, got>>

\* The plugin a commit carries at a target.
Plugin(t, c) ==
  CASE c = "another" -> "foreign"
    [] c # "another" /\ t = "public" /\ ~derived -> "altered"
    [] OTHER -> "source"

\* ... and each native client fetches the ref for itself, whatever it names by then;
\* what it installed must have the files and the bytes of the clone.
SameBytes(t) == ref[t] # "none" /\ Plugin(t, ref[t]) = Plugin(t, "candidate")

Fetch(q, t, c, then) ==
  /\ stage[q] = At(c, t) /\ SameBytes(t)
  /\ got' = [got EXCEPT ![q][t][c] = Plugin(t, ref[t])]
  /\ Goes(q, At(then, t))
  /\ UNCHANGED <<Remote, found>>

FetchClaude(q, t) == Fetch(q, t, "claude", "codex")
FetchCodex(q, t) == Fetch(q, t, "codex", "package")

\* The clients must have installed the same, and the source is packaged again: its
\* package must have the bytes that were installed (lineageFromPackageEvidence).
Packaged_SameHash(q, t) == got[q][t]["claude"] = got[q][t]["codex"]
Packaged(q, t) == got[q][t]["claude"] = got[q][t]["codex"] /\ got[q][t]["claude"] = "source"

ProvePackage(q, t) ==
  /\ stage[q] = At("package", t) /\ Packaged(q, t)
  /\ Goes(q, IF t = "public" THEN At("clone", "private") ELSE <<"bind">>)
  /\ UNCHANGED <<Remote, found, got>>

\* bindTrustedPrivateRun looks at nothing that changes.
Bind(q) ==
  /\ stage[q] = <<"bind">>
  /\ Goes(q, <<"qualified">>)
  /\ UNCHANGED <<Remote, found, got>>
-----------------------------------------------------------------------------
(* What happens at the repositories meanwhile.                             *)

Runs == UNCHANGED <<stage, found, got>>

HostedRuns ==
  /\ \/ hosted = "running" /\ hosted' \in {"success", "failure"}
     \/ hosted \in {"success", "failure"} /\ hosted' = "running"
  /\ passed' = (passed \/ hosted' = "success")
  /\ UNCHANGED <<derived, repo, ref>> /\ Runs

SomebodyCreates(t) ==
  /\ repo[t] = "absent"
  /\ \E v \in {"proper", "wrong"} : repo' = [repo EXCEPT ![t] = v]
  /\ UNCHANGED <<derived, ref, hosted, passed>> /\ Runs

SomebodyWrites(t) ==
  /\ repo[t] # "absent"
  /\ \E c \in {"none", "twin", "another"} : ref' = [ref EXCEPT ![t] = c]
  /\ UNCHANGED <<derived, repo, hosted, passed>> /\ Runs

CanaryNext ==
  \/ \E q \in Qualification :
       \/ Begins(q) \/ Stops(q) \/ WaitForRun(q) \/ Bind(q)
       \/ \E t \in Target :
            \/ ReadVisibility(q, t) \/ ReadRef(q, t) \/ AlreadyCurrent(q, t)
            \/ CreateTarget(q, t) \/ Push(q, t) \/ Raced(q, t)
            \/ Clone(q, t) \/ FetchClaude(q, t) \/ FetchCodex(q, t) \/ ProvePackage(q, t)
  \/ HostedRuns
  \/ \E t \in Target : SomebodyCreates(t) \/ SomebodyWrites(t)

CanarySpec == CanaryInit /\ [][CanaryNext]_canaryVars
-----------------------------------------------------------------------------
(* Properties.                                                             *)

\* A source is only reported qualified when the hosted proof of its candidate has
\* succeeded and the plugin that each of the two native clients installed from each
\* of the two repositories is, to the byte, the one the source packages: whoever
\* wrote to the refs between the clone, the two installs and the package, and
\* whatever the derivation of the public commit did to the plugin.  It does not say
\* that the clients fetched the candidate: they may have fetched a twin of it.
QualifiedProven ==
  \A q \in Qualification : stage[q] = <<"qualified">> =>
    passed /\ \A t \in Target, c \in Client : got[q][t][c] = "source"

\* "Never replace, delete, or reuse candidate history": no qualification changes a
\* ref that is there, and it makes one only in a repository of the visibility that
\* was asked for, even when somebody else creates the repository between the look
\* and the push.
KeepsHistory ==
  \A t \in Target :
    /\ ref'[t] # ref[t]
    /\ stage # stage' \/ found # found' \/ ref'[t] = "candidate"
    => ref[t] = "none" /\ ref'[t] = "candidate" /\ repo[t] = "proper"

HistoryKept == [][KeepsHistory]_canaryVars
=============================================================================
