-------------------------- MODULE FrontierReceipt --------------------------
(***************************************************************************)
(* The private receipt of one bounded run of Frontier Runner               *)
(* (packages/frontier-runner/src/main.ts): its shape, and the test every   *)
(* command puts it to when it reads it back.  Hashes stand for what they   *)
(* are hashes of: a result hash is the contents of the result file, a      *)
(* candidate hash the contents of the whole workspace, a marker hash is    *)
(* present or absent.  Times and identifiers that never change are left    *)
(* out.                                                                    *)
(***************************************************************************)
EXTENDS Naturals

CONSTANTS
  None,     \* a field that is absent
  Result,   \* contents of the result file; 0 before the run
  Rest,     \* contents of the rest of the workspace
  Pane,     \* identifiers Herdr gives to panes
  Session   \* sessions of the recognised Controller

ASSUME ResultAssumption == Result \subseteq Nat /\ 0 \in Result
Role == {"editor", "browser", "worker", "reviewer"}
RunRole == Role \ {"reviewer"}

RunEffect == {"editorPane", "editorLaunch", "browserPane", "browserLaunch",
              "workerPane", "workerStart", "promptDispatch"}
ReviewEffect == {"reviewerPane", "reviewerStart", "reviewPromptDispatch"}
CloseEffect == {"reviewerPaneClose", "workerPaneClose", "browserPaneClose",
                "editorPaneClose"}
WaitEffect == {"resumeWait", "repairWait", "reviewWait"}
EffectName == RunEffect \cup ReviewEffect \cup CloseEffect \cup WaitEffect \cup
  {"responseDispatch", "decisionRecord", "repairPromptDispatch",
   "repairResponseDispatch", "cleanupComplete"}

Outcome == {"absent", "planned", "unknown", "succeeded", "timed_out", "failed"}

RepairState == {"repair_starting", "repair_timed_out", "repair_blocked",
                "repair_responded", "repair_unproved"}
ReviewState == {"review_starting", "review_timed_out", "review_unproved"}
RunState == RepairState \cup ReviewState \cup
  {"prepared", "starting", "timed_out", "blocked", "responded",
   "settled_unproved", "completed", "reviewed", "review_breached",
   "decision_starting", "decided", "repaired", "cleanup_pending", "cleaned",
   "failed"}

Verdict == {"approve", "request_changes", "reject"}
Candidate == [result : Result, rest : Rest]

Receipt ==
  [state : RunState,
   effects : [EffectName -> Outcome],
   pane : [Role -> Pane \cup {None}],
   response : BOOLEAN,
   obs : [status : {None, "idle", "blocked"}, result : Result \cup {None},
          marked : BOOLEAN],
   review : [before : Candidate \cup {None}, after : Candidate \cup {None},
             verdict : Verdict \cup {None}],
   decision : [candidate : Candidate \cup {None}, session : Session \cup {None},
               recorded : BOOLEAN],
   repair : [before : Candidate \cup {None}, after : Candidate \cup {None},
             result : Result \cup {None}, marked : BOOLEAN,
             status : {None, "idle", "blocked"}, responded : BOOLEAN,
             session : Session \cup {None}]]

\* A field or a file that is absent is none of what may be there.
ASSUME NoneAssumption ==
  /\ None \notin Result \cup Rest \cup Pane \cup Session
  /\ None \notin Candidate \cup Verdict \cup EffectName
  /\ None \notin Receipt

\* The receipt `run` creates before it touches anything.
Fresh ==
  [state |-> "prepared",
   effects |-> [e \in EffectName |-> IF e \in RunEffect THEN "planned" ELSE "absent"],
   pane |-> [role \in Role |-> None],
   response |-> FALSE,
   obs |-> [status |-> None, result |-> None, marked |-> FALSE],
   review |-> [before |-> None, after |-> None, verdict |-> None],
   decision |-> [candidate |-> None, session |-> None, recorded |-> FALSE],
   repair |-> [before |-> None, after |-> None, result |-> None, marked |-> FALSE,
               status |-> None, responded |-> FALSE, session |-> None]]

HasReview(r) == r.review.before # None
HasDecision(r) == r.decision.candidate # None
HasRepair(r) == r.repair.before # None

EffectIs(r, e, outcomes) == r.effects[e] \in outcomes

\* unknownEffect finds nothing, apart from the effects the caller ignores.
NothingUnknown(r, ignored) ==
  \A e \in EffectName \ ignored : ~EffectIs(r, e, {"unknown"})

-----------------------------------------------------------------------------
(* receiptStateInvariants: what readReceipt asks of a receipt. *)

SplitEffect == [editor |-> "editorPane", browser |-> "browserPane",
                worker |-> "workerPane", reviewer |-> "reviewerPane"]
PaneCloseEffect == [editor |-> "editorPaneClose", browser |-> "browserPaneClose",
                    worker |-> "workerPaneClose", reviewer |-> "reviewerPaneClose"]

CompletedRunEffects(r) ==
  /\ \A role \in RunRole : r.pane[role] # None
  /\ \A e \in RunEffect \ {"promptDispatch"} : EffectIs(r, e, {"succeeded"})
  /\ EffectIs(r, "promptDispatch", {"succeeded", "timed_out"})

CompletedObservation(r) ==
  /\ CompletedRunEffects(r)
  /\ r.obs.status = "idle"
  /\ r.obs.result \notin {None, 0}
  /\ r.obs.marked

ReviewRecordValid(r) ==
  /\ HasReview(r)
  /\ CompletedObservation(r)
  /\ \A e \in ReviewEffect : ~EffectIs(r, e, {"absent"})

BoundTo(r, candidate, verdict) ==
  /\ candidate = r.review.before
  /\ candidate = r.review.after
  /\ r.review.verdict = verdict

DecisionRecordValid(r) == HasDecision(r) /\ BoundTo(r, r.decision.candidate, "approve")
RepairRecordValid(r) == HasRepair(r) /\ BoundTo(r, r.repair.before, "request_changes")

TimedOutValid(r) ==
  /\ CompletedRunEffects(r)
  /\ \/ EffectIs(r, "promptDispatch", {"timed_out"})
     \/ EffectIs(r, "resumeWait", {"timed_out"})
     \/ EffectIs(r, "responseDispatch", {"timed_out"})

RepairTimedOutValid(r) ==
  \/ EffectIs(r, "repairPromptDispatch", {"timed_out"})
  \/ EffectIs(r, "repairWait", {"timed_out"})
  \/ EffectIs(r, "repairResponseDispatch", {"timed_out", "unknown"})

RepairedValid(r) ==
  /\ r.repair.after \notin {None, r.repair.before}
  /\ r.repair.result \notin {None, r.obs.result}
  /\ r.repair.marked
  /\ EffectIs(r, "repairPromptDispatch", {"succeeded"})
  /\ ~HasDecision(r)

CleanedValid(r) ==
  /\ EffectIs(r, "cleanupComplete", {"succeeded"})
  /\ \A role \in Role :
       r.pane[role] # None => EffectIs(r, PaneCloseEffect[role], {"succeeded"})

\* The evidence each state must carry.
StateEvidence(r) ==
  /\ r.state = "prepared" =>
       /\ \E role \in RunRole : r.pane[role] = None
       /\ ~r.response
       /\ \A e \in RunEffect : EffectIs(r, e, {"planned"})
  /\ r.state = "timed_out" => TimedOutValid(r)
  /\ r.state = "blocked" =>
       /\ CompletedRunEffects(r)
       /\ r.obs.status = "blocked"
       /\ ~EffectIs(r, "responseDispatch", {"succeeded"})
  /\ r.state = "responded" =>
       CompletedRunEffects(r) /\ EffectIs(r, "responseDispatch", {"succeeded"})
  /\ r.state = "settled_unproved" =>
       /\ CompletedRunEffects(r)
       /\ r.obs.status = "idle" /\ r.obs.result # None /\ ~r.obs.marked
  /\ r.state = "completed" => CompletedObservation(r) /\ ~HasReview(r)
  /\ r.state \in ReviewState => ReviewRecordValid(r) /\ r.review.verdict = None
  /\ r.state = "reviewed" =>
       /\ ReviewRecordValid(r)
       /\ r.review.verdict # None /\ r.review.after = r.review.before
  /\ r.state = "review_breached" =>
       /\ ReviewRecordValid(r)
       /\ r.review.after \notin {None, r.review.before} /\ r.review.verdict = None
  /\ r.state = "decision_starting" =>
       /\ DecisionRecordValid(r)
       /\ ~r.decision.recorded
       /\ EffectIs(r, "decisionRecord", {"planned", "unknown"})
  /\ r.state = "decided" =>
       /\ DecisionRecordValid(r)
       /\ r.decision.recorded
       /\ EffectIs(r, "decisionRecord", {"succeeded"})
  /\ r.state \in RepairState \cup {"repaired"} => RepairRecordValid(r)
  /\ r.state = "repair_starting" =>
       EffectIs(r, "repairPromptDispatch", {"planned", "unknown"})
  /\ r.state = "repair_timed_out" => RepairTimedOutValid(r)
  /\ r.state = "repair_blocked" =>
       /\ r.repair.status = "blocked"
       /\ r.repair.responded => EffectIs(r, "repairResponseDispatch", {"unknown"})
  /\ r.state = "repair_responded" => EffectIs(r, "repairResponseDispatch", {"succeeded"})
  /\ r.state = "repair_unproved" =>
       r.repair.after # None /\ r.repair.result # None /\ ~r.repair.marked
  /\ r.state = "repaired" => RepairedValid(r)
  /\ r.state \in {"cleanup_pending", "cleaned"} =>
       \A role \in RunRole : ~EffectIs(r, SplitEffect[role], {"unknown"})
  /\ r.state = "cleaned" => CleanedValid(r)

Readable(r) ==
  /\ \A e \in RunEffect : ~EffectIs(r, e, {"absent"})
  /\ \A role \in RunRole : EffectIs(r, SplitEffect[role], {"succeeded"}) <=> r.pane[role] # None
  /\ r.response <=> ~EffectIs(r, "responseDispatch", {"absent"})
  /\ ~EffectIs(r, "responseDispatch", {"planned"})
  /\ HasReview(r) => ReviewRecordValid(r)
  /\ HasDecision(r) => DecisionRecordValid(r)
  /\ HasRepair(r) => RepairRecordValid(r)
  /\ r.repair.responded <=> ~EffectIs(r, "repairResponseDispatch", {"absent"})
  /\ ~EffectIs(r, "repairResponseDispatch", {"planned"})
  /\ StateEvidence(r)
=============================================================================
