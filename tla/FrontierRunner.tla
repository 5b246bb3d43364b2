--------------------------- MODULE FrontierRunner ---------------------------
(***************************************************************************)
(* One bounded run of Frontier Runner (packages/frontier-runner/src/       *)
(* main.ts): the commands run, respond, resume, review, decide, repair and *)
(* cleanup over one receipt, and the Herdr session they act on.            *)
(*                                                                         *)
(* A command reads the receipt once, works on its copy and writes the copy *)
(* back, whole, around every effect: "unknown" before the call, what came  *)
(* of it afterwards.  Every Herdr call and every write is a step, so a     *)
(* command may die, or another may run, between any two of them.           *)
(***************************************************************************)
EXTENDS FrontierReceipt

CONSTANTS
  Proc,     \* invocations that may be under way at once
  Settings, \* what may happen: sets of commands that are invoked and of faults
  MaxSent   \* the calls of one effect after which the count stops

\* lost:    Herdr's answer to a call does not prove what came of it
\* dropped: such a call may have had no effect
\* reject:  Herdr refuses input before accepting it
\* crash:   a command dies
\* reblock: a worker that was answered asks again
\* breach:  the reviewer changes the workspace
\* edit, close, session: people edit files, close panes, restart the Controller
FaultKind == {"lost", "dropped", "reject", "crash", "reblock", "breach",
              "edit", "close", "session"}

CommandName == {"run", "respond", "resume", "review", "decide", "repair", "cleanup"}

ASSUME SettingAssumption ==
  \A s \in Settings :
    /\ s \subseteq CommandName \cup FaultKind
    /\ "close" \in s => "dropped" \in s

\* The count tells once from more than once.
ASSUME SentAssumption == MaxSent \in Nat /\ MaxSent > 1

VARIABLES
  setting,   \* the commands and faults of this behaviour
  receipt,   \* the receipt on disk, or None
  torn,      \* a receipt file is there that was never written to its end
  mem,       \* the copy each command works on
  cmd,       \* the command each invocation runs
  pc,        \* its next step
  eff,       \* the effect it is at
  reply,     \* what Herdr last told it
  given,     \* the pane its last split made
  panes,     \* the panes of this run that are open
  born,      \* the panes Herdr ever split for this run
  host,      \* the pane each agent was started in
  status,    \* what Herdr reports of each agent
  work,      \* the bytes in the granted workspace
  printed,   \* the result markers in the worker's transcript
  verdicts,  \* the verdict markers in the reviewer's transcript
  session,   \* the Controller session commands are invoked from
  sent       \* how often each effect that must not recur was handed to Herdr

local == <<mem, cmd, pc, eff, reply, given>>
herdr == <<panes, born, host, status>>
output == <<work, printed, verdicts>>
vars == <<setting, receipt, torn, local, herdr, output, session, sent>>

Agent == {"worker", "reviewer"}
Prompt == {"promptDispatch", "reviewPromptDispatch", "repairPromptDispatch"}
Keys == {"responseDispatch", "repairResponseDispatch"}
Split == {SplitEffect[role] : role \in Role}
Launch == {"editorLaunch", "browserLaunch"}
Start == {"workerStart", "reviewerStart"}
Once == Split \cup Launch \cup Start \cup Prompt \cup Keys

RoleOf ==
  [e \in EffectName |->
     IF e \in {"editorPane", "editorLaunch", "editorPaneClose"} THEN "editor"
     ELSE IF e \in {"browserPane", "browserLaunch", "browserPaneClose"} THEN "browser"
     ELSE IF e \in ReviewEffect \cup {"reviewerPaneClose", "reviewWait"} THEN "reviewer"
     ELSE "worker"]

\* The order in which run, review and cleanup go through their effects.
After ==
  [editorPane |-> "editorLaunch", editorLaunch |-> "browserPane",
   browserPane |-> "browserLaunch", browserLaunch |-> "workerPane",
   workerPane |-> "workerStart", workerStart |-> "promptDispatch",
   reviewerPane |-> "reviewerStart", reviewerStart |-> "reviewPromptDispatch",
   reviewerPaneClose |-> "workerPaneClose", workerPaneClose |-> "browserPaneClose",
   browserPaneClose |-> "editorPaneClose", editorPaneClose |-> "cleanupComplete"]

TypeOK ==
  /\ setting \in Settings
  /\ receipt \in Receipt \cup {None}
  /\ torn \in BOOLEAN
  /\ mem \in [Proc -> Receipt \cup {None}]
  /\ cmd \in [Proc -> (setting \cap CommandName) \cup {None}]
  /\ pc \in [Proc -> {"idle", "create", "check", "mark", "call", "record", "observe",
                      "wait", "look", "prove", "confirm", "complete"}]
  /\ eff \in [Proc -> EffectName \cup {None}]
  /\ reply \in [Proc -> {None, "ok", "uncertain", "rejected", "lost",
                         "idle", "working", "blocked"}]
  /\ given \in [Proc -> Pane \cup {None}]
  /\ panes \subseteq born /\ born \subseteq Pane
  /\ host \in [Agent -> Pane \cup {None}]
  /\ status \in [Agent -> {"none", "idle", "working", "blocked"}]
  /\ work \in Candidate
  /\ printed \subseteq Result
  /\ verdicts \subseteq [candidate : Candidate, verdict : Verdict]
  /\ session \in Session
  /\ sent \in [Once -> 0..MaxSent]

Init ==
  /\ setting \in Settings
  /\ receipt = None /\ torn = FALSE
  /\ mem = [p \in Proc |-> None]
  /\ cmd = [p \in Proc |-> None]
  /\ pc = [p \in Proc |-> "idle"]
  /\ eff = [p \in Proc |-> None]
  /\ reply = [p \in Proc |-> None]
  /\ given = [p \in Proc |-> None]
  /\ panes = {} /\ born = {}
  /\ host = [a \in Agent |-> None]
  /\ status = [a \in Agent |-> "none"]
  /\ work \in {c \in Candidate : c.result = 0}
  /\ printed = {} /\ verdicts = {}
  /\ session \in Session
  /\ sent = [e \in Once |-> 0]

-----------------------------------------------------------------------------
(* Moves of one command. *)

Goto(p, label) == pc' = [pc EXCEPT ![p] = label]
At(p, e) == eff' = [eff EXCEPT ![p] = e]

\* Back to the shell: nothing of the command survives but what it wrote.
End(p) ==
  /\ Goto(p, "idle")
  /\ At(p, None)
  /\ mem' = [mem EXCEPT ![p] = None]
  /\ cmd' = [cmd EXCEPT ![p] = None]
  /\ reply' = [reply EXCEPT ![p] = None]
  /\ given' = [given EXCEPT ![p] = None]

Continue(p, label, e) ==
  /\ Goto(p, label)
  /\ At(p, e)
  /\ reply' = [reply EXCEPT ![p] = None]
  /\ given' = [given EXCEPT ![p] = None]
  /\ UNCHANGED cmd

\* writeReceipt replaces the file by the copy in memory, whatever it now holds.
Write(p, r) ==
  /\ receipt' = r
  /\ mem' = [mem EXCEPT ![p] = r]

WriteAndEnd(p, r) == receipt' = r /\ End(p)

WithEffect(r, e, outcome) == [r EXCEPT !.effects[e] = outcome]

World == <<herdr, output, session, sent>>

\* The panes of the run are where the receipt says.
Reconciled(r) == \A role \in RunRole : r.pane[role] \in panes

\* agent get answers for the recorded name in the recorded pane.
Observed(r, a) == status[a] # "none" /\ host[a] = r.pane[a]

\* controllerMatchesCheckpoint: the session of the Controller that asks is the one on record.
SameController(checkpoint) == session = checkpoint.session

CandidateReviewed(r) == work.result = r.obs.result /\ work = r.review.after

\* Which proof a command is after.
Subject(r) == IF r.state \in ReviewState THEN "reviewer" ELSE "worker"
Phase(r) ==
  CASE r.state \in ReviewState -> "review"
    [] r.state \in RepairState -> "repair"
    [] OTHER -> "run"
WaitOf == [run |-> "resumeWait", review |-> "reviewWait", repair |-> "repairWait"]
TimedOutIn == [run |-> "timed_out", review |-> "review_timed_out",
               repair |-> "repair_timed_out"]

-----------------------------------------------------------------------------
(* What each command asks of the receipt before it asks Herdr anything. *)

RepairResponse(r) == r.state = "repair_blocked" /\ HasRepair(r)

WorkerConfirmed(r) == r.pane["worker"] # None /\ EffectIs(r, "workerStart", {"succeeded"})

\* Mutation: a worker that asks again is answered again.
RespondAdmits_Again(r) ==
  /\ r.state \notin {"completed", "repaired", "cleaned"}
  /\ NothingUnknown(r, IF RepairResponse(r) THEN {"repairPromptDispatch"} ELSE {})
  /\ WorkerConfirmed(r)

RespondAdmits(r) ==
  /\ IF RepairResponse(r)
       THEN ~r.repair.responded /\ EffectIs(r, "repairResponseDispatch", {"absent"})
       ELSE ~r.response /\ EffectIs(r, "responseDispatch", {"absent"})
  /\ r.state \notin {"completed", "repaired", "cleaned"}
  /\ NothingUnknown(r, IF RepairResponse(r) THEN {"repairPromptDispatch"} ELSE {})
  /\ WorkerConfirmed(r)

\* Mutation: a result that was never proved is reviewed.
ReviewAdmits_Unproved(r) ==
  /\ ~HasReview(r) /\ EffectIs(r, "reviewerPane", {"absent"})
  /\ r.state \in {"completed", "settled_unproved"}
  /\ NothingUnknown(r, {})

ReviewAdmits(r) ==
  /\ ~HasReview(r) /\ EffectIs(r, "reviewerPane", {"absent"})
  /\ r.state = "completed"
  /\ NothingUnknown(r, {})

DecideAdmits(r) ==
  /\ ~HasDecision(r) /\ EffectIs(r, "decisionRecord", {"absent"})
  /\ r.state = "reviewed" /\ r.review.verdict = "approve"
  /\ NothingUnknown(r, {})

RepairAdmits(r) ==
  /\ ~HasRepair(r) /\ EffectIs(r, "repairPromptDispatch", {"absent"})
  /\ r.state = "reviewed" /\ r.review.verdict = "request_changes"
  /\ ~HasDecision(r)
  /\ NothingUnknown(r, {})

ResumeAdmits(r) ==
  CASE r.state \in {"completed", "reviewed", "review_breached", "decided",
                    "repaired", "cleaned"} -> FALSE
    [] r.state = "decision_starting" -> TRUE
    [] r.state \in RepairState ->
         NothingUnknown(r, {"repairPromptDispatch", "repairResponseDispatch"})
    [] r.state \in ReviewState -> NothingUnknown(r, {"reviewPromptDispatch"})
    [] OTHER -> NothingUnknown(r, {"responseDispatch"}) /\ WorkerConfirmed(r)

\* Mutation: a split that may have made a pane is passed over.
CleanupAdmits_Blind(r) == r.state # "cleaned"

CleanupAdmits(r) ==
  /\ r.state # "cleaned"
  /\ \A role \in Role : ~EffectIs(r, SplitEffect[role], {"unknown"})

Admits(c, r) ==
  CASE c = "respond" -> RespondAdmits(r)
    [] c = "review" -> ReviewAdmits(r)
    [] c = "decide" -> DecideAdmits(r)
    [] c = "repair" -> RepairAdmits(r)
    [] c = "resume" -> ResumeAdmits(r)
    [] c = "cleanup" -> CleanupAdmits(r)
    [] OTHER -> FALSE

\* createReceipt: run makes the file exclusively, under the receipt's own name, ...
Create(p) ==
  /\ pc[p] = "idle" /\ "run" \in setting
  /\ receipt = None /\ ~torn
  /\ torn' = TRUE
  /\ cmd' = [cmd EXCEPT ![p] = "run"]
  /\ Goto(p, "create")
  /\ UNCHANGED <<receipt, mem, eff, reply, given, World>>

\* ... writes it in place, and goes on to its first effect.
Run(p) ==
  /\ pc[p] = "create" /\ torn
  /\ Write(p, Fresh)
  /\ torn' = FALSE
  /\ Goto(p, "mark") /\ At(p, "editorPane")
  /\ UNCHANGED <<cmd, reply, given, World>>

\* A command that refuses a receipt changes nothing; neither does one that
\* cannot read it, because of what it says or because it is torn.
Begin(p, c) ==
  /\ pc[p] = "idle"
  /\ receipt # None /\ Readable(receipt) /\ Admits(c, receipt)
  /\ mem' = [mem EXCEPT ![p] = receipt]
  /\ cmd' = [cmd EXCEPT ![p] = c]
  /\ Goto(p, "check")
  /\ UNCHANGED <<receipt, eff, reply, given, World>>

-----------------------------------------------------------------------------
(* What it asks of Herdr and the workspace, and its first write. *)

CheckRespond(p) ==
  LET r == mem[p] IN
  /\ pc[p] = "check" /\ cmd[p] = "respond"
  /\ RepairResponse(r) => SameController(r.repair)
  /\ Reconciled(r) /\ Observed(r, "worker") /\ status["worker"] = "blocked"
  /\ LET e == IF RepairResponse(r) THEN "repairResponseDispatch" ELSE "responseDispatch"
         told == IF RepairResponse(r)
                   THEN [r EXCEPT !.repair.status = "blocked", !.repair.responded = TRUE]
                   ELSE [r EXCEPT !.state = "blocked", !.response = TRUE,
                                  !.obs = [status |-> "blocked", result |-> None,
                                           marked |-> FALSE]]
     IN /\ Write(p, WithEffect(told, e, "unknown"))
        /\ Continue(p, "call", e)
  /\ UNCHANGED World

CheckReview(p) ==
  LET r == mem[p] IN
  /\ pc[p] = "check" /\ cmd[p] = "review"
  /\ Reconciled(r) /\ Observed(r, "worker")
  /\ work.result = r.obs.result
  /\ Write(p, [r EXCEPT !.state = "review_starting", !.review.before = work,
                        !.effects = [e \in EffectName |->
                          IF e \in ReviewEffect THEN "planned" ELSE r.effects[e]]])
  /\ Continue(p, "mark", "reviewerPane")
  /\ UNCHANGED World

CheckDecide(p) ==
  LET r == mem[p] IN
  /\ pc[p] = "check" /\ cmd[p] = "decide"
  /\ Reconciled(r) /\ Observed(r, "reviewer") /\ CandidateReviewed(r)
  /\ Write(p, [r EXCEPT !.state = "decision_starting",
                        !.decision.candidate = r.review.before,
                        !.decision.session = session,
                        !.effects["decisionRecord"] = "planned"])
  /\ Continue(p, "mark", "decisionRecord")
  /\ UNCHANGED World

CheckRepair(p) ==
  LET r == mem[p] IN
  /\ pc[p] = "check" /\ cmd[p] = "repair"
  /\ Reconciled(r) /\ Observed(r, "reviewer") /\ CandidateReviewed(r)
  /\ Observed(r, "worker") /\ status["worker"] = "idle"
  /\ Write(p, [r EXCEPT !.state = "repair_starting",
                        !.repair.before = r.review.after,
                        !.repair.session = session,
                        !.effects["repairPromptDispatch"] = "planned"])
  /\ Continue(p, "confirm", None)
  /\ UNCHANGED World

DecisionRecorded(r) ==
  [r EXCEPT !.state = "decided", !.decision.recorded = TRUE,
            !.effects["decisionRecord"] = "succeeded"]

CheckResume(p) ==
  LET r == mem[p] IN
  /\ pc[p] = "check" /\ cmd[p] = "resume"
  /\ r.state # "decision_starting"
  /\ Phase(r) = "repair" => SameController(r.repair)
  /\ Reconciled(r)
  /\ Phase(r) = "review" => r.pane["reviewer"] \in panes
  /\ Continue(p, "observe", None)
  /\ UNCHANGED <<receipt, mem, World>>

ResumeDecision(p) ==
  LET r == mem[p] IN
  /\ pc[p] = "check" /\ cmd[p] = "resume"
  /\ r.state = "decision_starting"
  /\ SameController(r.decision) /\ CandidateReviewed(r)
  /\ WriteAndEnd(p, DecisionRecorded(r))
  /\ UNCHANGED World

CheckCleanup(p) ==
  /\ pc[p] = "check" /\ cmd[p] = "cleanup"
  /\ Write(p, [mem[p] EXCEPT !.state = "cleanup_pending"])
  /\ Continue(p, "mark", "reviewerPaneClose")
  /\ UNCHANGED World

-----------------------------------------------------------------------------
(* One effect: unknown on the receipt, the call, what came of it. *)

\* Mutation: the effect is only planned when Herdr is called.
Mark_Planned(p) ==
  LET r == mem[p]  e == eff[p] IN
  /\ pc[p] = "mark" /\ e \notin CloseEffect \cup {"decisionRecord", "cleanupComplete"}
  /\ e \in Launch => r.pane[RoleOf[e]] \in panes
  /\ Write(p, WithEffect(IF e \in Split /\ r.state # "review_starting"
                           THEN [r EXCEPT !.state = "starting"] ELSE r, e, "planned"))
  /\ Continue(p, "call", e)
  /\ UNCHANGED World

\* splitPane, dispatchPaneCommand, startWorker, promptWorker: nothing is handed
\* to Herdr before the receipt says that it may have been.
Mark(p) ==
  LET r == mem[p]  e == eff[p] IN
  /\ pc[p] = "mark" /\ e \notin CloseEffect \cup {"decisionRecord", "cleanupComplete"}
  /\ e \in Launch => r.pane[RoleOf[e]] \in panes
  /\ Write(p, WithEffect(IF e \in Split /\ r.state # "review_starting"
                           THEN [r EXCEPT !.state = "starting"] ELSE r, e, "unknown"))
  /\ Continue(p, "call", e)
  /\ UNCHANGED World

\* decideCommand has no call to make: the receipt itself is the effect.
MarkDecision(p) ==
  /\ pc[p] = "mark" /\ eff[p] = "decisionRecord"
  /\ Write(p, WithEffect(mem[p], "decisionRecord", "unknown"))
  /\ Continue(p, "confirm", None)
  /\ UNCHANGED World

\* Mutation: a pane that is gone is taken off the receipt.
MarkClose_Forgets(p) ==
  LET r == mem[p]  e == eff[p]  id == r.pane[RoleOf[e]] IN
  /\ pc[p] = "mark" /\ e \in CloseEffect
  /\ IF id \in panes
       THEN Write(p, WithEffect(r, e, "unknown")) /\ Continue(p, "call", e)
       ELSE /\ Write(p, WithEffect([r EXCEPT !.pane[RoleOf[e]] = None], e, "succeeded"))
            /\ Continue(p, "mark", After[e])
  /\ UNCHANGED World

\* closeOwnedPane: a pane that is not there any more counts as closed.
MarkClose(p) ==
  LET r == mem[p]  e == eff[p]  id == r.pane[RoleOf[e]] IN
  /\ pc[p] = "mark" /\ e \in CloseEffect
  /\ \/ /\ id = None
        /\ Continue(p, "mark", After[e])
        /\ UNCHANGED <<receipt, mem>>
     \/ /\ id # None /\ id \notin panes
        /\ Write(p, WithEffect(r, e, "succeeded"))
        /\ Continue(p, "mark", After[e])
     \/ /\ id \in panes
        /\ Write(p, WithEffect(r, e, "unknown"))
        /\ Continue(p, "call", e)
  /\ UNCHANGED World

MarkCleaned(p) ==
  /\ pc[p] = "mark" /\ eff[p] = "cleanupComplete"
  /\ Write(p, WithEffect(mem[p], "cleanupComplete", "succeeded"))
  /\ Continue(p, "complete", None)
  /\ UNCHANGED World

\* Mutation: a state that is none of the states of a run.
Complete_Closed(p) ==
  /\ pc[p] = "complete"
  /\ WriteAndEnd(p, [mem[p] EXCEPT !.state = "closed"])
  /\ UNCHANGED World

Complete(p) ==
  /\ pc[p] = "complete"
  /\ WriteAndEnd(p, [mem[p] EXCEPT !.state = "cleaned"])
  /\ UNCHANGED World

\* The answers a call may get, given that it took effect or not.
Answers(e, done) ==
  IF done
    THEN {"ok"} \cup (IF e \in Prompt \cup Keys THEN {"uncertain"} ELSE {})
                \cup (IF "lost" \in setting THEN {"lost"} ELSE {})
    ELSE (IF "dropped" \in setting
            THEN {"lost"} \cup (IF e \in Prompt \cup Keys THEN {"uncertain"} ELSE {})
            ELSE {})
         \cup (IF "reject" \in setting /\ e \in Start \cup Keys \cup {"repairPromptDispatch"}
                 THEN {"rejected"} ELSE {})

Nowhere == UNCHANGED <<herdr, given>>

\* Herdr never gives an identifier again; which one it gives makes no difference.
FreshPane == CHOOSE id \in Pane : id \notin born

\* What Herdr does when the call takes effect.
Perform(p, e, r) ==
  LET a == RoleOf[e]  target == r.pane[a] IN
  CASE e \in Split ->
         /\ e = "browserPane" => r.pane["editor"] \in panes
         /\ born # Pane
         /\ LET id == FreshPane IN
              /\ born' = born \cup {id}
              /\ panes' = panes \cup {id}
              /\ given' = [given EXCEPT ![p] = id]
         /\ UNCHANGED <<host, status>>
    [] e \in Start ->
         /\ target \in panes
         /\ host' = [host EXCEPT ![a] = target]
         /\ status' = [status EXCEPT ![a] = "idle"]
         /\ UNCHANGED <<panes, born, given>>
    [] e \in Prompt \cup Keys ->
         /\ status[a] # "none"
         /\ status' = [status EXCEPT ![a] = "working"]
         /\ UNCHANGED <<panes, born, host, given>>
    [] e \in CloseEffect ->
         /\ panes' = panes \ {target}
         /\ status' = [x \in Agent |-> IF host[x] = target THEN "none" ELSE status[x]]
         /\ UNCHANGED <<born, host, given>>
    [] e \in Launch -> target \in panes /\ Nowhere

Call(p) ==
  LET r == mem[p]  e == eff[p] IN
  /\ pc[p] = "call"
  /\ sent' = [x \in Once |-> IF x = e /\ sent[x] < MaxSent THEN sent[x] + 1 ELSE sent[x]]
  /\ \/ /\ Perform(p, e, r)
        /\ \E answer \in Answers(e, TRUE) : reply' = [reply EXCEPT ![p] = answer]
     \/ /\ Nowhere
        /\ \E answer \in Answers(e, FALSE) : reply' = [reply EXCEPT ![p] = answer]
  /\ Goto(p, "record")
  /\ UNCHANGED <<receipt, mem, cmd, eff, output, session>>

RecordOk(p) ==
  LET r == mem[p]
      e == eff[p]
      told == CASE e \in Split -> [r EXCEPT !.pane[RoleOf[e]] = given[p]]
                [] e = "responseDispatch" -> [r EXCEPT !.state = "responded"]
                [] e = "repairResponseDispatch" -> [r EXCEPT !.state = "repair_responded"]
                [] OTHER -> r
      written == WithEffect(told, e, "succeeded")
  IN
  /\ pc[p] = "record" /\ reply[p] = "ok"
  /\ \/ /\ e \in Keys
        /\ WriteAndEnd(p, written)
     \/ /\ e \in Prompt
        /\ Write(p, written)
        /\ Continue(p, "observe", None)
     \/ /\ e \in DOMAIN After
        /\ Write(p, written)
        /\ Continue(p, "mark", After[e])
  /\ UNCHANGED World

\* timeout and agent_prompt_stalled: the input may have been taken.
RecordUncertain(p) ==
  LET r == mem[p]  e == eff[p]
      state == CASE e = "reviewPromptDispatch" -> "review_timed_out"
                 [] e \in {"repairPromptDispatch", "repairResponseDispatch"} -> "repair_timed_out"
                 [] OTHER -> "timed_out" IN
  /\ pc[p] = "record" /\ reply[p] = "uncertain"
  /\ WriteAndEnd(p, WithEffect([r EXCEPT !.state = state], e, "timed_out"))
  /\ UNCHANGED World

\* A refused start leaves the state; refused input ends the run.
RecordRejected(p) ==
  LET r == mem[p]  e == eff[p] IN
  /\ pc[p] = "record" /\ reply[p] = "rejected"
  /\ WriteAndEnd(p, WithEffect(IF e \in Start THEN r ELSE [r EXCEPT !.state = "failed"],
                               e, "failed"))
  /\ UNCHANGED World

\* The effect stays unknown; only a repair response still moves the state.
RecordLost(p) ==
  LET r == mem[p] IN
  /\ pc[p] = "record" /\ reply[p] = "lost"
  /\ IF eff[p] = "repairResponseDispatch"
       THEN WriteAndEnd(p, [r EXCEPT !.state = "repair_timed_out"])
       ELSE End(p) /\ UNCHANGED receipt
  /\ UNCHANGED World

-----------------------------------------------------------------------------
(* The Controller is asked again after the checkpoint. *)

ConfirmDecision(p) ==
  LET r == mem[p] IN
  /\ pc[p] = "confirm" /\ cmd[p] = "decide"
  /\ SameController(r.decision) /\ CandidateReviewed(r)
  /\ WriteAndEnd(p, DecisionRecorded(r))
  /\ UNCHANGED World

ConfirmRepair(p) ==
  LET r == mem[p] IN
  /\ pc[p] = "confirm" /\ cmd[p] = "repair"
  /\ \/ /\ \/ ~SameController(r.repair)
           \/ Observed(r, "worker") /\ status["worker"] # "idle"
        /\ WriteAndEnd(p, WithEffect([r EXCEPT !.state = "failed"],
                                     "repairPromptDispatch", "failed"))
     \/ /\ SameController(r.repair)
        /\ Observed(r, "worker") /\ status["worker"] = "idle"
        /\ Continue(p, "mark", "repairPromptDispatch")
        /\ UNCHANGED <<receipt, mem>>
  /\ UNCHANGED World

-----------------------------------------------------------------------------
(* Reconciling the agent: observe, wait, read back, write the proof. *)

Observe(p) ==
  LET r == mem[p]  a == Subject(r) IN
  /\ pc[p] = "observe" /\ Observed(r, a)
  /\ reply' = [reply EXCEPT ![p] = status[a]]
  /\ Goto(p, IF status[a] = "working" THEN "wait" ELSE "prove")
  /\ UNCHANGED <<receipt, mem, cmd, eff, given, World>>

WaitSettles(p) ==
  LET r == mem[p] IN
  /\ pc[p] = "wait" /\ status[Subject(r)] \in {"idle", "blocked"}
  /\ Write(p, WithEffect(r, WaitOf[Phase(r)], "succeeded"))
  /\ Continue(p, "look", None)
  /\ UNCHANGED World

WaitTimesOut(p) ==
  LET r == mem[p] IN
  /\ pc[p] = "wait"
  /\ WriteAndEnd(p, WithEffect([r EXCEPT !.state = TimedOutIn[Phase(r)]],
                               WaitOf[Phase(r)], "timed_out"))
  /\ UNCHANGED World

LookAgain(p) ==
  LET r == mem[p]  a == Subject(r) IN
  /\ pc[p] = "look" /\ Observed(r, a)
  /\ reply' = [reply EXCEPT ![p] = status[a]]
  /\ Goto(p, "prove")
  /\ UNCHANGED <<receipt, mem, cmd, eff, given, World>>

\* Exactly one marker of the bytes now in the result file was read back.
\* The readback is a window: a marker may have left it, or be there twice.
MarkerSeen == work.result \in printed

ProveResult(p) ==
  LET r == mem[p]
      settled(proved) == [status |-> "idle", result |-> work.result, marked |-> proved] IN
  /\ pc[p] = "prove" /\ Phase(r) = "run"
  /\ \/ /\ reply[p] = "blocked"
        /\ WriteAndEnd(p, [r EXCEPT !.state = "blocked",
                                    !.obs = [status |-> "blocked", result |-> None,
                                             marked |-> FALSE]])
     \/ /\ reply[p] = "idle"
        /\ WriteAndEnd(p, [r EXCEPT !.state = "settled_unproved", !.obs = settled(FALSE)])
     \/ /\ reply[p] = "idle"
        /\ MarkerSeen /\ work.result # 0
        /\ WriteAndEnd(p, [r EXCEPT !.state = "completed", !.obs = settled(TRUE)])
  /\ UNCHANGED World

\* Mutations: the readback is not matched with the candidate; the candidate is
\* not hashed again after the review.
ProveReview_AnyMarker(p) ==
  LET r == [mem[p] EXCEPT !.review.after = work] IN
  /\ pc[p] = "prove" /\ Phase(mem[p]) = "review"
  /\ reply[p] = "idle" /\ work = r.review.before
  /\ \E m \in verdicts :
       WriteAndEnd(p, [r EXCEPT !.state = "reviewed", !.review.verdict = m.verdict])
  /\ UNCHANGED World
ProveReview_NoRehash(p) ==
  /\ pc[p] = "prove" /\ Phase(mem[p]) = "review"
  /\ reply[p] = "idle"
  /\ \E m \in verdicts :
       WriteAndEnd(p, [mem[p] EXCEPT !.state = "reviewed", !.review.verdict = m.verdict])
  /\ UNCHANGED World

ProveReview(p) ==
  LET r == [mem[p] EXCEPT !.review.after = work] IN
  /\ pc[p] = "prove" /\ Phase(mem[p]) = "review"
  /\ reply[p] = "idle"
  /\ \/ /\ work # r.review.before
        /\ WriteAndEnd(p, [r EXCEPT !.state = "review_breached"])
     \/ /\ work = r.review.before
        /\ WriteAndEnd(p, [r EXCEPT !.state = "review_unproved"])
     \/ /\ work = r.review.before
        /\ \E m \in verdicts :
             /\ m.candidate = r.review.before
             /\ WriteAndEnd(p, [r EXCEPT !.state = "reviewed", !.review.verdict = m.verdict])
  /\ UNCHANGED World

\* Mutation: the candidate that was to be repaired passes for its repair.
RepairChanged_Always(r) == TRUE

RepairChanged(r) == work # r.repair.before /\ work.result # r.obs.result

ProveRepair(p) ==
  LET r == mem[p]
      settled(proved) == [r.repair EXCEPT !.after = work, !.result = work.result,
                                          !.status = "idle", !.marked = proved] IN
  /\ pc[p] = "prove" /\ Phase(r) = "repair"
  /\ \/ /\ reply[p] = "blocked"
        /\ WriteAndEnd(p, [r EXCEPT !.state = "repair_blocked", !.repair.status = "blocked"])
     \/ /\ reply[p] = "idle"
        /\ WriteAndEnd(p, [r EXCEPT !.state = "repair_unproved", !.repair = settled(FALSE)])
     \/ /\ reply[p] = "idle"
        /\ MarkerSeen /\ RepairChanged(r)
        /\ WriteAndEnd(p, [r EXCEPT !.state = "repaired", !.repair = settled(TRUE),
                                    !.effects["repairPromptDispatch"] = "succeeded"])
  /\ UNCHANGED World

-----------------------------------------------------------------------------
(* Failure of a command, and the world around it. *)

\* A check that does not hold, or a query Herdr does not answer, ends the
\* command without a write.
GiveUp(p) ==
  /\ \/ pc[p] \in {"check", "observe", "wait", "look", "prove", "confirm"}
     \/ pc[p] = "mark" /\ eff[p] \in Launch \cup CloseEffect
  /\ End(p)
  /\ UNCHANGED <<receipt, World>>

\* A command that dies, or whose write fails.
Crash(p) ==
  /\ "crash" \in setting
  /\ pc[p] \notin {"idle", "check", "observe", "wait", "look", "prove", "confirm"}
  /\ End(p)
  /\ UNCHANGED <<receipt, World>>

Settle(a) == status' = [status EXCEPT ![a] = "idle"] /\ UNCHANGED <<panes, born, host>>

\* A worker at its prompt: it writes the result, prints its marker, stops or asks.
WorkerActs ==
  /\ status["worker"] = "working"
  /\ \/ /\ work.result + 1 \in Result /\ work' = [work EXCEPT !.result = @ + 1]
        /\ UNCHANGED <<printed, verdicts, herdr>>
     \/ /\ printed' = printed \cup {work.result}
        /\ Settle("worker")
        /\ UNCHANGED <<work, verdicts>>
     \/ Settle("worker") /\ UNCHANGED output
     \/ /\ \/ "reblock" \in setting
           \/ sent["repairPromptDispatch"] = 0 /\ sent["responseDispatch"] = 0
           \/ sent["repairPromptDispatch"] > 0 /\ sent["repairResponseDispatch"] = 0
        /\ status' = [status EXCEPT !["worker"] = "blocked"]
        /\ UNCHANGED <<panes, born, host, output>>
  /\ UNCHANGED <<receipt, local, session, sent>>

ReviewerActs ==
  /\ status["reviewer"] = "working"
  /\ \/ /\ \E v \in Verdict, c \in {receipt.review.before, work} :
             verdicts' = verdicts \cup {[candidate |-> c, verdict |-> v]}
        /\ verdicts = {}
        /\ Settle("reviewer")
        /\ UNCHANGED <<work, printed>>
     \/ Settle("reviewer") /\ UNCHANGED output
     \/ /\ "breach" \in setting
        /\ \E c \in Candidate : c.result = work.result /\ work' = c
        /\ UNCHANGED <<printed, verdicts, herdr>>
  /\ UNCHANGED <<receipt, local, session, sent>>

PeopleAct ==
  /\ \/ /\ "edit" \in setting
        /\ work' \in Candidate
        /\ UNCHANGED <<printed, verdicts, herdr, session>>
     \/ /\ "close" \in setting
        /\ \E id \in panes :
             /\ panes' = panes \ {id}
             /\ status' = [a \in Agent |-> IF host[a] = id THEN "none" ELSE status[a]]
        /\ UNCHANGED <<born, host, output, session>>
     \/ /\ "session" \in setting
        /\ session' \in Session
        /\ UNCHANGED <<herdr, output>>
  /\ UNCHANGED <<receipt, local, sent>>

-----------------------------------------------------------------------------
Check(p) == CheckRespond(p) \/ CheckReview(p) \/ CheckDecide(p) \/ CheckRepair(p)
              \/ CheckResume(p) \/ ResumeDecision(p) \/ CheckCleanup(p)
Effect(p) == Mark(p) \/ MarkDecision(p) \/ MarkClose(p) \/ MarkCleaned(p) \/ Complete(p)
               \/ Call(p) \/ RecordOk(p) \/ RecordUncertain(p) \/ RecordRejected(p)
               \/ RecordLost(p) \/ ConfirmDecision(p) \/ ConfirmRepair(p)
Reconcile(p) == Observe(p) \/ WaitSettles(p) \/ WaitTimesOut(p) \/ LookAgain(p)
                  \/ ProveResult(p) \/ ProveReview(p) \/ ProveRepair(p)

Next ==
  /\ \/ \E p \in Proc : Create(p) \/ Run(p)
     \/ /\ \/ \E p \in Proc :
                \/ \E c \in setting \cap CommandName : Begin(p, c)
                \/ Check(p) \/ Effect(p) \/ Reconcile(p)
                \/ GiveUp(p) \/ Crash(p)
           \/ WorkerActs \/ ReviewerActs \/ PeopleAct
        /\ UNCHANGED torn
  /\ UNCHANGED setting

Spec == Init /\ [][Next]_vars
-----------------------------------------------------------------------------
(* Properties. *)

(* Ways in which a command leaves a receipt that readReceipt refuses, so that *)
(* neither resume nor cleanup touches the run again.                          *)

\* A resumed wait succeeds where an earlier one timed out, and the observation
\* that would have changed the state does not come about.
WaitedAgain(r) ==
  r.state \in {"timed_out", "repair_timed_out"} /\ EffectIs(r, WaitOf[Phase(r)], {"succeeded"})

\* The repair prompt was taken, and the worker is not proved by the same command.
RepairPrompted(r) ==
  r.state = "repair_starting" /\ EffectIs(r, "repairPromptDispatch", {"succeeded"})

\* An agent asks again after its one answer.
AskedAgain(r) ==
  \/ r.state = "blocked" /\ EffectIs(r, "responseDispatch", {"succeeded"})
  \/ r.state = "repair_blocked" /\ r.repair.responded

\* A run that died between the start of its worker and the prompt is resumed.
NeverPrompted(r) ==
  r.state # "starting" /\ EffectIs(r, "promptDispatch", {"planned"})

\* A worker blocks during its repair before a resume has seen it blocked, and
\* respond takes it for the worker of the first run; or a resume completes a
\* reviewed run anew.
Reopened(r) ==
  HasReview(r) /\ (r.state = "completed" \/ ~CompletedObservation(r))

\* A receipt may be refused halfway through a command, and stays so when that
\* command is cut short; three shapes are refused when it has come to its end.
Halfway(r) == WaitedAgain(r) \/ RepairPrompted(r)
DeadEnd(r) == AskedAgain(r) \/ NeverPrompted(r) \/ Reopened(r)

\* Whatever is lost and wherever a command dies, the receipt it leaves satisfies
\* receiptStateInvariants and isReceipt, so that the next command can read it, apart
\* from the five shapes above; two of these are left by a command that was cut short
\* only, never by the last write of one.  A receipt that was not written to its end
\* cannot be read either, but then no effect of the run was handed to Herdr.
ReadableBesides ==
  [][/\ receipt' # None => Readable(receipt') \/ Halfway(receipt') \/ DeadEnd(receipt')
     /\ \A p \in Proc :
          pc[p] # "idle" /\ pc'[p] = "idle" /\ receipt' # receipt
            => Readable(receipt') \/ DeadEnd(receipt')
     /\ torn' => receipt' = None /\ born' = {} /\ \A e \in Once : sent'[e] = 0]_vars

\* Between two commands, a run whose worker asked again after its answer can be
\* resumed: "run resume; the response will not be sent again" (respondCommand).
ResumableAfterAnswer ==
  (/\ \A p \in Proc : pc[p] = "idle"
   /\ receipt # None
   /\ AskedAgain(receipt))
  => Readable(receipt)

\* "No prompt will be resent", "neither prompt nor response will be resent":
\* whatever dies and whatever answers get lost, nothing is handed to an agent twice.
AtMostOnce == \A e \in Once : sent[e] <= 1

\* What may have been handed to Herdr is on the receipt: after any crash, an
\* effect the receipt does not know of did not happen.
WriteAhead ==
  \A e \in Once :
    sent[e] > 0 => receipt # None /\ ~EffectIs(receipt, e, {"absent", "planned"})

\* A decision is about bytes that the worker proved and the reviewer approved; a
\* repair is about a candidate the reviewer wanted changed, was asked for once, and
\* is proved by a marker the worker printed for other bytes.
OutcomeBound ==
  receipt # None =>
    LET r == receipt IN
    /\ r.decision.recorded =>
         /\ [candidate |-> r.decision.candidate, verdict |-> "approve"] \in verdicts
         /\ r.decision.candidate.result \in printed \ {0}
         /\ sent["promptDispatch"] = 1
    /\ r.repair.marked =>
         /\ [candidate |-> r.repair.before, verdict |-> "request_changes"] \in verdicts
         /\ r.repair.result \in printed \ {r.repair.before.result}
         /\ sent["repairPromptDispatch"] = 1

\* A cleaned run has no pane left open that Herdr ever split for it.
CleanedClosesAll == receipt # None /\ receipt.state = "cleaned" => panes = {}

\* What a receipt has recorded is never taken back: its panes, a verdict, a
\* decision, a proved repair, the end of the run.
NothingTakenBack ==
  [][receipt # None =>
       /\ receipt' # None
       /\ \A role \in Role : receipt.pane[role] # None => receipt'.pane[role] = receipt.pane[role]
       /\ receipt.review.verdict # None => receipt'.review = receipt.review
       /\ receipt.decision.recorded => receipt'.decision = receipt.decision
       /\ receipt.repair.marked => receipt'.repair = receipt.repair
       /\ receipt.state = "cleaned" => receipt' = receipt]_vars

\* The receipt keeps the ledger of the run: FrontierLedger, seen through the
\* fields a command cannot take back.
Stage ==
  IF receipt = None THEN "open"
  ELSE IF receipt.state = "cleaned" THEN "closed"
  ELSE IF receipt.repair.marked THEN "repaired"
  ELSE IF receipt.decision.recorded THEN "decided"
  ELSE IF receipt.review.verdict # None THEN "reviewed"
  ELSE IF receipt.obs.marked THEN "proved"
  ELSE "open"

Ledger == INSTANCE FrontierLedger WITH
            stage <- Stage,
            verdict <- IF receipt = None THEN None ELSE receipt.review.verdict

LedgerSpec == Ledger!LedgerSpec
=============================================================================
