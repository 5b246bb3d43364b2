------------------------ MODULE FrontierRunnerProofs ------------------------
(***************************************************************************)
(* Theorems about FrontierRunner, for every setting, any contents, panes   *)
(* and sessions, and one command at a time (Alone).                        *)
(***************************************************************************)
EXTENDS FrontierRunner, TLAPS

USE ResultAssumption, NoneAssumption, SentAssumption

\* The premise of all theorems here: no two commands of one run are under way at
\* once, however many follow each other.
Alone == \A p, q \in Proc : p = q

-----------------------------------------------------------------------------
(* The inductive invariant.                                                *)

\* The effects a command goes through before it comes to another.
Earlier ==
  [editorPane |-> {}, editorLaunch |-> {"editorPane"},
   browserPane |-> {"editorPane", "editorLaunch"},
   browserLaunch |-> {"editorPane", "editorLaunch", "browserPane"},
   workerPane |-> {"editorPane", "editorLaunch", "browserPane", "browserLaunch"},
   workerStart |-> {"editorPane", "editorLaunch", "browserPane", "browserLaunch",
                    "workerPane"},
   promptDispatch |-> {"editorPane", "editorLaunch", "browserPane", "browserLaunch",
                       "workerPane", "workerStart"},
   reviewerPane |-> {}, reviewerStart |-> {"reviewerPane"},
   reviewPromptDispatch |-> {"reviewerPane", "reviewerStart"},
   reviewerPaneClose |-> {}, workerPaneClose |-> {"reviewerPaneClose"},
   browserPaneClose |-> {"reviewerPaneClose", "workerPaneClose"},
   editorPaneClose |-> {"reviewerPaneClose", "workerPaneClose", "browserPaneClose"},
   cleanupComplete |-> CloseEffect]

AtEffect == {"mark", "call", "record"}
AtProof == {"observe", "wait", "look", "prove"}

\* What every receipt satisfies that a command ever leaves, readable or not.
PaneSound(r) ==
  \A role \in Role : EffectIs(r, SplitEffect[role], {"succeeded"}) <=> r.pane[role] # None

RunSound(r) ==
  \A e \in RunEffect :
    /\ ~EffectIs(r, e, {"absent"})
    /\ ~EffectIs(r, e, {"planned"}) => \A x \in Earlier[e] : EffectIs(r, x, {"succeeded"})
    /\ e = "promptDispatch" => ~EffectIs(r, e, {"failed"})

AnswerSound(r) ==
  /\ r.response <=> ~EffectIs(r, "responseDispatch", {"absent"})
  /\ ~EffectIs(r, "responseDispatch", {"planned"})
  /\ r.repair.responded <=> ~EffectIs(r, "repairResponseDispatch", {"absent"})
  /\ ~EffectIs(r, "repairResponseDispatch", {"planned"})

ReviewSound(r) ==
  /\ HasReview(r) => \A e \in ReviewEffect : ~EffectIs(r, e, {"absent"})
  /\ ~HasReview(r) => r.review.verdict = None /\ \A e \in ReviewEffect : EffectIs(r, e, {"absent"})

OutcomeSound(r) ==
  /\ HasDecision(r) => DecisionRecordValid(r)
  /\ HasRepair(r) => RepairRecordValid(r)
  /\ r.decision.recorded => HasDecision(r)
  /\ r.repair.marked => HasRepair(r)

StateSound(r) ==
  /\ r.state \in ReviewState =>
       HasReview(r) /\ CompletedObservation(r) /\ r.review.verdict = None
  /\ r.state \in RepairState =>
       /\ HasRepair(r) /\ CompletedObservation(r) /\ ~r.repair.marked
       /\ r.repair.before.result = r.obs.result

Sound(r) ==
  /\ PaneSound(r) /\ RunSound(r) /\ AnswerSound(r) /\ ReviewSound(r)
  /\ OutcomeSound(r) /\ StateSound(r)

\* What is on the receipt has happened.
Backed(r) ==
  /\ r.review.verdict # None =>
       [candidate |-> r.review.before, verdict |-> r.review.verdict] \in verdicts
  /\ r.obs.marked => r.obs.result \in printed \ {0}
  /\ HasDecision(r) => r.decision.candidate.result \in printed \ {0}
  /\ r.repair.marked =>
       /\ r.repair.result \in printed \ {r.repair.before.result}
       /\ sent["repairPromptDispatch"] = 1

\* Panes of the run that no effect in doubt may have made are on the receipt.
Recorded(r) == {r.pane[role] : role \in Role}
SplitInDoubt(r) == \E role \in Role : EffectIs(r, SplitEffect[role], {"unknown"})

Shape(r) ==
  \/ Readable(r)
  \/ WaitedAgain(r) \/ RepairPrompted(r) \/ AskedAgain(r) \/ NeverPrompted(r) \/ Reopened(r)

\* What the last write of a command leaves.
Ends(r) == Readable(r) \/ DeadEnd(r)

\* A receipt at rest: whatever command dies now, this is what the next one finds.
Sane(r) ==
  /\ Sound(r) /\ Backed(r) /\ Shape(r)
  /\ r.state = "cleaned" => panes = {}
  /\ SplitInDoubt(r) \/ panes \subseteq Recorded(r)
  /\ \A e \in Once : EffectIs(r, e, {"absent", "planned"}) => sent[e] = 0

Untouched == panes = {} /\ born = {} /\ \A e \in Once : sent[e] = 0

\* A worker that was not prompted has printed nothing, and until it is asked for a
\* repair it prints at most one marker and stops with it.
WorkerBound ==
  /\ sent["promptDispatch"] = 0 => printed = {} /\ status["worker"] \in {"none", "idle"}
  /\ sent["repairPromptDispatch"] = 0 =>
       /\ \A m, n \in printed : m = n
       /\ printed # {} => status["worker"] \in {"none", "idle"}

ReviewerBound == status["reviewer"] = "working" => receipt # None /\ HasReview(receipt)

\* What the receipt says while a command is at its effect e.
RunAt(label, r, e) ==
  /\ r.state \in {"prepared", "starting"}
  /\ r.state = "prepared" => label = "mark" /\ e = "editorPane"
  /\ \A x \in Earlier[e] : EffectIs(r, x, {"succeeded"})
  /\ \A x \in RunEffect \ (Earlier[e] \cup {e}) : EffectIs(r, x, {"planned"})
  /\ \A x \in EffectName \ RunEffect : EffectIs(r, x, {"absent"})

ReviewAt(r, e) ==
  /\ r.state = "review_starting"
  /\ \A x \in Earlier[e] : EffectIs(r, x, {"succeeded"})
  /\ \A x \in ReviewEffect \ (Earlier[e] \cup {e}) : EffectIs(r, x, {"planned"})
  /\ \A x \in EffectName \ ReviewEffect : ~EffectIs(r, x, {"unknown"})

DecisionAt(r) ==
  /\ r.state = "decision_starting" /\ HasDecision(r) /\ ~r.decision.recorded
  /\ EffectIs(r, "decisionRecord", {"planned", "unknown"})

\* The first prompt was settled, so that the worker's run can be proved.
Prompted(r) == WorkerConfirmed(r) /\ ~EffectIs(r, "promptDispatch", {"unknown"})

ResponseAt(r) ==
  /\ r.state = "blocked" /\ r.response /\ Prompted(r)
  /\ r.obs.status = "blocked" /\ ~r.obs.marked

RepairResponseAt(r) ==
  r.state = "repair_blocked" /\ r.repair.responded /\ r.repair.status = "blocked"

Closed(r, e) ==
  r.pane[RoleOf[e]] # None =>
    EffectIs(r, e, {"succeeded"}) /\ r.pane[RoleOf[e]] \notin panes

CloseAt(r, e) ==
  /\ r.state = "cleanup_pending" /\ Readable(r) /\ ~SplitInDoubt(r)
  /\ \A x \in Earlier[e] : Closed(r, x)

EffectAt(label, r, e) ==
  /\ e \in RunEffect => RunAt(label, r, e)
  /\ e \in ReviewEffect => ReviewAt(r, e)
  /\ e = "decisionRecord" => DecisionAt(r) /\ label = "mark"
  /\ e = "repairPromptDispatch" => r.state = "repair_starting"
  /\ e = "responseDispatch" => ResponseAt(r) /\ label # "mark"
  /\ e = "repairResponseDispatch" => RepairResponseAt(r) /\ label # "mark"
  /\ e \in CloseEffect => CloseAt(r, e)
  /\ e = "cleanupComplete" => CloseAt(r, e) /\ label = "mark"
  /\ e \in Once \cup CloseEffect \cup {"decisionRecord", "cleanupComplete"}
  /\ label = "mark" /\ e \in Once => EffectIs(r, e, {"planned"})
  /\ label \in {"call", "record"} => EffectIs(r, e, {"unknown"})

\* What holds besides when Herdr is called, and when its answer is recorded.
CallAt(r, e) ==
  /\ e \in Once => sent[e] = 0
  /\ e \in Split => panes \subseteq Recorded(r)
  /\ e \in Keys => status["worker"] \in {"blocked", "none"}
  /\ e \in CloseEffect => r.pane[RoleOf[e]] # None

RecordAt(r, e, answer, id) ==
  /\ answer \in {"ok", "uncertain", "rejected", "lost"}
  /\ answer = "uncertain" => e \in Prompt \cup Keys
  /\ answer = "rejected" => e \in Start \cup Keys \cup {"repairPromptDispatch"}
  /\ answer = "ok" /\ e \in Split => id \in Pane /\ panes \subseteq Recorded(r) \cup {id}
  /\ answer = "ok" /\ e \in CloseEffect => r.pane[RoleOf[e]] \notin panes

\* A proof is written over none of the states that end a run or a part of it.
ProofAt(r) ==
  /\ r.state \notin {"prepared", "completed", "reviewed", "review_breached",
                     "decision_starting", "decided", "repaired", "cleaned"}
  /\ Phase(r) = "run" => Prompted(r)

ConfirmAt(r, c) ==
  \/ c = "decide" /\ DecisionAt(r)
  \/ /\ c = "repair" /\ r.state = "repair_starting"
     /\ EffectIs(r, "repairPromptDispatch", {"planned"})

PlaceAt(label, c, e, r) ==
  /\ label = "check" => Readable(r) /\ Admits(c, r)
  /\ label \in AtEffect => EffectAt(label, r, e) /\ (e = "decisionRecord" => c = "decide")
  /\ label = "call" => CallAt(r, e)
  /\ label \in AtProof => ProofAt(r)
  /\ label = "confirm" => ConfirmAt(r, c)
  /\ label = "complete" =>
       CloseAt(r, "cleanupComplete") /\ EffectIs(r, "cleanupComplete", {"succeeded"})

CommandAt(p) ==
  pc[p] \notin {"idle", "create"} =>
    /\ receipt \in Receipt /\ mem[p] = receipt
    /\ PlaceAt(pc[p], cmd[p], eff[p], receipt)
    /\ pc[p] = "record" => RecordAt(receipt, eff[p], reply[p], given[p])

Label == {"idle", "create", "check", "mark", "call", "record", "observe",
          "wait", "look", "prove", "confirm", "complete"}
Answer == {None, "ok", "uncertain", "rejected", "lost", "idle", "working", "blocked"}

LocalTypeOK ==
  /\ mem \in [Proc -> Receipt \cup {None}]
  /\ cmd \in [Proc -> (setting \cap CommandName) \cup {None}]
  /\ pc \in [Proc -> Label]
  /\ eff \in [Proc -> EffectName \cup {None}]
  /\ reply \in [Proc -> Answer]
  /\ given \in [Proc -> Pane \cup {None}]

WorldTypeOK ==
  /\ panes \subseteq born /\ born \subseteq Pane
  /\ host \in [Agent -> Pane \cup {None}]
  /\ status \in [Agent -> {"none", "idle", "working", "blocked"}]
  /\ work \in Candidate
  /\ printed \subseteq Result
  /\ verdicts \subseteq [candidate : Candidate, verdict : Verdict]
  /\ session \in Session
  /\ sent \in [Once -> 0..MaxSent]

\* TypeOK without the half-made file, which no command but run looks at.
Typed ==
  setting \in Settings /\ receipt \in Receipt \cup {None} /\ LocalTypeOK /\ WorldTypeOK

Inv ==
  /\ Typed
  /\ IF receipt = None THEN Untouched ELSE Sane(receipt)
  /\ \A e \in Once : sent[e] \in {0, 1}
  /\ WorkerBound /\ ReviewerBound
  /\ \A p \in Proc : CommandAt(p)

-----------------------------------------------------------------------------
(* Moves of a command.                                                     *)

LEMMA TypeParts ==
  Typed <=> setting \in Settings /\ receipt \in Receipt \cup {None} /\ LocalTypeOK /\ WorldTypeOK
  BY DEF Typed

LEMMA EndMoves ==
  ASSUME LocalTypeOK, NEW p \in Proc, End(p), UNCHANGED setting
  PROVE  LocalTypeOK' /\ pc'[p] = "idle"
  BY DEF LocalTypeOK, End, Goto, At, Label, Answer

LEMMA ContinueMoves ==
  ASSUME LocalTypeOK, NEW p \in Proc, NEW label \in Label, NEW e \in EffectName \cup {None},
         Continue(p, label, e), UNCHANGED setting,
         mem' \in [Proc -> Receipt \cup {None}]
  PROVE  LocalTypeOK' /\ pc'[p] = label /\ eff'[p] = e /\ cmd'[p] = cmd[p]
  BY DEF LocalTypeOK, Continue, Goto, At, Label, Answer

\* A write leaves the invariant as it was if what it writes is sane and is what it
\* should be where the command goes on.
LEMMA WriteKeeps ==
  ASSUME Alone, Inv, NEW p \in Proc, NEW s \in Receipt, receipt' = s,
         UNCHANGED <<setting, World>>, LocalTypeOK',
         Sane(s), receipt # None /\ HasReview(receipt) => HasReview(s),
         pc'[p] = "idle" \/ (mem'[p] = s /\ pc'[p] # "record" /\ PlaceAt(pc'[p], cmd'[p], eff'[p], s))
  PROVE  Inv'
<1> USE DEF World, herdr, output
<1>1. Typed'
  <2>1. WorldTypeOK'
    BY TypeParts DEF Inv, WorldTypeOK
  <2>2. setting' \in Settings /\ receipt' \in Receipt \cup {None}
    BY TypeParts DEF Inv
  <2> QED BY <2>1, <2>2 DEF Typed
<1>2. receipt' # None /\ Sane(receipt)'
  BY DEF Sane, Backed
<1>3. (\A e \in Once : sent[e] \in {0, 1})' /\ WorkerBound'
  BY DEF Inv, WorkerBound
<1>4. ReviewerBound'
  BY <1>2 DEF Inv, ReviewerBound
<1>5. CommandAt(p)'
  BY DEF CommandAt, PlaceAt, EffectAt, CallAt, RunAt, CloseAt, Closed
<1>6. \A q \in Proc : CommandAt(q)'
  BY <1>5 DEF Alone
<1> QED BY <1>1, <1>2, <1>3, <1>4, <1>6 DEF Inv

LEMMA WriteAndEndKeeps ==
  ASSUME Alone, Inv, NEW p \in Proc, NEW s \in Receipt, WriteAndEnd(p, s),
         UNCHANGED <<setting, World>>,
         Sane(s), receipt # None /\ HasReview(receipt) => HasReview(s)
  PROVE  Inv'
<1>1. receipt' = s /\ LocalTypeOK' /\ pc'[p] = "idle"
  BY EndMoves, TypeParts DEF WriteAndEnd, Inv
<1> QED BY <1>1, WriteKeeps

LEMMA WriteAndGoOnKeeps ==
  ASSUME Alone, Inv, NEW p \in Proc, NEW s \in Receipt, Write(p, s),
         NEW label \in Label \ {"record"}, NEW e \in EffectName \cup {None}, Continue(p, label, e),
         UNCHANGED <<setting, World>>,
         Sane(s), receipt # None /\ HasReview(receipt) => HasReview(s),
         PlaceAt(label, cmd[p], e, s)
  PROVE  Inv'
<1>1. mem' \in [Proc -> Receipt \cup {None}] /\ mem'[p] = s /\ receipt' = s
  BY TypeParts DEF Inv, LocalTypeOK, Write
<1>2. LocalTypeOK' /\ pc'[p] = label /\ eff'[p] = e /\ cmd'[p] = cmd[p]
  BY <1>1, ContinueMoves, TypeParts DEF Inv
<1> QED BY <1>1, <1>2, WriteKeeps

\* Without a write it is enough to look at where the command goes.
LEMMA MoveKeeps ==
  ASSUME Alone, Inv, NEW p \in Proc, UNCHANGED <<setting, receipt, World>>, LocalTypeOK',
         pc'[p] \in {"idle", "create"} \/ (receipt # None /\ mem'[p] = receipt /\ pc'[p] # "record"
                             /\ PlaceAt(pc'[p], cmd'[p], eff'[p], receipt))
  PROVE  Inv'
<1> USE DEF World, herdr, output
<1>1. Typed'
  <2>1. WorldTypeOK'
    BY TypeParts DEF Inv, WorldTypeOK
  <2>2. setting' \in Settings /\ receipt' \in Receipt \cup {None}
    BY TypeParts DEF Inv
  <2> QED BY <2>1, <2>2 DEF Typed
<1>2. (IF receipt = None THEN Untouched ELSE Sane(receipt))'
  BY DEF Inv, Untouched, Sane, Backed
<1>3. (\A e \in Once : sent[e] \in {0, 1})' /\ WorkerBound'
  BY DEF Inv, WorkerBound
<1>4. ReviewerBound'
  BY <1>2 DEF Inv, ReviewerBound
<1>5. CommandAt(p)'
  BY TypeParts DEF Inv, CommandAt, PlaceAt, EffectAt, CallAt, RunAt, CloseAt, Closed
<1>6. \A q \in Proc : CommandAt(q)'
  BY <1>5 DEF Alone
<1> QED BY <1>1, <1>2, <1>3, <1>4, <1>6 DEF Inv

LEMMA GoOnKeeps ==
  ASSUME Alone, Inv, NEW p \in Proc, receipt # None, pc[p] \notin {"idle", "create"},
         NEW label \in Label \ {"record"}, NEW e \in EffectName \cup {None}, Continue(p, label, e),
         UNCHANGED <<setting, receipt, mem, World>>,
         PlaceAt(label, cmd[p], e, receipt)
  PROVE  Inv'
<1>1. LocalTypeOK' /\ pc'[p] = label /\ eff'[p] = e /\ cmd'[p] = cmd[p]
  BY ContinueMoves, TypeParts DEF Inv, LocalTypeOK
<1>2. mem'[p] = receipt
  BY DEF Inv, CommandAt
<1> QED BY <1>1, <1>2, MoveKeeps

LEMMA EndKeeps ==
  ASSUME Alone, Inv, NEW p \in Proc, End(p), UNCHANGED <<setting, receipt, World>>
  PROVE  Inv'
<1>1. LocalTypeOK' /\ pc'[p] = "idle"
  BY EndMoves, TypeParts DEF Inv
<1> QED BY <1>1, MoveKeeps

-----------------------------------------------------------------------------
(* What each write makes of the receipt, field by field.                   *)

InState(r, state) ==
  [r EXCEPT !.state = state]

Moved(r, state, e, outcome) ==
  WithEffect([r EXCEPT !.state = state], e, outcome)

Opened(r, role, id, e, outcome) ==
  WithEffect([r EXCEPT !.pane[role] = id], e, outcome)

Seen(r, state, seen, result, proved) ==
  [r EXCEPT !.state = state,
            !.obs = [status |-> seen, result |-> result, marked |-> proved]]

Answering(r) ==
  WithEffect([r EXCEPT !.state = "blocked", !.response = TRUE,
                       !.obs = [status |-> "blocked", result |-> None,
                                marked |-> FALSE]],
             "responseDispatch", "unknown")

AnsweringRepair(r) ==
  WithEffect([r EXCEPT !.repair.status = "blocked", !.repair.responded = TRUE],
             "repairResponseDispatch", "unknown")

Reviewing(r, candidate) ==
  [r EXCEPT !.state = "review_starting", !.review.before = candidate,
            !.effects = [e \in EffectName |->
               IF e \in ReviewEffect THEN "planned" ELSE r.effects[e]]]

Deciding(r, asked) ==
  [r EXCEPT !.state = "decision_starting",
            !.decision.candidate = r.review.before,
            !.decision.session = asked,
            !.effects["decisionRecord"] = "planned"]

Repairing(r, asked) ==
  [r EXCEPT !.state = "repair_starting",
            !.repair.before = r.review.after,
            !.repair.session = asked,
            !.effects["repairPromptDispatch"] = "planned"]

Settled(r, state, candidate) ==
  [[r EXCEPT !.review.after = candidate] EXCEPT !.state = state]

Judged(r, candidate, verdict) ==
  [[r EXCEPT !.review.after = candidate]
     EXCEPT !.state = "reviewed", !.review.verdict = verdict]

RepairBlocked(r) ==
  [r EXCEPT !.state = "repair_blocked", !.repair.status = "blocked"]

RepairUnproved(r, candidate, result) ==
  [r EXCEPT !.state = "repair_unproved",
            !.repair = [r.repair EXCEPT !.after = candidate, !.result = result,
                                        !.status = "idle", !.marked = FALSE]]

Repaired(r, candidate, result) ==
  [r EXCEPT !.state = "repaired",
            !.repair = [r.repair EXCEPT !.after = candidate, !.result = result,
                                        !.status = "idle", !.marked = TRUE],
            !.effects["repairPromptDispatch"] = "succeeded"]

RepairRecord ==
  [before : Candidate \cup {None}, after : Candidate \cup {None},
   result : Result \cup {None}, marked : BOOLEAN,
   status : {None, "idle", "blocked"}, responded : BOOLEAN,
   session : Session \cup {None}]

LEMMA StateFields ==
  ASSUME NEW r \in Receipt, NEW state \in RunState, NEW s, s = InState(r, state)
  PROVE  /\ s \in Receipt
         /\ s.state = state /\ s.effects = r.effects /\ s.pane = r.pane
         /\ s.response = r.response /\ s.obs = r.obs /\ s.review = r.review
         /\ s.decision = r.decision /\ s.repair = r.repair
  BY DEF InState, Receipt

LEMMA EffectFields ==
  ASSUME NEW r \in Receipt, NEW e \in EffectName, NEW outcome \in Outcome,
         NEW s, s = WithEffect(r, e, outcome)
  PROVE  /\ s \in Receipt
         /\ \A x \in EffectName : s.effects[x] = IF x = e THEN outcome ELSE r.effects[x]
         /\ s.state = r.state /\ s.pane = r.pane
         /\ s.response = r.response /\ s.obs = r.obs /\ s.review = r.review
         /\ s.decision = r.decision /\ s.repair = r.repair
  BY DEF Receipt, WithEffect

LEMMA MoveFields ==
  ASSUME NEW r \in Receipt, NEW state \in RunState, NEW e \in EffectName, NEW outcome \in Outcome,
         NEW s, s = Moved(r, state, e, outcome)
  PROVE  /\ s \in Receipt
         /\ \A x \in EffectName : s.effects[x] = IF x = e THEN outcome ELSE r.effects[x]
         /\ s.state = state /\ s.pane = r.pane
         /\ s.response = r.response /\ s.obs = r.obs /\ s.review = r.review
         /\ s.decision = r.decision /\ s.repair = r.repair
  BY DEF Moved, Receipt, WithEffect

LEMMA PaneFields ==
  ASSUME NEW r \in Receipt, NEW role \in Role, NEW id \in Pane,
         NEW e \in EffectName, NEW outcome \in Outcome,
         NEW s, s = Opened(r, role, id, e, outcome)
  PROVE  /\ s \in Receipt
         /\ \A x \in EffectName : s.effects[x] = IF x = e THEN outcome ELSE r.effects[x]
         /\ \A x \in Role : s.pane[x] = IF x = role THEN id ELSE r.pane[x]
         /\ s.state = r.state
         /\ s.response = r.response /\ s.obs = r.obs /\ s.review = r.review
         /\ s.decision = r.decision /\ s.repair = r.repair
  BY DEF Opened, Receipt, WithEffect

LEMMA ResponseFields ==
  ASSUME NEW r \in Receipt,
         NEW s, s = Answering(r)
  PROVE  /\ s \in Receipt
         /\ \A x \in EffectName :
              s.effects[x] = IF x = "responseDispatch" THEN "unknown" ELSE r.effects[x]
         /\ s.state = "blocked" /\ s.pane = r.pane /\ s.response /\ s.review = r.review
         /\ s.decision = r.decision /\ s.repair = r.repair
         /\ s.obs.status = "blocked" /\ s.obs.result = None /\ ~s.obs.marked
<1>1. PICK t : t = [r EXCEPT !.state = "blocked", !.response = TRUE,
                              !.obs = [status |-> "blocked", result |-> None, marked |-> FALSE]]
  OBVIOUS
<1>2. /\ t \in Receipt
      /\ t.state = "blocked" /\ t.effects = r.effects /\ t.pane = r.pane /\ t.response
      /\ t.review = r.review /\ t.decision = r.decision /\ t.repair = r.repair
      /\ t.obs.status = "blocked" /\ t.obs.result = None /\ ~t.obs.marked
  BY <1>1 DEF Answering, Receipt, RunState
<1>3. "responseDispatch" \in EffectName /\ "unknown" \in Outcome /\ s = WithEffect(t, "responseDispatch", "unknown")
  BY <1>1 DEF Answering, EffectName, Outcome
<1> QED BY <1>2, <1>3, EffectFields

LEMMA RepairResponseFields ==
  ASSUME NEW r \in Receipt,
         NEW s, s = AnsweringRepair(r)
  PROVE  /\ s \in Receipt
         /\ \A x \in EffectName :
              s.effects[x] = IF x = "repairResponseDispatch" THEN "unknown" ELSE r.effects[x]
         /\ s.state = r.state /\ s.pane = r.pane
         /\ s.response = r.response /\ s.obs = r.obs /\ s.review = r.review
         /\ s.decision = r.decision
         /\ s.repair.status = "blocked" /\ s.repair.responded
         /\ s.repair.before = r.repair.before /\ s.repair.after = r.repair.after
         /\ s.repair.result = r.repair.result /\ s.repair.marked = r.repair.marked
<1>1. PICK t : t = [r EXCEPT !.repair.status = "blocked", !.repair.responded = TRUE]
  OBVIOUS
<1>2. /\ t \in Receipt
      /\ t.state = r.state /\ t.effects = r.effects /\ t.pane = r.pane
      /\ t.response = r.response /\ t.obs = r.obs /\ t.review = r.review
      /\ t.decision = r.decision
      /\ t.repair.status = "blocked" /\ t.repair.responded
      /\ t.repair.before = r.repair.before /\ t.repair.after = r.repair.after
      /\ t.repair.result = r.repair.result /\ t.repair.marked = r.repair.marked
  <2>1. r.repair \in RepairRecord
    BY DEF AnsweringRepair, Receipt, RepairRecord
  <2>2. t.repair = [r.repair EXCEPT !.status = "blocked", !.responded = TRUE]
    BY <1>1 DEF AnsweringRepair, Receipt
  <2>3. t.repair \in RepairRecord
    BY <2>1, <2>2 DEF RepairRecord
  <2>4. t \in Receipt
    BY <1>1, <2>3 DEF AnsweringRepair, Receipt, RepairRecord
  <2>5. /\ t.state = r.state /\ t.effects = r.effects /\ t.pane = r.pane
        /\ t.response = r.response /\ t.obs = r.obs /\ t.review = r.review
        /\ t.decision = r.decision
    BY <1>1 DEF AnsweringRepair, Receipt
  <2> QED BY <2>1, <2>2, <2>4, <2>5 DEF RepairRecord
<1>3. "repairResponseDispatch" \in EffectName /\ "unknown" \in Outcome
      /\ s = WithEffect(t, "repairResponseDispatch", "unknown")
  BY <1>1 DEF AnsweringRepair, EffectName, Outcome
<1> QED BY <1>2, <1>3, EffectFields

LEMMA ReviewFields ==
  ASSUME NEW r \in Receipt, NEW candidate \in Candidate,
         NEW s, s = Reviewing(r, candidate)
  PROVE  /\ s \in Receipt
         /\ \A x \in EffectName :
              s.effects[x] = IF x \in ReviewEffect THEN "planned" ELSE r.effects[x]
         /\ s.state = "review_starting" /\ s.pane = r.pane
         /\ s.response = r.response /\ s.obs = r.obs
         /\ s.review.before = candidate /\ s.review.after = r.review.after
         /\ s.review.verdict = r.review.verdict
         /\ s.decision = r.decision /\ s.repair = r.repair
<1>1. [e \in EffectName |-> IF e \in ReviewEffect THEN "planned" ELSE r.effects[e]]
        \in [EffectName -> Outcome]
  BY DEF Reviewing, Receipt, Outcome
<1> QED BY ZenonT(60), <1>1 DEF Reviewing, Receipt, RunState, ReviewState

LEMMA DecisionFields ==
  ASSUME NEW r \in Receipt, NEW asked \in Session,
         NEW s, s = Deciding(r, asked)
  PROVE  /\ s \in Receipt
         /\ \A x \in EffectName :
              s.effects[x] = IF x = "decisionRecord" THEN "planned" ELSE r.effects[x]
         /\ s.state = "decision_starting" /\ s.pane = r.pane
         /\ s.response = r.response /\ s.obs = r.obs /\ s.review = r.review
         /\ s.decision.candidate = r.review.before
         /\ s.decision.recorded = r.decision.recorded /\ s.repair = r.repair
  BY ZenonT(60) DEF Deciding, Receipt, EffectName, Outcome, RunState

LEMMA RecordedFields ==
  ASSUME NEW r \in Receipt, NEW s, s = DecisionRecorded(r)
  PROVE  /\ s \in Receipt
         /\ \A x \in EffectName :
              s.effects[x] = IF x = "decisionRecord" THEN "succeeded" ELSE r.effects[x]
         /\ s.state = "decided" /\ s.pane = r.pane
         /\ s.response = r.response /\ s.obs = r.obs /\ s.review = r.review
         /\ s.decision.candidate = r.decision.candidate
         /\ s.decision.recorded /\ s.repair = r.repair
  BY ZenonT(60) DEF Receipt, DecisionRecorded, EffectName, Outcome, RunState

LEMMA RepairFields ==
  ASSUME NEW r \in Receipt, NEW asked \in Session,
         NEW s, s = Repairing(r, asked)
  PROVE  /\ s \in Receipt
         /\ \A x \in EffectName :
              s.effects[x] = IF x = "repairPromptDispatch" THEN "planned" ELSE r.effects[x]
         /\ s.state = "repair_starting" /\ s.pane = r.pane
         /\ s.response = r.response /\ s.obs = r.obs /\ s.review = r.review
         /\ s.decision = r.decision
         /\ s.repair.before = r.review.after /\ s.repair.marked = r.repair.marked
         /\ s.repair.responded = r.repair.responded
<1>1. s.effects \in [EffectName -> Outcome]
  BY DEF Repairing, Receipt, Outcome, EffectName
<1>2. s.repair \in RepairRecord
  BY ZenonT(60) DEF Repairing, Receipt, RepairRecord
<1>3. s \in Receipt
  BY ZenonT(60), <1>1, <1>2 DEF Repairing, Receipt, RepairRecord, RunState, RepairState
<1>4. "repairPromptDispatch" \in EffectName /\ "repairResponseDispatch" \in EffectName /\ "responseDispatch" \in EffectName
  BY DEF EffectName
<1>5. \A x \in EffectName :
         s.effects[x] = IF x = "repairPromptDispatch" THEN "planned" ELSE r.effects[x]
  BY <1>4 DEF Repairing, Receipt
<1>6. r.repair \in RepairRecord
  BY DEF Repairing, Receipt, RepairRecord
<1>7. s.repair = [r.repair EXCEPT !.before = r.review.after, !.session = asked]
  BY DEF Repairing, Receipt
<1>8. /\ s.state = "repair_starting" /\ s.pane = r.pane
      /\ s.response = r.response /\ s.obs = r.obs /\ s.review = r.review
      /\ s.decision = r.decision
  BY DEF Repairing, Receipt
<1>9. s.repair.before = r.review.after /\ s.repair.marked = r.repair.marked
      /\ s.repair.responded = r.repair.responded
  <2>1. ASSUME NEW u \in RepairRecord, NEW v, NEW x, NEW y,
               v = [u EXCEPT !.before = x, !.session = y]
        PROVE  v.before = x /\ v.marked = u.marked /\ v.responded = u.responded
    BY <2>1 DEF RepairRecord
  <2>2. PICK u : u = r.repair
    OBVIOUS
  <2>3. PICK v : v = s.repair
    OBVIOUS
  <2>4. v = [u EXCEPT !.before = r.review.after, !.session = asked]
    BY <2>2, <2>3, <1>7, Zenon
  <2>5. u \in RepairRecord
    BY <2>2, <1>6, Zenon
  <2>6. v.before = r.review.after /\ v.marked = u.marked /\ v.responded = u.responded
    BY <2>1, <2>4, <2>5, Zenon
  <2> QED BY <2>2, <2>3, <2>6, Zenon
<1> QED BY <1>3, <1>5, <1>8, <1>9

LEMMA ReviewedFields ==
  ASSUME NEW r \in Receipt, NEW state \in RunState, NEW candidate \in Candidate,
         NEW s, s = Settled(r, state, candidate)
  PROVE  /\ s \in Receipt
         /\ s.state = state /\ s.effects = r.effects /\ s.pane = r.pane
         /\ s.response = r.response /\ s.obs = r.obs
         /\ s.review.before = r.review.before /\ s.review.after = candidate
         /\ s.review.verdict = r.review.verdict
         /\ s.decision = r.decision /\ s.repair = r.repair
  BY DEF Settled, Receipt

LEMMA VerdictFields ==
  ASSUME NEW r \in Receipt, NEW verdict \in Verdict, NEW candidate \in Candidate,
         NEW s, s = Judged(r, candidate, verdict)
  PROVE  /\ s \in Receipt
         /\ s.state = "reviewed" /\ s.effects = r.effects /\ s.pane = r.pane
         /\ s.response = r.response /\ s.obs = r.obs
         /\ s.review.before = r.review.before /\ s.review.after = candidate
         /\ s.review.verdict = verdict
         /\ s.decision = r.decision /\ s.repair = r.repair
  BY ZenonT(60) DEF Judged, Receipt, RunState

LEMMA RepairBlockedFields ==
  ASSUME NEW r \in Receipt,
         NEW s, s = RepairBlocked(r)
  PROVE  /\ s \in Receipt
         /\ s.state = "repair_blocked" /\ s.effects = r.effects /\ s.pane = r.pane
         /\ s.response = r.response /\ s.obs = r.obs /\ s.review = r.review
         /\ s.decision = r.decision
         /\ s.repair.status = "blocked" /\ s.repair.responded = r.repair.responded
         /\ s.repair.before = r.repair.before /\ s.repair.marked = r.repair.marked
<1>1. s.effects \in [EffectName -> Outcome]
  BY DEF RepairBlocked, Receipt, Outcome, EffectName
<1>2. s.repair \in RepairRecord
  BY DEF RepairBlocked, Receipt, RepairRecord
<1>3. s \in Receipt
  BY <1>1, <1>2 DEF RepairBlocked, Receipt, RepairRecord, RunState, RepairState
<1>4. "repairPromptDispatch" \in EffectName /\ "repairResponseDispatch" \in EffectName /\ "responseDispatch" \in EffectName
  BY DEF EffectName
<1> QED BY <1>3, <1>4 DEF RepairBlocked, Receipt

LEMMA RepairUnprovedFields ==
  ASSUME NEW r \in Receipt, NEW candidate \in Candidate, NEW result \in Result,
         NEW s, s = RepairUnproved(r, candidate, result)
  PROVE  /\ s \in Receipt
         /\ s.state = "repair_unproved" /\ s.effects = r.effects /\ s.pane = r.pane
         /\ s.response = r.response /\ s.obs = r.obs /\ s.review = r.review
         /\ s.decision = r.decision
         /\ s.repair.before = r.repair.before /\ s.repair.responded = r.repair.responded
         /\ s.repair.after = candidate /\ s.repair.result = result /\ ~s.repair.marked
<1>1. s.effects \in [EffectName -> Outcome]
  BY DEF RepairUnproved, Receipt, Outcome, EffectName
<1>2. s.repair \in RepairRecord
  BY DEF RepairUnproved, Receipt, RepairRecord
<1>3. s \in Receipt
  BY ZenonT(60), <1>1, <1>2 DEF RepairUnproved, Receipt, RepairRecord, RunState, RepairState
<1>4. "repairPromptDispatch" \in EffectName /\ "repairResponseDispatch" \in EffectName /\ "responseDispatch" \in EffectName
  BY DEF EffectName
<1> QED BY ZenonT(60), <1>3, <1>4 DEF RepairUnproved, Receipt

LEMMA RepairedFields ==
  ASSUME NEW r \in Receipt, NEW candidate \in Candidate, NEW result \in Result,
         NEW s, s = Repaired(r, candidate, result)
  PROVE  /\ s \in Receipt
         /\ \A x \in EffectName :
              s.effects[x] = IF x = "repairPromptDispatch" THEN "succeeded" ELSE r.effects[x]
         /\ s.state = "repaired" /\ s.pane = r.pane
         /\ s.response = r.response /\ s.obs = r.obs /\ s.review = r.review
         /\ s.decision = r.decision
         /\ s.repair.before = r.repair.before /\ s.repair.responded = r.repair.responded
         /\ s.repair.after = candidate /\ s.repair.result = result /\ s.repair.marked
<1>1. s.effects \in [EffectName -> Outcome]
  BY DEF Repaired, Receipt, Outcome, EffectName
<1>2. s.repair \in RepairRecord
  BY DEF Repaired, Receipt, RepairRecord
<1>3. s \in Receipt
  BY <1>1, <1>2 DEF Repaired, Receipt, RepairRecord, RunState, RepairState
<1>4. "repairPromptDispatch" \in EffectName /\ "repairResponseDispatch" \in EffectName /\ "responseDispatch" \in EffectName
  BY DEF EffectName
<1>5. \A x \in EffectName :
         s.effects[x] = IF x = "repairPromptDispatch" THEN "succeeded" ELSE r.effects[x]
  BY <1>4 DEF Repaired, Receipt
<1>6. r.repair \in RepairRecord
  BY DEF Repaired, Receipt, RepairRecord
<1>7. s.repair = [r.repair EXCEPT !.after = candidate, !.result = result,
                                  !.status = "idle", !.marked = TRUE]
  BY DEF Repaired, Receipt
<1>8. /\ s.state = "repaired" /\ s.pane = r.pane
      /\ s.response = r.response /\ s.obs = r.obs /\ s.review = r.review
      /\ s.decision = r.decision
  BY DEF Repaired, Receipt
<1>9. /\ s.repair.before = r.repair.before /\ s.repair.responded = r.repair.responded
      /\ s.repair.after = candidate /\ s.repair.result = result /\ s.repair.marked
  <2>2. PICK u : u = r.repair
    OBVIOUS
  <2>3. PICK v : v = s.repair
    OBVIOUS
  <2>4. v = [u EXCEPT !.after = candidate, !.result = result,
                                !.status = "idle", !.marked = TRUE]
    BY <2>2, <2>3, <1>7, Zenon
  <2>5. u \in RepairRecord
    BY <2>2, <1>6, Zenon
  <2>6. /\ v.before = u.before /\ v.responded = u.responded
        /\ v.after = candidate /\ v.result = result /\ v.marked
    BY <2>4, <2>5 DEF RepairRecord
  <2> QED BY <2>2, <2>3, <2>6, Zenon
<1> QED BY <1>3, <1>5, <1>8, <1>9

-----------------------------------------------------------------------------
(* What a write leaves as it was.                                          *)

\* The panes of the run, and what the receipt says of the agents' work.
SamePlaces(r, s) ==
  /\ \A role \in Role : s.pane[role] = r.pane[role]
  /\ \A e \in RunEffect \cup ReviewEffect : s.effects[e] = r.effects[e]

SameAnswers(r, s) ==
  /\ s.response = r.response /\ s.repair.responded = r.repair.responded
  /\ \A e \in Keys : s.effects[e] = r.effects[e]

LEMMA EffectsAre ==
  /\ Keys = {"responseDispatch", "repairResponseDispatch"} /\ Keys \subseteq EffectName
  /\ "repairPromptDispatch" \in EffectName
  /\ Split = {"editorPane", "browserPane", "workerPane", "reviewerPane"}
  /\ Split \subseteq RunEffect \cup ReviewEffect
  /\ RunEffect \subseteq EffectName /\ ReviewEffect \subseteq EffectName
  /\ CloseEffect \subseteq EffectName /\ Once \subseteq EffectName
  /\ Once = RunEffect \cup ReviewEffect \cup Keys \cup {"repairPromptDispatch"}
  /\ Role = {"editor", "browser", "worker", "reviewer"}
  /\ \A role \in Role : SplitEffect[role] \in RunEffect \cup ReviewEffect
  BY DEF Keys, Split, RunEffect, ReviewEffect, CloseEffect, Once, Role, SplitEffect, EffectName,
         Launch, Start, Prompt

LEMMA PlacesKept ==
  ASSUME NEW r, NEW s, SamePlaces(r, s)
  PROVE  /\ PaneSound(r) => PaneSound(s)
         /\ RunSound(r) => RunSound(s)
         /\ CompletedRunEffects(s) <=> CompletedRunEffects(r)
         /\ SplitInDoubt(s) <=> SplitInDoubt(r)
         /\ Recorded(s) = Recorded(r)
<1>1. PaneSound(r) => PaneSound(s)
  BY ZenonT(60), EffectsAre DEF SamePlaces, PaneSound, EffectIs
<1>2. RunSound(r) => RunSound(s)
  BY DEF SamePlaces, RunSound, EffectIs, RunEffect, Earlier
<1>3. CompletedRunEffects(s) <=> CompletedRunEffects(r)
  BY DEF SamePlaces, CompletedRunEffects, EffectIs, RunEffect, RunRole
<1>4. SplitInDoubt(s) <=> SplitInDoubt(r)
  BY ZenonT(60), EffectsAre DEF SamePlaces, SplitInDoubt, EffectIs
<1>5. Recorded(s) = Recorded(r)
  BY DEF SamePlaces, Recorded
<1> QED BY <1>1, <1>2, <1>3, <1>4, <1>5

LEMMA ReviewKept ==
  ASSUME NEW r, NEW s, SamePlaces(r, s), HasReview(s) <=> HasReview(r),
         ~HasReview(r) => s.review.verdict = r.review.verdict, ReviewSound(r)
  PROVE  ReviewSound(s)
  BY DEF SamePlaces, ReviewSound, EffectIs, HasReview

LEMMA AnswersKept ==
  ASSUME NEW r, NEW s, SameAnswers(r, s), AnswerSound(r)
  PROVE  AnswerSound(s)
  BY EffectsAre DEF SameAnswers, AnswerSound, EffectIs

LEMMA ObservationKept ==
  ASSUME NEW r, NEW s, SamePlaces(r, s), s.obs = r.obs
  PROVE  CompletedObservation(s) <=> CompletedObservation(r)
  BY PlacesKept DEF CompletedObservation

\* A receipt at rest, its panes as they were, is sane if it is sound, backed and in shape.
LEMMA SaneKept ==
  ASSUME NEW r, NEW s, SamePlaces(r, s), Sane(r), Sound(s), Backed(s), Shape(s),
         s.state = "cleaned" => panes = {},
         \A e \in Keys \cup {"repairPromptDispatch"} :
            EffectIs(s, e, {"absent", "planned"}) => EffectIs(r, e, {"absent", "planned"})
  PROVE  Sane(s)
<1>1. \A e \in Once : EffectIs(s, e, {"absent", "planned"}) => sent[e] = 0
  BY EffectsAre DEF Sane, SamePlaces, EffectIs
<1> QED BY <1>1, PlacesKept DEF Sane

LEMMA ReadableFrom ==
  ASSUME NEW r, Sound(r), HasReview(r) => CompletedObservation(r), StateEvidence(r)
  PROVE  Readable(r)
  BY DEF Sound, PaneSound, RunSound, AnswerSound, ReviewSound, OutcomeSound, ReviewRecordValid,
         Readable, Role, RunRole

\* The prompt was settled and the worker is where the receipt says: the run was
\* gone through to its end, or broken off before its prompt.
LEMMA PromptedRun ==
  ASSUME NEW r \in Receipt, PaneSound(r), RunSound(r), Prompted(r),
         ~EffectIs(r, "promptDispatch", {"planned"})
  PROVE  CompletedRunEffects(r)
  BY DEF PaneSound, RunSound, Prompted, WorkerConfirmed, CompletedRunEffects, EffectIs, Earlier,
         RunEffect, RunRole, Role, SplitEffect, Receipt, EffectName, Outcome

LEMMA PromptedShape ==
  ASSUME NEW r \in Receipt, Sound(r), Prompted(r), r.state # "starting",
         CompletedRunEffects(r) /\ ~Reopened(r) => StateEvidence(r) \/ AskedAgain(r)
  PROVE  Shape(r) /\ Ends(r)
<1>1. CASE EffectIs(r, "promptDispatch", {"planned"})
  BY <1>1 DEF Shape, Ends, DeadEnd, NeverPrompted
<1>2. CASE ~EffectIs(r, "promptDispatch", {"planned"})
  <2>1. CompletedRunEffects(r)
    BY <1>2, PromptedRun DEF Sound
  <2> QED BY <2>1, ReadableFrom DEF Shape, Ends, DeadEnd, Reopened
<1> QED BY <1>1, <1>2

LEMMA PromptedKept ==
  ASSUME NEW r, NEW s, SamePlaces(r, s)
  PROVE  Prompted(s) <=> Prompted(r)
  BY DEF SamePlaces, Prompted, WorkerConfirmed, EffectIs, RunEffect, Role

\* A state in which none of the five ways shows but the last two.
LEMMA ShapeKept ==
  ASSUME NEW r, NEW s, Shape(r), SamePlaces(r, s), s.obs = r.obs, Sound(s),
         HasReview(s) <=> HasReview(r),
         r.state \notin {"timed_out", "repair_timed_out", "repair_starting", "blocked",
                        "repair_blocked", "completed"},
         s.state # "starting", Readable(r) => StateEvidence(s)
  PROVE  Shape(s)
<1>1. CASE Readable(r)
  BY <1>1, ReadableFrom, ObservationKept DEF Shape, Readable, ReviewRecordValid
<1>2. CASE NeverPrompted(r) \/ Reopened(r)
  BY <1>2, ObservationKept DEF Shape, NeverPrompted, Reopened, SamePlaces, EffectIs, RunEffect
<1> QED BY <1>1, <1>2 DEF Shape, WaitedAgain, RepairPrompted, AskedAgain

\* What a write may do to what is recorded: nothing, or one thing for good.
Progress(r, s) ==
  /\ r.state # "cleaned" /\ s \in Receipt
  /\ \A role \in Role : r.pane[role] # None => s.pane[role] = r.pane[role]
  /\ \/ /\ s.review.verdict = r.review.verdict
        /\ r.review.verdict # None => s.review = r.review
        /\ s.decision.recorded = r.decision.recorded
        /\ r.decision.recorded => s.decision = r.decision
        /\ s.repair.marked = r.repair.marked
        /\ r.repair.marked => s.repair = r.repair
     \/ /\ r.review.verdict = None /\ s.review.verdict # None /\ r.obs.marked
        /\ s.decision = r.decision /\ s.repair = r.repair /\ s.state # "cleaned"
     \/ /\ HasDecision(r) /\ ~r.decision.recorded /\ s.decision.recorded
        /\ s.review = r.review /\ s.repair = r.repair /\ s.state # "cleaned"
     \/ /\ HasRepair(r) /\ ~r.repair.marked /\ s.repair.marked
        /\ s.review = r.review /\ s.decision = r.decision /\ s.state # "cleaned"

LEMMA Labels ==
  {"check", "mark", "call", "observe", "wait", "look", "prove", "confirm", "complete"}
    \subseteq Label \ {"record"}
  BY DEF Label

-----------------------------------------------------------------------------
LEMMA Working ==
  ASSUME Inv, NEW p \in Proc, pc[p] \notin {"idle", "create"}
  PROVE  /\ receipt \in Receipt /\ receipt # None /\ mem[p] = receipt /\ Sane(receipt)
         /\ PlaceAt(pc[p], cmd[p], eff[p], receipt)
         /\ pc[p] = "record" => RecordAt(receipt, eff[p], reply[p], given[p])
         /\ setting \in Settings /\ WorldTypeOK /\ LocalTypeOK /\ WorkerBound
  BY TypeParts DEF Inv, CommandAt

-----------------------------------------------------------------------------
(* The steps of a command, one by one: what it checks, and its first write. *)

\* Names of the effects, and of their sets, at which a step looks.
LEMMA PlaceNames ==
  /\ {"decisionRecord", "cleanupComplete"} \cap (Once \cup CloseEffect) = {}
  /\ Keys \cap (RunEffect \cup ReviewEffect \cup CloseEffect \cup Split \cup Prompt \cup Start) = {}
  /\ "repairPromptDispatch" \notin RunEffect \cup ReviewEffect \cup CloseEffect \cup Split \cup Keys
  /\ CloseEffect \cap Once = {} /\ RunEffect \cap ReviewEffect = {}
  BY DEF Once, CloseEffect, Keys, RunEffect, ReviewEffect, Split, SplitEffect, Role, Prompt, Start,
         Launch

LEMMA RunSteps ==
  ASSUME Alone, Inv, NEW p \in Proc, Run(p), receipt = None, UNCHANGED setting
  PROVE  Inv' /\ receipt' = Fresh
<1>1. /\ Fresh \in Receipt
      /\ Fresh.state = "prepared" /\ Fresh.response = FALSE
      /\ \A e \in EffectName : Fresh.effects[e] = IF e \in RunEffect THEN "planned" ELSE "absent"
      /\ \A role \in Role : Fresh.pane[role] = None
      /\ Fresh.obs.marked = FALSE
      /\ Fresh.review.before = None /\ Fresh.review.verdict = None
      /\ Fresh.decision.candidate = None /\ Fresh.decision.recorded = FALSE
      /\ Fresh.repair.before = None /\ Fresh.repair.marked = FALSE /\ Fresh.repair.responded = FALSE
  BY DEF Fresh, Receipt, Outcome, RunState
<1>2. Untouched
  BY DEF Inv
<1>3. Sound(Fresh)
  <2>1. PaneSound(Fresh)
    BY <1>1, EffectsAre DEF PaneSound, EffectIs
  <2>2. RunSound(Fresh)
    BY <1>1, EffectsAre DEF RunSound, EffectIs
  <2>3. AnswerSound(Fresh)
    BY <1>1, EffectsAre, PlaceNames DEF AnswerSound, EffectIs
  <2>4. ReviewSound(Fresh)
    BY <1>1, EffectsAre, PlaceNames DEF ReviewSound, HasReview, EffectIs
  <2>5. OutcomeSound(Fresh) /\ StateSound(Fresh)
    BY <1>1 DEF OutcomeSound, StateSound, HasDecision, HasRepair, ReviewState, RepairState
  <2> QED BY <2>1, <2>2, <2>3, <2>4, <2>5 DEF Sound
<1>4. Readable(Fresh)
  <2>1. StateEvidence(Fresh)
    BY <1>1, EffectsAre DEF StateEvidence, EffectIs, RunRole, Role, ReviewState, RepairState
  <2> QED BY <1>1, <1>3, <2>1, ReadableFrom DEF HasReview
<1>5. Sane(Fresh)
  <2>1. Backed(Fresh)
    BY <1>1 DEF Backed, HasDecision
  <2> QED BY <1>1, <1>2, <1>3, <1>4, <2>1 DEF Sane, Shape, Untouched
<1>6. \A c : PlaceAt("mark", c, "editorPane", Fresh)
  <2>1. EffectAt("mark", Fresh, "editorPane")
    BY <1>1, EffectsAre DEF EffectAt, RunAt, EffectIs, Earlier, RunEffect, ReviewEffect, CloseEffect
  <2> QED BY <2>1 DEF PlaceAt, AtEffect, AtProof
<1>7. /\ receipt' = Fresh /\ mem'[p] = Fresh /\ LocalTypeOK'
      /\ pc'[p] = "mark" /\ eff'[p] = "editorPane"
  BY <1>1, TypeParts DEF Run, Write, Goto, At, Inv, LocalTypeOK, Label, Answer, EffectName,
     RunEffect
<1> QED BY <1>1, <1>2, <1>5, <1>6, <1>7, WriteKeeps DEF Run

LEMMA CreateSteps ==
  ASSUME Alone, Inv, NEW p \in Proc, Create(p), UNCHANGED setting
  PROVE  Inv' /\ receipt' = receipt
<1>1. LocalTypeOK' /\ pc'[p] = "create"
  BY TypeParts DEF Create, Goto, Inv, LocalTypeOK, Label, CommandName
<1> QED BY <1>1, MoveKeeps DEF Create

LEMMA BeginSteps ==
  ASSUME Alone, Inv, NEW p \in Proc, NEW c \in setting \cap CommandName, Begin(p, c),
         UNCHANGED setting
  PROVE  Inv' /\ receipt' = receipt
<1>1. PlaceAt("check", c, eff[p], receipt)
  BY DEF Begin, PlaceAt, AtEffect, AtProof
<1>2. receipt' = receipt /\ receipt # None /\ mem'[p] = receipt /\ LocalTypeOK'
      /\ pc'[p] = "check" /\ cmd'[p] = c /\ eff'[p] = eff[p]
  BY TypeParts DEF Begin, Goto, Inv, LocalTypeOK, Label
<1> QED BY <1>1, <1>2, MoveKeeps DEF Begin

LEMMA CheckDecideSteps ==
  ASSUME Alone, Inv, NEW p \in Proc, CheckDecide(p), UNCHANGED setting
  PROVE  Inv' /\ Progress(receipt, receipt')
<1> DEFINE r == receipt
<1>1. /\ r \in Receipt /\ r # None /\ mem[p] = r /\ Sane(r) /\ session \in Session
      /\ Readable(r) /\ DecideAdmits(r) /\ CandidateReviewed(r)
  BY Working DEF CheckDecide, PlaceAt, Admits, WorldTypeOK
<1>2. PICK s : s = Deciding(r, session)
  OBVIOUS
<1>3. /\ s \in Receipt
      /\ \A x \in EffectName :
           s.effects[x] = IF x = "decisionRecord" THEN "planned" ELSE r.effects[x]
      /\ s.state = "decision_starting" /\ s.pane = r.pane
      /\ s.response = r.response /\ s.obs = r.obs /\ s.review = r.review
      /\ s.decision.candidate = r.review.before
      /\ s.decision.recorded = r.decision.recorded /\ s.repair = r.repair
  BY <1>1, <1>2, DecisionFields
<1>4. SamePlaces(r, s) /\ SameAnswers(r, s) /\ "decisionRecord" \in EffectName
  BY <1>3 DEF SamePlaces, SameAnswers, RunEffect, ReviewEffect, EffectName, Keys
<1>5. /\ CompletedObservation(r) /\ HasReview(r) /\ r.review.verdict = "approve"
      /\ r.review.after = r.review.before /\ ~HasDecision(r) /\ ~r.decision.recorded
      /\ r.state = "reviewed"
  BY <1>1 DEF DecideAdmits, Readable, StateEvidence, ReviewRecordValid, Sane, Sound, OutcomeSound
<1>6. Sound(s)
  <2>1. OutcomeSound(s)
    BY <1>1, <1>3, <1>5 DEF Sane, Sound, OutcomeSound, HasDecision, HasRepair, BoundTo,
                            DecisionRecordValid, RepairRecordValid
  <2>2. StateSound(s)
    BY <1>3 DEF StateSound, ReviewState, RepairState
  <2> QED BY <1>1, <1>3, <1>4, <2>1, <2>2, PlacesKept, AnswersKept, ReviewKept
          DEF Sane, Sound, HasReview
<1>7. Backed(s)
  BY <1>1, <1>3, <1>5 DEF Sane, Backed, CandidateReviewed, CompletedObservation
<1>8. StateEvidence(s)
  BY <1>3, <1>4, <1>5 DEF StateEvidence, EffectIs, BoundTo, DecisionRecordValid, HasDecision,
                          HasReview, RepairState, ReviewState
<1>9. Sane(s)
  <2>1. Shape(s)
    BY <1>3, <1>4, <1>5, <1>6, <1>8, ReadableFrom, ObservationKept DEF Shape
  <2>2. \A e \in Keys \cup {"repairPromptDispatch"} : s.effects[e] = r.effects[e]
    BY <1>3 DEF Keys, EffectName
  <2> QED BY <1>1, <1>3, <1>4, <1>6, <1>7, <2>1, <2>2, SaneKept DEF EffectIs
<1>10. PlaceAt("mark", cmd[p], "decisionRecord", s)
  <2>1. DecisionAt(s)
    BY <1>3, <1>4, <1>5 DEF DecisionAt, EffectIs, HasDecision, HasReview
  <2> QED BY <2>1, EffectsAre, PlaceNames DEF CheckDecide, PlaceAt, EffectAt, AtEffect, AtProof
<1>11. Write(p, s) /\ Continue(p, "mark", "decisionRecord") /\ UNCHANGED World
  BY <1>1, <1>2 DEF CheckDecide, Deciding
<1>12. Progress(r, s)
  BY <1>3, <1>5 DEF Progress
<1> QED BY <1>1, <1>3, <1>4, <1>9, <1>10, <1>11, <1>12, Labels, WriteAndGoOnKeeps DEF HasReview,
           Write

LEMMA CheckRepairSteps ==
  ASSUME Alone, Inv, NEW p \in Proc, CheckRepair(p), UNCHANGED setting
  PROVE  Inv' /\ Progress(receipt, receipt')
<1> DEFINE r == receipt
<1>1. /\ r \in Receipt /\ r # None /\ mem[p] = r /\ Sane(r) /\ session \in Session
      /\ Readable(r) /\ RepairAdmits(r) /\ CandidateReviewed(r)
  BY Working DEF CheckRepair, PlaceAt, Admits, WorldTypeOK
<1>2. PICK s : s = Repairing(r, session)
  OBVIOUS
<1>3. /\ s \in Receipt
      /\ \A x \in EffectName :
           s.effects[x] = IF x = "repairPromptDispatch" THEN "planned" ELSE r.effects[x]
      /\ s.state = "repair_starting" /\ s.pane = r.pane
      /\ s.response = r.response /\ s.obs = r.obs /\ s.review = r.review
      /\ s.decision = r.decision
      /\ s.repair.before = r.review.after /\ s.repair.marked = r.repair.marked
      /\ s.repair.responded = r.repair.responded
  BY <1>1, <1>2, RepairFields
<1>4. SamePlaces(r, s) /\ SameAnswers(r, s) /\ "repairPromptDispatch" \in EffectName
  BY <1>3 DEF SamePlaces, SameAnswers, RunEffect, ReviewEffect, EffectName, Keys
<1>5. /\ CompletedObservation(r) /\ HasReview(r) /\ r.review.verdict = "request_changes"
      /\ r.review.after = r.review.before /\ ~HasRepair(r) /\ ~r.repair.marked
      /\ r.state = "reviewed" /\ EffectIs(r, "repairPromptDispatch", {"absent"})
  BY <1>1 DEF RepairAdmits, Readable, StateEvidence, ReviewRecordValid, Sane, Sound, OutcomeSound
<1>6. CompletedObservation(s)
  BY <1>3, <1>4, <1>5, ObservationKept
<1>7. Sound(s)
  <2>1. OutcomeSound(s)
    BY <1>1, <1>3, <1>5 DEF Sane, Sound, OutcomeSound, HasDecision, HasRepair, BoundTo,
                            DecisionRecordValid, RepairRecordValid
  <2>2. StateSound(s)
    BY <1>1, <1>3, <1>5, <1>6 DEF StateSound, ReviewState, RepairState, HasRepair, HasReview,
                                  CandidateReviewed
  <2> QED BY <1>1, <1>3, <1>4, <2>1, <2>2, PlacesKept, AnswersKept, ReviewKept
          DEF Sane, Sound, HasReview
<1>8. Backed(s)
  BY <1>1, <1>3, <1>5 DEF Sane, Backed, HasDecision
<1>9. StateEvidence(s)
  BY <1>3, <1>4, <1>5 DEF StateEvidence, EffectIs, BoundTo, RepairRecordValid, HasRepair,
                          HasReview, RepairState, ReviewState
<1>10. Sane(s)
  <2>1. Shape(s)
    BY <1>6, <1>7, <1>9, ReadableFrom DEF Shape
  <2>2. \A e \in Keys : s.effects[e] = r.effects[e]
    BY <1>4 DEF SameAnswers
  <2> QED BY <1>1, <1>3, <1>4, <1>5, <1>7, <1>8, <2>1, <2>2, SaneKept DEF EffectIs
<1>11. PlaceAt("confirm", cmd[p], None, s)
  BY <1>3, <1>4 DEF CheckRepair, PlaceAt, ConfirmAt, EffectIs, AtEffect, AtProof
<1>12. Write(p, s) /\ Continue(p, "confirm", None) /\ UNCHANGED World
  BY <1>1, <1>2 DEF CheckRepair, Repairing
<1>13. Progress(r, s)
  BY <1>3, <1>5 DEF Progress
<1> QED BY <1>1, <1>3, <1>10, <1>11, <1>12, <1>13, Labels, WriteAndGoOnKeeps DEF HasReview, Write

LEMMA CheckRespondSteps ==
  ASSUME Alone, Inv, NEW p \in Proc, CheckRespond(p), ~RepairResponse(receipt), UNCHANGED setting
  PROVE  Inv' /\ Progress(receipt, receipt')
<1> DEFINE r == receipt
           e == "responseDispatch"
<1>1. /\ r \in Receipt /\ r # None /\ mem[p] = r /\ Sane(r)
      /\ Readable(r) /\ RespondAdmits(r) /\ status["worker"] = "blocked"
  BY Working DEF CheckRespond, PlaceAt, Admits
<1>2. PICK s : s = Answering(r)
  OBVIOUS
<1>3. /\ s \in Receipt
      /\ \A x \in EffectName : s.effects[x] = IF x = e THEN "unknown" ELSE r.effects[x]
      /\ s.state = "blocked" /\ s.pane = r.pane /\ s.response /\ s.review = r.review
      /\ s.decision = r.decision /\ s.repair = r.repair
      /\ s.obs.status = "blocked" /\ s.obs.result = None /\ ~s.obs.marked
  BY <1>1, <1>2, ResponseFields
<1>4. SamePlaces(r, s) /\ s.effects[e] = "unknown"
      /\ s.effects["repairResponseDispatch"] = r.effects["repairResponseDispatch"]
      /\ s.effects["repairPromptDispatch"] = r.effects["repairPromptDispatch"]
  BY <1>3 DEF SamePlaces, RunEffect, ReviewEffect, EffectName
<1>5. /\ Prompted(r) /\ EffectIs(r, e, {"absent"}) /\ r.state # "cleaned"
  BY <1>1 DEF RespondAdmits, Prompted, NothingUnknown, EffectName, RunEffect
<1>6. Sound(s)
  <2>1. OutcomeSound(s)
    BY <1>1, <1>3 DEF Sane, Sound, OutcomeSound, HasDecision, HasRepair, BoundTo,
                      DecisionRecordValid, RepairRecordValid
  <2>2. StateSound(s)
    BY <1>3 DEF StateSound, ReviewState, RepairState
  <2>3. AnswerSound(s)
    BY <1>1, <1>3, <1>4 DEF Sane, Sound, AnswerSound, EffectIs
  <2> QED BY <1>1, <1>3, <1>4, <2>1, <2>2, <2>3, PlacesKept, ReviewKept DEF Sane, Sound, HasReview
<1>7. Backed(s)
  BY <1>1, <1>3 DEF Sane, Backed, HasDecision
<1>8. Prompted(s)
  BY <1>4, <1>5, PromptedKept
<1>9. Shape(s)
  <2>1. CompletedRunEffects(s) => StateEvidence(s)
    BY <1>3, <1>4 DEF StateEvidence, EffectIs, RepairState, ReviewState
  <2> QED BY <1>3, <1>6, <1>8, <2>1, PromptedShape
<1>10. Sane(s)
  BY <1>1, <1>3, <1>4, <1>6, <1>7, <1>9, SaneKept DEF EffectIs, Keys
<1>11. PlaceAt("call", cmd[p], e, s)
  <2>1. ResponseAt(s)
    BY <1>3, <1>8 DEF ResponseAt
  <2>2. EffectAt("call", s, e)
    BY <1>4, <2>1, EffectsAre, PlaceNames DEF EffectAt, EffectIs
  <2>3. CallAt(s, e)
    BY <1>1, <1>5, EffectsAre, PlaceNames DEF Sane, CallAt, EffectIs
  <2> QED BY <2>2, <2>3 DEF PlaceAt, AtEffect, AtProof
<1>12. Write(p, s) /\ Continue(p, "call", e) /\ UNCHANGED World
  BY <1>1, <1>2 DEF CheckRespond, Answering
<1>13. Progress(r, s)
  BY <1>3, <1>5 DEF Progress
<1> QED BY <1>1, <1>3, <1>10, <1>11, <1>12, <1>13, EffectsAre, Labels, WriteAndGoOnKeeps
        DEF HasReview, Write

LEMMA CheckRespondToRepairSteps ==
  ASSUME Alone, Inv, NEW p \in Proc, CheckRespond(p), RepairResponse(receipt), UNCHANGED setting
  PROVE  Inv' /\ Progress(receipt, receipt')
<1> DEFINE r == receipt
           e == "repairResponseDispatch"
<1>1. /\ r \in Receipt /\ r # None /\ mem[p] = r /\ Sane(r)
      /\ Readable(r) /\ RespondAdmits(r) /\ status["worker"] = "blocked"
  BY Working DEF CheckRespond, PlaceAt, Admits
<1>2. PICK s : s = AnsweringRepair(r)
  OBVIOUS
<1>3. /\ s \in Receipt
      /\ \A x \in EffectName : s.effects[x] = IF x = e THEN "unknown" ELSE r.effects[x]
      /\ s.state = "repair_blocked" /\ s.pane = r.pane
      /\ s.response = r.response /\ s.obs = r.obs /\ s.review = r.review
      /\ s.decision = r.decision
      /\ s.repair.status = "blocked" /\ s.repair.responded
      /\ s.repair.before = r.repair.before /\ s.repair.marked = r.repair.marked
  BY <1>1, <1>2, RepairResponseFields DEF RepairResponse
<1>4. SamePlaces(r, s) /\ s.effects[e] = "unknown"
      /\ s.effects["responseDispatch"] = r.effects["responseDispatch"]
      /\ s.effects["repairPromptDispatch"] = r.effects["repairPromptDispatch"]
  BY <1>3 DEF SamePlaces, RunEffect, ReviewEffect, EffectName
<1>5. /\ r.state = "repair_blocked" /\ EffectIs(r, e, {"absent"})
      /\ HasRepair(r) /\ ~r.repair.marked /\ CompletedObservation(r)
      /\ r.repair.before.result = r.obs.result
  BY <1>1 DEF RepairResponse, RespondAdmits, Sane, Sound, StateSound, RepairState
<1>6. CompletedObservation(s)
  BY <1>3, <1>4, <1>5, ObservationKept
<1>7. Sound(s)
  <2>1. OutcomeSound(s)
    BY <1>1, <1>3, <1>5 DEF Sane, Sound, OutcomeSound, HasDecision, HasRepair, BoundTo,
                            DecisionRecordValid, RepairRecordValid
  <2>2. StateSound(s)
    BY <1>3, <1>5, <1>6 DEF StateSound, ReviewState, RepairState, HasRepair
  <2>3. AnswerSound(s)
    BY <1>1, <1>3, <1>4 DEF Sane, Sound, AnswerSound, EffectIs
  <2> QED BY <1>1, <1>3, <1>4, <2>1, <2>2, <2>3, PlacesKept, ReviewKept DEF Sane, Sound, HasReview
<1>8. Backed(s)
  BY <1>1, <1>3, <1>5 DEF Sane, Backed, HasDecision
<1>9. StateEvidence(s)
  BY <1>3, <1>4, <1>5, <1>7 DEF StateEvidence, EffectIs, RepairState, ReviewState, Sound,
     OutcomeSound,
                                HasRepair
<1>10. Sane(s)
  <2>1. Shape(s)
    BY <1>6, <1>7, <1>9, ReadableFrom DEF Shape
  <2> QED BY <1>1, <1>3, <1>4, <1>7, <1>8, <2>1, SaneKept DEF EffectIs, Keys
<1>11. PlaceAt("call", cmd[p], e, s)
  <2>1. RepairResponseAt(s)
    BY <1>3 DEF RepairResponseAt
  <2>2. EffectAt("call", s, e)
    BY <1>4, <2>1, EffectsAre, PlaceNames DEF EffectAt, EffectIs
  <2>3. CallAt(s, e)
    BY <1>1, <1>5, EffectsAre, PlaceNames DEF Sane, CallAt, EffectIs
  <2> QED BY <2>2, <2>3 DEF PlaceAt, AtEffect, AtProof
<1>12. Write(p, s) /\ Continue(p, "call", e) /\ UNCHANGED World
  BY <1>1, <1>2 DEF CheckRespond, AnsweringRepair
<1>13. Progress(r, s)
  BY <1>3, <1>5 DEF Progress
<1> QED BY <1>1, <1>3, <1>10, <1>11, <1>12, <1>13, EffectsAre, Labels, WriteAndGoOnKeeps
        DEF HasReview, Write

LEMMA CheckReviewSteps ==
  ASSUME Alone, Inv, NEW p \in Proc, CheckReview(p), UNCHANGED setting
  PROVE  Inv' /\ Progress(receipt, receipt')
<1> DEFINE r == receipt
<1>1. /\ r \in Receipt /\ r # None /\ mem[p] = r /\ Sane(r) /\ work \in Candidate
      /\ Readable(r) /\ ReviewAdmits(r)
  BY Working DEF CheckReview, PlaceAt, Admits, WorldTypeOK
<1>2. PICK s : s = Reviewing(r, work)
  OBVIOUS
<1>3. /\ s \in Receipt
      /\ \A x \in EffectName :
           s.effects[x] = IF x \in ReviewEffect THEN "planned" ELSE r.effects[x]
      /\ s.state = "review_starting" /\ s.pane = r.pane
      /\ s.response = r.response /\ s.obs = r.obs
      /\ s.review.before = work /\ s.review.after = r.review.after
      /\ s.review.verdict = r.review.verdict
      /\ s.decision = r.decision /\ s.repair = r.repair
  BY <1>1, <1>2, ReviewFields
<1>4. /\ \A x \in RunEffect \cup Keys \cup {"repairPromptDispatch"} : s.effects[x] = r.effects[x]
      /\ \A x \in ReviewEffect : s.effects[x] = "planned"
  BY <1>3, EffectsAre, PlaceNames
<1>5. /\ r.state = "completed" /\ CompletedObservation(r) /\ ~HasReview(r)
      /\ r.review.verdict = None /\ \A x \in ReviewEffect : r.effects[x] = "absent"
      /\ NothingUnknown(r, {})
  BY <1>1 DEF ReviewAdmits, Readable, StateEvidence, Sane, Sound, ReviewSound, EffectIs
<1>6. HasReview(s) /\ ~HasDecision(r) /\ ~HasRepair(r)
  BY <1>1, <1>3, <1>5 DEF HasReview, HasDecision, HasRepair, Sane, Sound, OutcomeSound,
                          DecisionRecordValid, RepairRecordValid, BoundTo
<1>7. CompletedObservation(s)
  BY <1>3, <1>4, <1>5 DEF CompletedObservation, CompletedRunEffects, EffectIs, RunEffect
<1>8. Sound(s)
  <2>1. OutcomeSound(s)
    BY <1>1, <1>3, <1>6 DEF Sane, Sound, OutcomeSound, HasDecision, HasRepair
  <2>2. StateSound(s)
    BY <1>3, <1>5, <1>6, <1>7 DEF StateSound, ReviewState, RepairState
  <2>3. PaneSound(s)
    BY <1>1, <1>3, <1>4, <1>5 DEF Sane, Sound, PaneSound, EffectIs, SplitEffect, Role, RunEffect,
                                  ReviewEffect
  <2>4. RunSound(s)
    BY <1>1, <1>4 DEF Sane, Sound, RunSound, EffectIs, RunEffect, Earlier
  <2>5. AnswerSound(s)
    BY <1>1, <1>3, <1>4, AnswersKept DEF Sane, Sound, SameAnswers
  <2>6. ReviewSound(s)
    BY <1>4, <1>6 DEF ReviewSound, EffectIs
  <2> QED BY <2>1, <2>2, <2>3, <2>4, <2>5, <2>6 DEF Sound
<1>9. Backed(s)
  BY <1>1, <1>3, <1>5, <1>6 DEF Sane, Backed, HasDecision
<1>10. StateEvidence(s)
  BY <1>3, <1>4, <1>5, <1>6, <1>7 DEF StateEvidence, ReviewRecordValid, EffectIs, RepairState,
     ReviewState
<1>11. Sane(s)
  <2>1. Shape(s)
    BY <1>7, <1>8, <1>10, ReadableFrom DEF Shape
  <2>2. SplitInDoubt(r) => FALSE
    BY <1>5, EffectsAre DEF SplitInDoubt, NothingUnknown
  <2>3. Recorded(s) = Recorded(r)
    BY <1>3 DEF Recorded
  <2>4. \A x \in Once : EffectIs(s, x, {"absent", "planned"}) => sent[x] = 0
    BY <1>1, <1>4, <1>5, EffectsAre DEF Sane, EffectIs
  <2> QED BY <1>1, <1>3, <1>8, <1>9, <2>1, <2>2, <2>3, <2>4 DEF Sane
<1>12. PlaceAt("mark", cmd[p], "reviewerPane", s)
  <2>1. "reviewerPane" \in ReviewEffect /\ "reviewerPane" \in Once
    BY EffectsAre DEF ReviewEffect
  <2>2. ReviewAt(s, "reviewerPane")
    BY <1>3, <1>4, <1>5, EffectsAre DEF ReviewAt, NothingUnknown, EffectIs, Earlier
  <2>3. EffectAt("mark", s, "reviewerPane")
    BY <1>4, <2>1, <2>2, EffectsAre, PlaceNames DEF EffectAt, EffectIs
  <2> QED BY <2>3 DEF PlaceAt, AtEffect, AtProof
<1>13. Write(p, s) /\ Continue(p, "mark", "reviewerPane") /\ UNCHANGED World
  BY <1>1, <1>2 DEF CheckReview, Reviewing
<1>14. Progress(r, s)
  BY <1>3, <1>5 DEF Progress
<1>15. "reviewerPane" \in EffectName
  BY DEF EffectName, ReviewEffect
<1> QED BY <1>1, <1>3, <1>6, <1>11, <1>12, <1>13, <1>14, <1>15, Labels, WriteAndGoOnKeeps
        DEF Write

\* The decision is recorded by the command that made it, or by one that resumes it.
LEMMA DecisionRecordedSteps ==
  ASSUME Alone, Inv, NEW p \in Proc, pc[p] \notin {"idle", "create"}, DecisionAt(receipt),
         WriteAndEnd(p, DecisionRecorded(mem[p])), UNCHANGED <<setting, World>>
  PROVE  Inv' /\ Progress(receipt, receipt')
<1> DEFINE r == receipt
<1>1. r \in Receipt /\ r # None /\ mem[p] = r /\ Sane(r)
  BY Working
<1>2. PICK s : s = DecisionRecorded(r)
  OBVIOUS
<1>3. /\ s \in Receipt
      /\ \A x \in EffectName :
           s.effects[x] = IF x = "decisionRecord" THEN "succeeded" ELSE r.effects[x]
      /\ s.state = "decided" /\ s.pane = r.pane
      /\ s.response = r.response /\ s.obs = r.obs /\ s.review = r.review
      /\ s.decision.candidate = r.decision.candidate
      /\ s.decision.recorded /\ s.repair = r.repair
  BY <1>1, <1>2, RecordedFields
<1>4. /\ SamePlaces(r, s) /\ SameAnswers(r, s) /\ s.effects["decisionRecord"] = "succeeded"
      /\ s.effects["repairPromptDispatch"] = r.effects["repairPromptDispatch"]
  BY <1>3 DEF SamePlaces, SameAnswers, RunEffect, ReviewEffect, EffectName, Keys
<1>5. /\ r.state = "decision_starting" /\ HasDecision(r) /\ ~r.decision.recorded
      /\ DecisionRecordValid(r) /\ ~HasRepair(r)
  BY <1>1 DEF DecisionAt, Sane, Sound, OutcomeSound, HasRepair, DecisionRecordValid,
              RepairRecordValid, BoundTo
<1>6. DecisionRecordValid(s)
  BY <1>3, <1>5 DEF DecisionRecordValid, HasDecision, BoundTo
<1>7. Sound(s)
  <2>1. OutcomeSound(s)
    BY <1>1, <1>3, <1>5, <1>6 DEF Sane, Sound, OutcomeSound, HasRepair, DecisionRecordValid
  <2>2. StateSound(s)
    BY <1>3 DEF StateSound, ReviewState, RepairState
  <2> QED BY <1>1, <1>3, <1>4, <2>1, <2>2, PlacesKept, AnswersKept, ReviewKept
          DEF Sane, Sound, HasReview
<1>8. Backed(s)
  BY <1>1, <1>3, <1>5 DEF Sane, Backed, HasDecision
<1>9. Sane(s)
  <2>1. StateEvidence(s)
    BY <1>3, <1>4, <1>6 DEF StateEvidence, EffectIs, RepairState, ReviewState
  <2>2. Shape(s)
    BY <1>1, <1>3, <1>4, <1>5, <1>7, <2>1, ShapeKept DEF Sane, HasReview
  <2> QED BY <1>1, <1>3, <1>4, <1>7, <1>8, <2>2, SaneKept DEF SameAnswers, EffectIs
<1>10. Progress(r, s)
  BY <1>3, <1>5 DEF Progress
<1>11. WriteAndEnd(p, s)
  BY <1>1, <1>2
<1> QED BY <1>1, <1>3, <1>9, <1>10, <1>11, WriteAndEndKeeps DEF HasReview, WriteAndEnd

LEMMA CheckCleanupSteps ==
  ASSUME Alone, Inv, NEW p \in Proc, CheckCleanup(p), UNCHANGED setting
  PROVE  Inv' /\ Progress(receipt, receipt')
<1> DEFINE r == receipt
<1>1. /\ r \in Receipt /\ r # None /\ mem[p] = r /\ Sane(r)
      /\ Readable(r) /\ CleanupAdmits(r)
  BY Working DEF CheckCleanup, PlaceAt, Admits
<1>2. PICK s : s = InState(r, "cleanup_pending")
  OBVIOUS
<1>3. /\ s \in Receipt
      /\ s.state = "cleanup_pending" /\ s.effects = r.effects /\ s.pane = r.pane
      /\ s.response = r.response /\ s.obs = r.obs /\ s.review = r.review
      /\ s.decision = r.decision /\ s.repair = r.repair
  BY <1>1, <1>2, StateFields DEF RunState
<1>4. /\ SamePlaces(r, s) /\ SameAnswers(r, s)
      /\ r.state # "cleaned" /\ ~SplitInDoubt(r)
  BY <1>1, <1>3 DEF SamePlaces, SameAnswers, CleanupAdmits, SplitInDoubt
<1>5. Sound(s)
  <2>1. OutcomeSound(s)
    BY <1>1, <1>3 DEF Sane, Sound, OutcomeSound, HasDecision, HasRepair, BoundTo,
                      DecisionRecordValid, RepairRecordValid
  <2>2. StateSound(s)
    BY <1>3 DEF StateSound, ReviewState, RepairState
  <2> QED BY <1>1, <1>3, <1>4, <2>1, <2>2, PlacesKept, AnswersKept, ReviewKept
          DEF Sane, Sound, HasReview
<1>6. Backed(s)
  BY <1>1, <1>3 DEF Sane, Backed, HasDecision
<1>7. Readable(s)
  <2>1. HasReview(s) => CompletedObservation(s)
    BY <1>1, <1>3, <1>4, ObservationKept DEF Readable, ReviewRecordValid, HasReview
  <2>2. StateEvidence(s)
    BY <1>1, <1>3 DEF StateEvidence, CleanupAdmits, RepairState, ReviewState, Role, RunRole,
       EffectIs
  <2> QED BY <1>5, <2>1, <2>2, ReadableFrom
<1>8. Sane(s)
  BY <1>1, <1>3, <1>4, <1>5, <1>6, <1>7, SaneKept DEF Shape, EffectIs
<1>9. PlaceAt("mark", cmd[p], "reviewerPaneClose", s)
  <2>1. "reviewerPaneClose" \in CloseEffect
    BY DEF CloseEffect
  <2>2. CloseAt(s, "reviewerPaneClose")
    BY <1>3, <1>4, <1>7, PlacesKept DEF CloseAt, Earlier
  <2>3. EffectAt("mark", s, "reviewerPaneClose")
    BY <2>1, <2>2, EffectsAre, PlaceNames DEF EffectAt, RunEffect, ReviewEffect
  <2> QED BY <2>3 DEF PlaceAt, AtEffect, AtProof
<1>10. Write(p, s) /\ Continue(p, "mark", "reviewerPaneClose") /\ UNCHANGED World
  BY <1>1, <1>2 DEF CheckCleanup, InState
<1>11. Progress(r, s)
  BY <1>3, <1>4 DEF Progress
<1>12. "reviewerPaneClose" \in EffectName
  BY DEF EffectName, CloseEffect
<1> QED BY <1>1, <1>3, <1>8, <1>9, <1>10, <1>11, <1>12, Labels, WriteAndGoOnKeeps
        DEF HasReview, Write

LEMMA CheckResumeSteps ==
  ASSUME Alone, Inv, NEW p \in Proc, CheckResume(p), UNCHANGED setting
  PROVE  Inv' /\ receipt' = receipt
<1> DEFINE r == receipt
<1>1. /\ r \in Receipt /\ r # None /\ mem[p] = r
      /\ Readable(r) /\ ResumeAdmits(r) /\ r.state # "decision_starting" /\ pc[p] = "check"
  BY Working DEF CheckResume, PlaceAt, Admits
<1>2. r.state # "prepared"
  BY <1>1 DEF Readable, StateEvidence, ResumeAdmits, WorkerConfirmed, EffectIs, RunEffect,
              RepairState, ReviewState
<1>3. Phase(r) = "run" => Prompted(r)
  BY <1>1 DEF Phase, ResumeAdmits, Prompted, NothingUnknown, EffectName, RunEffect
<1>4. ProofAt(r)
  BY <1>1, <1>2, <1>3 DEF ProofAt, ResumeAdmits, RepairState, ReviewState
<1>5. PlaceAt("observe", cmd[p], None, r)
  BY <1>4 DEF PlaceAt, AtEffect
<1> QED BY <1>1, <1>5, Labels, GoOnKeeps DEF CheckResume

-----------------------------------------------------------------------------
(* The order of the effects, and writes that change little but an effect.  *)

LEMMA EarlierNames ==
  /\ \A e \in RunEffect : Earlier[e] \subseteq RunEffect \ {e}
  /\ \A e \in ReviewEffect : Earlier[e] \subseteq ReviewEffect \ {e}
  /\ \A e \in CloseEffect : Earlier[e] \subseteq CloseEffect \ {e}
  /\ Earlier["cleanupComplete"] = CloseEffect
  /\ \A e \in RunEffect : \A x \in Earlier[e] : Earlier[x] \subseteq Earlier[e]
  BY DEF Earlier, RunEffect, ReviewEffect, CloseEffect

LEMMA AfterNames ==
  /\ DOMAIN After = (RunEffect \cup ReviewEffect \cup CloseEffect)
                      \ {"promptDispatch", "reviewPromptDispatch"}
  /\ CloseEffect \subseteq DOMAIN After
  /\ RunEffect \ {"promptDispatch"} \subseteq DOMAIN After
  /\ ReviewEffect \ {"reviewPromptDispatch"} \subseteq DOMAIN After
  /\ \A e \in DOMAIN After : Earlier[After[e]] = Earlier[e] \cup {e}
  /\ \A e \in RunEffect \cap DOMAIN After : After[e] \in RunEffect
  /\ \A e \in ReviewEffect \cap DOMAIN After : After[e] \in ReviewEffect
  /\ \A e \in CloseEffect : After[e] \in CloseEffect \cup {"cleanupComplete"}
  BY DEF After, Earlier, RunEffect, ReviewEffect, CloseEffect

LEMMA RoleNames ==
  /\ \A e \in EffectName : RoleOf[e] \in Role
  /\ \A role \in Role : /\ SplitEffect[role] \in Split /\ RoleOf[SplitEffect[role]] = role
                        /\ PaneCloseEffect[role] \in CloseEffect
                        /\ RoleOf[PaneCloseEffect[role]] = role
  /\ \A e \in Split : SplitEffect[RoleOf[e]] = e
  /\ \A role \in RunRole : SplitEffect[role] \in RunEffect
  /\ \A e \in CloseEffect : PaneCloseEffect[RoleOf[e]] = e
  /\ RoleOf["reviewerPane"] = "reviewer" /\ SplitEffect["reviewer"] = "reviewerPane"
  /\ RunRole \subseteq Role /\ Role = RunRole \cup {"reviewer"}
  BY DEF RoleOf, Role, RunRole, SplitEffect, PaneCloseEffect, Split, EffectName, RunEffect,
     ReviewEffect, CloseEffect,
         WaitEffect

\* What the receipt says of proof, review, decision and repair.
SameRecord(r, s) ==
  /\ s.response = r.response /\ s.obs = r.obs /\ s.review = r.review
  /\ s.decision = r.decision /\ s.repair = r.repair

LEMMA RecordKept ==
  ASSUME NEW r, NEW s, SameRecord(r, s)
  PROVE  /\ Backed(r) => Backed(s)
         /\ OutcomeSound(r) => OutcomeSound(s)
         /\ HasReview(s) <=> HasReview(r)
         /\ HasDecision(s) <=> HasDecision(r)
         /\ HasRepair(s) <=> HasRepair(r)
         /\ DecisionRecordValid(s) <=> DecisionRecordValid(r)
         /\ RepairRecordValid(s) <=> RepairRecordValid(r)
  BY DEF SameRecord, Backed, OutcomeSound, HasReview, HasDecision, HasRepair, DecisionRecordValid,
         RepairRecordValid, BoundTo

LEMMA RecordProgress ==
  ASSUME NEW r, NEW s \in Receipt, SameRecord(r, s), r.state # "cleaned",
         \A role \in Role : r.pane[role] # None => s.pane[role] = r.pane[role]
  PROVE  Progress(r, s)
  BY DEF SameRecord, Progress

\* The effects of the run command when it is at its effect e, whatever came of it.
RunOrder(r, e) ==
  /\ \A x \in Earlier[e] : EffectIs(r, x, {"succeeded"})
  /\ \A x \in RunEffect \ (Earlier[e] \cup {e}) : EffectIs(r, x, {"planned"})
  /\ \A x \in EffectName \ RunEffect : EffectIs(r, x, {"absent"})

LEMMA RunOrderSound ==
  ASSUME NEW r, NEW s, NEW e \in RunEffect, NEW old, NEW x,
         Sound(r), RunAt(old, r, x), SameRecord(r, s),
         RunOrder(s, e), s.state \notin RepairState \cup ReviewState,
         s.effects[e] # "absent", e = "promptDispatch" => s.effects[e] # "failed",
         PaneSound(s)
  PROVE  Sound(s)
<1>1. RunSound(s)
  BY EarlierNames DEF RunOrder, RunSound, EffectIs
<1>2. \A y \in ReviewEffect \cup Keys : s.effects[y] = "absent" /\ r.effects[y] = "absent"
  BY EffectsAre, PlaceNames DEF RunOrder, RunAt, EffectIs
<1>3. AnswerSound(s) /\ ReviewSound(s)
  BY <1>2, EffectsAre DEF SameRecord, Sound, AnswerSound, ReviewSound, EffectIs, HasReview,
     ReviewEffect
<1> QED BY <1>1, <1>3, RecordKept DEF Sound, StateSound

\* Writes of the run command at its effect e.
LEMMA RunningSound ==
  ASSUME NEW r, NEW s, NEW e \in RunEffect, NEW label, NEW old, NEW x,
         Sound(r), RunAt(old, r, x), SameRecord(r, s),
         RunAt(label, s, e), s.state \notin RepairState \cup ReviewState,
         s.effects[e] # "absent", e = "promptDispatch" => s.effects[e] # "failed",
         PaneSound(s)
  PROVE  Sound(s)
<1>1. RunOrder(s, e)
  BY DEF RunAt, RunOrder
<1> QED BY <1>1, RunOrderSound

\* A run of which nothing is reviewed yet.
LEMMA Unreviewed ==
  ASSUME NEW r, NEW label, NEW e, RunAt(label, r, e), Sound(r)
  PROVE  ~HasReview(r)
  BY EffectsAre, PlaceNames DEF RunAt, Sound, ReviewSound, EffectIs, ReviewEffect

\* Writes of the review command at its effect e.
LEMMA ReviewingSound ==
  ASSUME NEW r, NEW s, Sound(r), r.state \in ReviewState,
         SameRecord(r, s), s.state \in {"review_starting", "review_timed_out"},
         \A x \in RunEffect \cup Keys : s.effects[x] = r.effects[x],
         \A x \in ReviewEffect : s.effects[x] # "absent",
         \A role \in RunRole : s.pane[role] = r.pane[role],
         PaneSound(s)
  PROVE  Sound(s) /\ Readable(s) /\ HasReview(s)
<1>1. HasReview(r) /\ CompletedObservation(r) /\ r.review.verdict = None
  BY DEF Sound, StateSound
<1>2. CompletedObservation(s)
  BY <1>1 DEF CompletedObservation, CompletedRunEffects, SameRecord, EffectIs, RunEffect
<1>3. RunSound(s)
  BY DEF Sound, RunSound, EffectIs, RunEffect, Earlier
<1>4. AnswerSound(s)
  BY AnswersKept DEF Sound, SameRecord, SameAnswers
<1>5. ReviewSound(s)
  BY <1>1, RecordKept DEF ReviewSound, EffectIs
<1>6. StateSound(s)
  BY <1>1, <1>2, RecordKept DEF StateSound, ReviewState, RepairState, SameRecord
<1>7. Sound(s)
  BY <1>3, <1>4, <1>5, <1>6, RecordKept DEF Sound
<1>8. StateEvidence(s)
  BY <1>1, <1>2, RecordKept DEF StateEvidence, ReviewRecordValid, EffectIs, SameRecord,
     RepairState, ReviewState
<1> QED BY <1>1, <1>2, <1>7, <1>8, RecordKept, ReadableFrom

\* Writes while a repair is under way.
LEMMA RepairingSound ==
  ASSUME NEW r, NEW s, Sound(r), r.state \in RepairState,
         SamePlaces(r, s), SameRecord(r, s), AnswerSound(s), s.state \notin ReviewState
  PROVE  /\ Sound(s) /\ CompletedObservation(s) /\ RepairRecordValid(s) /\ ~s.repair.marked
         /\ StateEvidence(s) => Readable(s)
<1>1. /\ HasRepair(r) /\ CompletedObservation(r) /\ RepairRecordValid(r) /\ ~r.repair.marked
      /\ r.repair.before.result = r.obs.result
  BY DEF Sound, StateSound, OutcomeSound
<1>2. CompletedObservation(s)
  BY <1>1, ObservationKept DEF SameRecord
<1>3. StateSound(s)
  BY <1>1, <1>2, RecordKept DEF StateSound, SameRecord
<1>4. Sound(s)
  BY <1>3, PlacesKept, ReviewKept, RecordKept DEF Sound, SameRecord
<1> QED BY <1>1, <1>2, <1>4, RecordKept, ReadableFrom DEF SameRecord

\* Writes while the run is cleaned up.
LEMMA CleaningSound ==
  ASSUME NEW r, NEW s, Sound(r), Readable(r), r.state = "cleanup_pending",
         s.state = "cleanup_pending", SamePlaces(r, s), SameAnswers(r, s), SameRecord(r, s)
  PROVE  Sound(s) /\ Readable(s)
<1>1. StateSound(s)
  BY DEF StateSound, ReviewState, RepairState
<1>2. Sound(s)
  BY <1>1, PlacesKept, AnswersKept, ReviewKept, RecordKept DEF Sound, SameRecord
<1>3. HasReview(s) => CompletedObservation(s)
  BY ObservationKept, RecordKept DEF Readable, ReviewRecordValid, SameRecord
<1>4. StateEvidence(s)
  BY RoleNames, EffectsAre DEF Readable, StateEvidence, SamePlaces, EffectIs, ReviewState,
     RepairState
<1> QED BY <1>2, <1>3, <1>4, ReadableFrom

-----------------------------------------------------------------------------
(* Marking an effect.                                                      *)

LEMMA MarkRunSteps ==
  ASSUME Alone, Inv, NEW p \in Proc, Mark(p), eff[p] \in RunEffect, UNCHANGED setting
  PROVE  Inv' /\ Progress(receipt, receipt')
<1> DEFINE r == receipt
           e == eff[p]
<1>1. /\ r \in Receipt /\ r # None /\ mem[p] = r /\ Sane(r) /\ e \in EffectName
      /\ RunAt("mark", r, e) /\ EffectIs(r, e, {"planned"}) /\ e \in Once
  BY Working, EffectsAre DEF Mark, PlaceAt, AtEffect, EffectAt
<1>2. PICK s : s = IF e \in Split THEN Moved(r, "starting", e, "unknown") ELSE WithEffect(r, e, "unknown")
  OBVIOUS
<1>3. /\ s \in Receipt
      /\ \A x \in EffectName : s.effects[x] = IF x = e THEN "unknown" ELSE r.effects[x]
      /\ s.state = "starting" /\ s.pane = r.pane /\ SameRecord(r, s)
  <2>1. "unknown" \in Outcome /\ "starting" \in RunState
    BY DEF Outcome, RunState
  <2>2. CASE e \in Split
    BY <1>1, <1>2, <2>1, <2>2, MoveFields DEF SameRecord
  <2>3. CASE e \notin Split
    <3>1. r.state = "starting"
      BY <1>1, <2>3, EffectsAre DEF RunAt
    <3> QED BY <1>1, <1>2, <2>1, <2>3, <3>1, EffectFields DEF SameRecord
  <2> QED BY <2>2, <2>3
<1>4. RunAt("call", s, e)
  BY <1>1, <1>3, EarlierNames, EffectsAre DEF RunAt, EffectIs
<1>5. PaneSound(s)
  BY <1>1, <1>3, RoleNames, EffectsAre DEF Sane, Sound, PaneSound, EffectIs
<1>6. Sound(s)
  BY <1>1, <1>3, <1>4, <1>5, RunningSound DEF Sane, RepairState, ReviewState
<1>7. Readable(s)
  <2>1. StateEvidence(s)
    BY <1>3 DEF StateEvidence, RepairState, ReviewState
  <2> QED BY <1>4, <1>6, <2>1, Unreviewed, ReadableFrom
<1>8. Recorded(s) = Recorded(r)
  BY <1>3 DEF Recorded
<1>9. panes \subseteq Recorded(r) \/ SplitInDoubt(r)
  BY <1>1 DEF Sane
<1>10. ~SplitInDoubt(r)
  BY <1>1, RoleNames, EffectsAre, PlaceNames DEF RunAt, SplitInDoubt, EffectIs, ReviewEffect
<1>11. Sane(s)
  <2>1. \A x \in Once : EffectIs(s, x, {"absent", "planned"}) => sent[x] = 0
    BY <1>1, <1>3, EffectsAre DEF Sane, EffectIs
  <2> QED BY <1>1, <1>3, <1>6, <1>7, <1>8, <1>9, <1>10, <2>1, RecordKept DEF Sane, Shape
<1>12. PlaceAt("call", cmd[p], e, s)
  <2>1. EffectAt("call", s, e)
    BY <1>1, <1>3, <1>4, EffectsAre, PlaceNames DEF EffectAt, EffectIs
  <2>2. CallAt(s, e)
    BY <1>1, <1>8, <1>9, <1>10, EffectsAre, PlaceNames DEF CallAt, Sane, EffectIs
  <2>3. e # "decisionRecord"
    BY <1>1, PlaceNames
  <2> QED BY <2>1, <2>2, <2>3 DEF PlaceAt, AtEffect, AtProof
<1>13. Write(p, s) /\ Continue(p, "call", e) /\ UNCHANGED World
  <2>1. r.state # "review_starting"
    BY <1>1 DEF RunAt
  <2> QED BY <1>1, <1>2, <2>1 DEF Mark, Moved
<1>14. Progress(r, s)
  BY <1>1, <1>3, RecordProgress DEF RunAt
<1> QED BY <1>1, <1>3, <1>11, <1>12, <1>13, <1>14, Labels, RecordKept, WriteAndGoOnKeeps DEF Write

LEMMA MarkReviewSteps ==
  ASSUME Alone, Inv, NEW p \in Proc, Mark(p), eff[p] \in ReviewEffect, UNCHANGED setting
  PROVE  Inv' /\ Progress(receipt, receipt')
<1> DEFINE r == receipt
           e == eff[p]
<1>1. /\ r \in Receipt /\ r # None /\ mem[p] = r /\ Sane(r) /\ e \in EffectName
      /\ ReviewAt(r, e) /\ EffectIs(r, e, {"planned"}) /\ e \in Once
  BY Working, EffectsAre DEF Mark, PlaceAt, AtEffect, EffectAt
<1>2. PICK s : s = WithEffect(r, e, "unknown")
  OBVIOUS
<1>3. /\ s \in Receipt
      /\ \A x \in EffectName : s.effects[x] = IF x = e THEN "unknown" ELSE r.effects[x]
      /\ s.state = "review_starting" /\ s.pane = r.pane /\ SameRecord(r, s)
  <2>1. "unknown" \in Outcome
    BY DEF Outcome
  <2> QED BY <1>1, <1>2, <2>1, EffectFields DEF SameRecord, ReviewAt
<1>4. \A x \in RunEffect \cup Keys \cup {"repairPromptDispatch"} : s.effects[x] = r.effects[x]
  BY <1>3, EffectsAre, PlaceNames
<1>5. PaneSound(s)
  BY <1>1, <1>3, RoleNames, EffectsAre DEF Sane, Sound, PaneSound, EffectIs
<1>6. HasReview(r) /\ \A x \in ReviewEffect : r.effects[x] # "absent"
  BY <1>1 DEF ReviewAt, Sane, Sound, StateSound, ReviewSound, ReviewState, EffectIs
<1>7. Sound(s) /\ Readable(s)
  <2>1. \A x \in ReviewEffect : s.effects[x] # "absent"
    BY <1>3, <1>6, EffectsAre
  <2> QED BY <1>1, <1>3, <1>4, <1>5, <2>1, ReviewingSound DEF Sane, ReviewAt, ReviewState
<1>8. Recorded(s) = Recorded(r)
  BY <1>3 DEF Recorded
<1>9. ~SplitInDoubt(r)
  <2>1. \A x \in Split : r.effects[x] # "unknown"
    BY <1>1, EffectsAre, PlaceNames, EarlierNames DEF ReviewAt, EffectIs
  <2> QED BY <2>1, RoleNames DEF SplitInDoubt, EffectIs
<1>10. Sane(s)
  <2>1. \A x \in Once : EffectIs(s, x, {"absent", "planned"}) => sent[x] = 0
    BY <1>1, <1>3, EffectsAre DEF Sane, EffectIs
  <2> QED BY <1>1, <1>3, <1>7, <1>8, <1>9, <2>1, RecordKept DEF Sane, Shape
<1>11. PlaceAt("call", cmd[p], e, s)
  <2>1. ReviewAt(s, e)
    BY <1>1, <1>3, EarlierNames, EffectsAre DEF ReviewAt, EffectIs
  <2>2. EffectAt("call", s, e)
    BY <1>1, <1>3, <2>1, EffectsAre, PlaceNames DEF EffectAt, EffectIs
  <2>3. CallAt(s, e)
    BY <1>1, <1>8, <1>9, EffectsAre, PlaceNames DEF CallAt, Sane, EffectIs
  <2>4. e # "decisionRecord"
    BY <1>1, PlaceNames
  <2> QED BY <2>2, <2>3, <2>4 DEF PlaceAt, AtEffect, AtProof
<1>12. Write(p, s) /\ Continue(p, "call", e) /\ UNCHANGED World
  BY <1>1, <1>2 DEF Mark, ReviewAt
<1>13. Progress(r, s)
  BY <1>1, <1>3, RecordProgress DEF ReviewAt
<1> QED BY <1>1, <1>3, <1>10, <1>11, <1>12, <1>13, Labels, RecordKept, WriteAndGoOnKeeps DEF Write

LEMMA MarkRepairSteps ==
  ASSUME Alone, Inv, NEW p \in Proc, Mark(p), eff[p] = "repairPromptDispatch", UNCHANGED setting
  PROVE  Inv' /\ Progress(receipt, receipt')
<1> DEFINE r == receipt
           e == "repairPromptDispatch"
<1>1. /\ r \in Receipt /\ r # None /\ mem[p] = r /\ Sane(r) /\ e \in EffectName
      /\ r.state = "repair_starting" /\ EffectIs(r, e, {"planned"})
  BY Working, EffectsAre DEF Mark, PlaceAt, AtEffect, EffectAt
<1>2. PICK s : s = WithEffect(r, e, "unknown")
  OBVIOUS
<1>3. /\ s \in Receipt
      /\ \A x \in EffectName : s.effects[x] = IF x = e THEN "unknown" ELSE r.effects[x]
      /\ s.state = "repair_starting" /\ s.pane = r.pane /\ SameRecord(r, s)
  <2>1. "unknown" \in Outcome
    BY DEF Outcome
  <2> QED BY <1>1, <1>2, <2>1, EffectFields DEF SameRecord
<1>4. SamePlaces(r, s) /\ SameAnswers(r, s) /\ s.effects[e] = "unknown"
  BY <1>3, EffectsAre, PlaceNames DEF SamePlaces, SameAnswers, SameRecord
<1>5. /\ Sound(s) /\ CompletedObservation(s) /\ RepairRecordValid(s)
      /\ StateEvidence(s) => Readable(s)
  BY <1>1, <1>3, <1>4, RepairingSound, AnswersKept DEF Sane, Sound, RepairState, ReviewState
<1>6. Sane(s)
  <2>1. StateEvidence(s)
    BY <1>3, <1>4, <1>5 DEF StateEvidence, EffectIs, RepairState, ReviewState
  <2> QED BY <1>1, <1>3, <1>4, <1>5, <2>1, RecordKept, SaneKept DEF Sane, Shape, EffectIs,
             SameAnswers
<1>7. PlaceAt("call", cmd[p], e, s)
  <2>1. EffectAt("call", s, e)
    BY <1>1, <1>3, <1>4, EffectsAre, PlaceNames DEF EffectAt, EffectIs
  <2>2. CallAt(s, e)
    BY <1>1, EffectsAre, PlaceNames DEF CallAt, Sane, EffectIs
  <2> QED BY <2>1, <2>2 DEF PlaceAt, AtEffect, AtProof
<1>8. Write(p, s) /\ Continue(p, "call", e) /\ UNCHANGED World
  <2>1. e \notin Split
    BY EffectsAre, PlaceNames
  <2> QED BY <1>1, <1>2, <2>1 DEF Mark
<1>9. Progress(r, s)
  BY <1>1, <1>3, RecordProgress
<1> QED BY <1>1, <1>3, <1>6, <1>7, <1>8, <1>9, Labels, RecordKept, WriteAndGoOnKeeps DEF Write

LEMMA MarkSteps ==
  ASSUME Alone, Inv, NEW p \in Proc, Mark(p), UNCHANGED setting
  PROVE  Inv' /\ Progress(receipt, receipt')
<1>1. eff[p] \in RunEffect \cup ReviewEffect \cup {"repairPromptDispatch"}
  BY Working, EffectsAre DEF Mark, PlaceAt, AtEffect, EffectAt
<1> QED BY <1>1, MarkRunSteps, MarkReviewSteps, MarkRepairSteps

LEMMA MarkDecisionSteps ==
  ASSUME Alone, Inv, NEW p \in Proc, MarkDecision(p), UNCHANGED setting
  PROVE  Inv' /\ Progress(receipt, receipt')
<1> DEFINE r == receipt
           e == "decisionRecord"
<1>1. /\ r \in Receipt /\ r # None /\ mem[p] = r /\ Sane(r) /\ e \in EffectName
      /\ DecisionAt(r) /\ cmd[p] = "decide"
  BY Working DEF MarkDecision, PlaceAt, AtEffect, EffectAt, EffectName
<1>2. PICK s : s = WithEffect(r, e, "unknown")
  OBVIOUS
<1>3. /\ s \in Receipt
      /\ \A x \in EffectName : s.effects[x] = IF x = e THEN "unknown" ELSE r.effects[x]
      /\ s.state = "decision_starting" /\ s.pane = r.pane /\ SameRecord(r, s)
  <2>1. "unknown" \in Outcome
    BY DEF Outcome
  <2> QED BY <1>1, <1>2, <2>1, EffectFields DEF SameRecord, DecisionAt
<1>4. /\ SamePlaces(r, s) /\ SameAnswers(r, s) /\ s.effects[e] = "unknown"
      /\ s.effects["repairPromptDispatch"] = r.effects["repairPromptDispatch"]
  BY <1>3 DEF SamePlaces, SameAnswers, SameRecord, RunEffect, ReviewEffect, EffectName, Keys
<1>5. DecisionAt(s)
  BY <1>1, <1>3, <1>4, RecordKept DEF DecisionAt, SameRecord, EffectIs
<1>6. Sound(s)
  <2>1. StateSound(s)
    BY <1>3 DEF StateSound, ReviewState, RepairState
  <2> QED BY <1>1, <1>3, <1>4, <2>1, PlacesKept, AnswersKept, ReviewKept, RecordKept
          DEF Sane, Sound, SameRecord
<1>7. Sane(s)
  <2>1. Readable(r) => StateEvidence(s)
    BY <1>1, <1>3, <1>5, RecordKept DEF DecisionAt, Readable, StateEvidence, RepairState,
       ReviewState
  <2>2. Shape(s)
    BY <1>1, <1>3, <1>4, <1>6, <2>1, ShapeKept, RecordKept DEF Sane, DecisionAt, SameRecord
  <2> QED BY <1>1, <1>3, <1>4, <1>6, <2>2, RecordKept, SaneKept DEF Sane, SameAnswers, EffectIs
<1>8. PlaceAt("confirm", cmd[p], None, s)
  BY <1>1, <1>5 DEF PlaceAt, ConfirmAt, AtEffect, AtProof
<1>9. Write(p, s) /\ Continue(p, "confirm", None) /\ UNCHANGED World
  BY <1>1, <1>2 DEF MarkDecision
<1>10. Progress(r, s)
  BY <1>1, <1>3, RecordProgress DEF DecisionAt
<1> QED BY <1>1, <1>3, <1>7, <1>8, <1>9, <1>10, Labels, RecordKept, WriteAndGoOnKeeps DEF Write

-----------------------------------------------------------------------------
(* Cleaning up.                                                            *)

LEMMA CloseNext ==
  ASSUME NEW r, NEW e \in CloseEffect, CloseAt(r, e), Closed(r, e), NEW c
  PROVE  PlaceAt("mark", c, After[e], r)
<1>1. CloseAt(r, After[e])
  BY AfterNames DEF CloseAt
<1>2. /\ After[e] \in CloseEffect \cup {"cleanupComplete"}
  BY AfterNames
<1>3. EffectAt("mark", r, After[e])
  BY <1>1, <1>2, EffectsAre, PlaceNames DEF EffectAt, RunEffect, ReviewEffect, CloseEffect
<1> QED BY <1>2, <1>3 DEF PlaceAt, AtEffect, AtProof, CloseEffect

LEMMA MarkCloseSteps ==
  ASSUME Alone, Inv, NEW p \in Proc, MarkClose(p), UNCHANGED setting
  PROVE  Inv' /\ (receipt' = receipt \/ Progress(receipt, receipt'))
<1> DEFINE r == receipt
           e == eff[p]
           id == r.pane[RoleOf[e]]
<1>1. /\ r \in Receipt /\ r # None /\ mem[p] = r /\ Sane(r) /\ e \in EffectName /\ e \in CloseEffect
      /\ CloseAt(r, e) /\ r.state = "cleanup_pending" /\ Readable(r) /\ ~SplitInDoubt(r)
      /\ pc[p] \notin {"idle", "create"} /\ None \notin panes
  BY Working, EffectsAre DEF MarkClose, PlaceAt, AtEffect, EffectAt, CloseAt, WorldTypeOK
<1>2. After[e] \in EffectName
  BY <1>1, AfterNames, EffectsAre DEF EffectName
<1>3. CASE id = None /\ Continue(p, "mark", After[e]) /\ UNCHANGED <<receipt, mem, World>>
  <2>1. PlaceAt("mark", cmd[p], After[e], r)
    BY <1>1, <1>3, CloseNext DEF Closed
  <2> QED BY <1>1, <1>2, <1>3, <2>1, Labels, GoOnKeeps
<1>4. ASSUME NEW outcome \in {"succeeded", "unknown"}, NEW s, s = WithEffect(r, e, outcome)
      PROVE  /\ s \in Receipt /\ Sane(s) /\ CloseAt(s, e) /\ s.effects[e] = outcome /\ s.pane = r.pane
             /\ SameRecord(r, s) /\ Progress(r, s)
  <2>1. /\ s \in Receipt
        /\ \A x \in EffectName : s.effects[x] = IF x = e THEN outcome ELSE r.effects[x]
        /\ s.state = "cleanup_pending" /\ s.pane = r.pane /\ SameRecord(r, s)
    <3>1. outcome \in Outcome
      BY <1>4 DEF Outcome
    <3> QED BY <1>1, <1>4, <3>1, EffectFields DEF SameRecord
  <2>2. /\ SamePlaces(r, s) /\ SameAnswers(r, s) /\ s.effects[e] = outcome
        /\ s.effects["repairPromptDispatch"] = r.effects["repairPromptDispatch"]
    <3>1. e \notin RunEffect \cup ReviewEffect \cup Keys \cup {"repairPromptDispatch"}
      BY <1>1, EffectsAre, PlaceNames
    <3> QED BY <1>1, <2>1, <3>1, EffectsAre DEF SamePlaces, SameAnswers, SameRecord
  <2>3. Sound(s) /\ Readable(s)
    BY <1>1, <2>1, <2>2, CleaningSound DEF Sane
  <2>4. Sane(s)
    BY <1>1, <2>1, <2>2, <2>3, RecordKept, SaneKept DEF Sane, Shape, SameAnswers, EffectIs
  <2>5. CloseAt(s, e)
    <3>1. \A x \in Earlier[e] : x # e /\ x \in EffectName
      BY <1>1, EarlierNames, EffectsAre
    <3>2. \A x \in Earlier[e] : Closed(s, x)
      BY <1>1, <2>1, <3>1 DEF CloseAt, Closed, EffectIs
    <3>3. ~SplitInDoubt(s)
      BY <1>1, <2>2, PlacesKept
    <3> QED BY <2>1, <2>3, <3>2, <3>3 DEF CloseAt
  <2> QED BY <1>1, <2>1, <2>2, <2>4, <2>5, RecordProgress
<1>5. CASE /\ id # None /\ id \notin panes
           /\ Write(p, WithEffect(r, e, "succeeded")) /\ Continue(p, "mark", After[e])
           /\ UNCHANGED World
  <2>1. PICK s : s = WithEffect(r, e, "succeeded")
    OBVIOUS
  <2>2. /\ s \in Receipt /\ Sane(s) /\ CloseAt(s, e) /\ s.effects[e] = "succeeded" /\ s.pane = r.pane
        /\ SameRecord(r, s) /\ Progress(r, s)
    BY <1>4, <2>1
  <2>3. PlaceAt("mark", cmd[p], After[e], s)
    BY <1>1, <1>5, <2>2, CloseNext DEF Closed, EffectIs
  <2>4. Write(p, s) /\ Continue(p, "mark", After[e]) /\ UNCHANGED World
    BY <1>5, <2>1
  <2>5. Inv'
    BY <1>1, <1>2, <2>2, <2>3, <2>4, Labels, RecordKept, WriteAndGoOnKeeps
  <2> QED BY <2>2, <2>4, <2>5 DEF Write
<1>6. CASE /\ id \in panes
           /\ Write(p, WithEffect(r, e, "unknown")) /\ Continue(p, "call", e)
           /\ UNCHANGED World
  <2>1. PICK s : s = WithEffect(r, e, "unknown")
    OBVIOUS
  <2>2. /\ s \in Receipt /\ Sane(s) /\ CloseAt(s, e) /\ s.effects[e] = "unknown" /\ s.pane = r.pane
        /\ SameRecord(r, s) /\ Progress(r, s)
    BY <1>4, <2>1
  <2>3. PlaceAt("call", cmd[p], e, s)
    <3>1. EffectAt("call", s, e)
      BY <1>1, <2>2, EffectsAre, PlaceNames DEF EffectAt, EffectIs, RunEffect, ReviewEffect,
         CloseEffect
    <3>2. CallAt(s, e)
      BY <1>1, <1>6, <2>2, EffectsAre, PlaceNames DEF CallAt, Split, Once
    <3> QED BY <1>1, <3>1, <3>2, PlaceNames DEF PlaceAt, AtEffect, AtProof
  <2>4. Write(p, s) /\ Continue(p, "call", e) /\ UNCHANGED World
    BY <1>6, <2>1
  <2>5. Inv'
    BY <1>1, <1>2, <2>2, <2>3, <2>4, Labels, RecordKept, WriteAndGoOnKeeps
  <2> QED BY <2>2, <2>4, <2>5 DEF Write
<1> QED BY <1>1, <1>3, <1>5, <1>6 DEF MarkClose

LEMMA MarkCleanedSteps ==
  ASSUME Alone, Inv, NEW p \in Proc, MarkCleaned(p), UNCHANGED setting
  PROVE  Inv' /\ Progress(receipt, receipt')
<1> DEFINE r == receipt
           e == "cleanupComplete"
<1>1. /\ r \in Receipt /\ r # None /\ mem[p] = r /\ Sane(r) /\ e \in EffectName
      /\ CloseAt(r, e) /\ r.state = "cleanup_pending" /\ Readable(r) /\ ~SplitInDoubt(r)
  BY Working DEF MarkCleaned, PlaceAt, AtEffect, EffectAt, CloseAt, EffectName
<1>2. PICK s : s = WithEffect(r, e, "succeeded")
  OBVIOUS
<1>3. /\ s \in Receipt
      /\ \A x \in EffectName : s.effects[x] = IF x = e THEN "succeeded" ELSE r.effects[x]
      /\ s.state = "cleanup_pending" /\ s.pane = r.pane /\ SameRecord(r, s)
  <2>1. "succeeded" \in Outcome
    BY DEF Outcome
  <2> QED BY <1>1, <1>2, <2>1, EffectFields DEF SameRecord
<1>4. /\ SamePlaces(r, s) /\ SameAnswers(r, s) /\ s.effects[e] = "succeeded"
      /\ s.effects["repairPromptDispatch"] = r.effects["repairPromptDispatch"]
      /\ \A x \in CloseEffect : s.effects[x] = r.effects[x]
  BY <1>1, <1>3, EffectsAre, PlaceNames DEF SamePlaces, SameAnswers, SameRecord, RunEffect,
     ReviewEffect
<1>5. Sound(s) /\ Readable(s)
  BY <1>1, <1>3, <1>4, CleaningSound DEF Sane
<1>6. Sane(s)
  BY <1>1, <1>3, <1>4, <1>5, RecordKept, SaneKept DEF Sane, Shape, SameAnswers, EffectIs
<1>7. PlaceAt("complete", cmd[p], None, s)
  <2>1. \A x \in Earlier[e] : Closed(s, x)
    BY <1>1, <1>3, <1>4, EarlierNames DEF CloseAt, Closed, EffectIs
  <2>2. CloseAt(s, e)
    BY <1>1, <1>3, <1>4, <1>5, <2>1, PlacesKept DEF CloseAt
  <2> QED BY <1>4, <2>2 DEF PlaceAt, EffectIs, AtEffect, AtProof
<1>8. Write(p, s) /\ Continue(p, "complete", None) /\ UNCHANGED World
  BY <1>1, <1>2 DEF MarkCleaned
<1>9. Progress(r, s)
  BY <1>1, <1>3, RecordProgress
<1> QED BY <1>1, <1>3, <1>6, <1>7, <1>8, <1>9, Labels, RecordKept, WriteAndGoOnKeeps DEF Write

LEMMA CompleteSteps ==
  ASSUME Alone, Inv, NEW p \in Proc, Complete(p), UNCHANGED setting
  PROVE  Inv' /\ Progress(receipt, receipt')
<1> DEFINE r == receipt
           e == "cleanupComplete"
<1>1. /\ r \in Receipt /\ r # None /\ mem[p] = r /\ Sane(r) /\ panes \subseteq Pane
      /\ CloseAt(r, e) /\ r.state = "cleanup_pending" /\ Readable(r) /\ ~SplitInDoubt(r)
      /\ EffectIs(r, e, {"succeeded"})
  BY Working DEF Complete, PlaceAt, CloseAt, WorldTypeOK
<1>2. PICK s : s = InState(r, "cleaned")
  OBVIOUS
<1>3. /\ s \in Receipt
      /\ s.state = "cleaned" /\ s.effects = r.effects /\ s.pane = r.pane /\ SameRecord(r, s)
  <2>1. "cleaned" \in RunState
    BY DEF RunState
  <2> QED BY <1>1, <1>2, <2>1, StateFields DEF SameRecord
<1>4. SamePlaces(r, s) /\ SameAnswers(r, s)
  BY <1>3 DEF SamePlaces, SameAnswers, SameRecord
<1>5. \A role \in Role : r.pane[role] # None =>
         EffectIs(r, PaneCloseEffect[role], {"succeeded"}) /\ r.pane[role] \notin panes
  BY <1>1, RoleNames, EarlierNames DEF CloseAt, Closed
<1>6. panes = {}
  <2>1. panes \subseteq Recorded(r)
    BY <1>1 DEF Sane
  <2> QED BY <1>1, <1>5, <2>1 DEF Recorded
<1>7. Sound(s)
  <2>1. StateSound(s)
    BY <1>3 DEF StateSound, ReviewState, RepairState
  <2> QED BY <1>1, <1>3, <1>4, <2>1, PlacesKept, AnswersKept, ReviewKept, RecordKept
          DEF Sane, Sound, SameRecord
<1>8. Readable(s)
  <2>1. HasReview(s) => CompletedObservation(s)
    BY <1>1, <1>3, <1>4, ObservationKept, RecordKept DEF Readable, ReviewRecordValid, SameRecord
  <2>2. CleanedValid(s)
    BY <1>1, <1>3, <1>5 DEF CleanedValid, EffectIs
  <2>3. \A role \in RunRole : ~EffectIs(s, SplitEffect[role], {"unknown"})
    BY <1>1, <1>3, RoleNames DEF SplitInDoubt, EffectIs
  <2>4. StateEvidence(s)
    BY <1>3, <2>2, <2>3 DEF StateEvidence, RepairState, ReviewState
  <2> QED BY <1>7, <2>1, <2>4, ReadableFrom
<1>9. Sane(s)
  BY <1>1, <1>3, <1>4, <1>6, <1>7, <1>8, RecordKept, SaneKept DEF Sane, Shape, EffectIs
<1>10. WriteAndEnd(p, s) /\ UNCHANGED World
  BY <1>1, <1>2 DEF Complete, InState
<1>11. Progress(r, s)
  BY <1>1, <1>3, RecordProgress
<1> QED BY <1>1, <1>3, <1>9, <1>10, <1>11, RecordKept, WriteAndEndKeeps DEF WriteAndEnd

-----------------------------------------------------------------------------
(* A call to Herdr.                                                        *)

LEMMA CallNames ==
  /\ Split \cap (Start \cup Prompt \cup Keys \cup CloseEffect \cup Launch) = {}
  /\ Start \cap (Prompt \cup Keys \cup CloseEffect \cup Launch) = {}
  /\ (Prompt \cup Keys) \cap (CloseEffect \cup Launch) = {} /\ CloseEffect \cap Launch = {}
  /\ Prompt \cap Keys = {}
  /\ Once = Split \cup Launch \cup Start \cup Prompt \cup Keys
  /\ \A e \in Start \cup Prompt \cup Keys : RoleOf[e] \in Agent
  /\ RoleOf["workerStart"] = "worker" /\ RoleOf["promptDispatch"] = "worker"
  /\ RoleOf["responseDispatch"] = "worker" /\ RoleOf["repairResponseDispatch"] = "worker"
  /\ RoleOf["repairPromptDispatch"] = "worker"
  /\ RoleOf["reviewerStart"] = "reviewer" /\ RoleOf["reviewPromptDispatch"] = "reviewer"
  /\ Start = {"workerStart", "reviewerStart"}
  /\ Prompt = {"promptDispatch", "reviewPromptDispatch", "repairPromptDispatch"}
  BY DEF Split, SplitEffect, Role, Start, Prompt, Keys, CloseEffect, Launch, Once, RoleOf, Agent,
         EffectName, RunEffect, ReviewEffect, WaitEffect

\* What a call may change of the session.
Changed(e, r, id) ==
  /\ panes' \subseteq born' /\ born' \subseteq Pane
  /\ host' \in [Agent -> Pane \cup {None}]
  /\ status' \in [Agent -> {"none", "idle", "working", "blocked"}]
  /\ IF e \in Split THEN panes' \subseteq panes \cup {id} /\ id \in Pane ELSE panes' \subseteq panes
  /\ e \in CloseEffect => r.pane[RoleOf[e]] \notin panes'
  /\ status'["worker"] \in {status["worker"], "none", "idle"}
       \/ (e \in Prompt \cup Keys /\ RoleOf[e] = "worker" /\ status["worker"] # "none")
  /\ status'["reviewer"] = "working" =>
       status["reviewer"] = "working" \/ e = "reviewPromptDispatch"

LEMMA PerformChanges ==
  ASSUME WorldTypeOK, given \in [Proc -> Pane \cup {None}], NEW p \in Proc,
         NEW e \in EffectName, NEW r \in Receipt, Perform(p, e, r),
         e \in Once \cup CloseEffect
  PROVE  /\ Changed(e, r, given'[p])
         /\ given' \in [Proc -> Pane \cup {None}]
<1> DEFINE a == RoleOf[e]
           target == r.pane[a]
<1>1. target \in Pane \cup {None} /\ panes \subseteq born /\ born \subseteq Pane
  BY RoleNames DEF Receipt, WorldTypeOK
<1>2. "worker" \in Agent /\ "reviewer" \in Agent
  BY DEF Agent
<1>3. CASE e \in Split
  <2>1. born # Pane /\ born' = born \cup {FreshPane} /\ panes' = panes \cup {FreshPane}
        /\ given' = [given EXCEPT ![p] = FreshPane] /\ UNCHANGED <<host, status>>
    BY <1>3, CallNames DEF Perform
  <2>2. FreshPane \in Pane
    BY <1>1, <2>1 DEF FreshPane
  <2> QED BY <1>1, <1>3, <2>1, <2>2, CallNames DEF Changed, WorldTypeOK
<1>4. CASE e \in Start
  <2>1. target \in panes /\ host' = [host EXCEPT ![a] = target]
        /\ status' = [status EXCEPT ![a] = "idle"] /\ UNCHANGED <<panes, born, given>>
    BY <1>4, CallNames DEF Perform
  <2> QED BY <1>1, <1>2, <1>4, <2>1, CallNames DEF Changed, WorldTypeOK
<1>5. CASE e \in Prompt \cup Keys
  <2>1. status[a] # "none" /\ status' = [status EXCEPT ![a] = "working"]
        /\ UNCHANGED <<panes, born, host, given>>
    BY <1>5, CallNames DEF Perform
  <2> QED BY <1>1, <1>2, <1>5, <2>1, CallNames, EffectsAre DEF Changed, WorldTypeOK
<1>6. CASE e \in CloseEffect
  <2>1. panes' = panes \ {target} /\ UNCHANGED <<born, host, given>>
        /\ status' = [x \in Agent |-> IF host[x] = target THEN "none" ELSE status[x]]
    BY <1>6, CallNames DEF Perform
  <2> QED BY <1>1, <1>2, <1>6, <2>1, CallNames DEF Changed, WorldTypeOK
<1>7. CASE e \in Launch
  <2>1. UNCHANGED <<panes, born, host, status, given>>
    BY <1>7, CallNames DEF Perform, Nowhere, herdr
  <2> QED BY <1>1, <1>7, <2>1, CallNames DEF Changed, WorldTypeOK
<1> QED BY <1>3, <1>4, <1>5, <1>6, <1>7, CallNames

LEMMA CallSteps ==
  ASSUME Alone, Inv, NEW p \in Proc, Call(p), UNCHANGED setting
  PROVE  Inv' /\ receipt' = receipt
<1> DEFINE r == receipt
           e == eff[p]
<1>1. /\ r \in Receipt /\ r # None /\ mem[p] = r /\ Sane(r) /\ EffectAt("call", r, e) /\ CallAt(r, e)
      /\ e \in Once \cup CloseEffect /\ e \in EffectName /\ r.effects[e] = "unknown"
      /\ e \in Once => sent[e] = 0
      /\ WorldTypeOK /\ LocalTypeOK /\ WorkerBound
  BY ZenonT(60), Working, EffectsAre DEF Call, PlaceAt, AtEffect, EffectAt, EffectIs, CallAt
<1>2. /\ pc[p] = "call" /\ pc'[p] = "record" /\ eff'[p] = e /\ mem'[p] = r /\ r' = r
      /\ UNCHANGED <<setting, receipt, mem, cmd, eff, work, printed, verdicts, session>>
  BY <1>1 DEF Call, Goto, LocalTypeOK, output
<1>3. \A x \in Once : sent'[x] = IF x = e THEN 1 ELSE sent[x]
  BY <1>1, <1>1 DEF Call, WorldTypeOK
<1>4. sent' \in [Once -> 0..MaxSent]
  <2>1. \A x \in Once : sent'[x] \in 0..MaxSent
    BY <1>1, <1>3 DEF WorldTypeOK
  <2>2. sent' = [x \in Once |-> IF x = e /\ sent[x] < MaxSent THEN sent[x] + 1 ELSE sent[x]]
    BY DEF Call
  <2> QED BY <2>1, <2>2
<1>5a. PICK done \in BOOLEAN :
          \E answer \in Answers(e, done) :
            /\ reply' = [reply EXCEPT ![p] = answer]
            /\ IF done THEN Perform(p, e, r) ELSE Nowhere
  BY <1>1 DEF Call
<1>5. PICK answer \in Answers(e, done) :
         /\ reply' = [reply EXCEPT ![p] = answer]
         /\ IF done THEN Perform(p, e, r) ELSE Nowhere
  BY <1>5a
<1>6. /\ reply'[p] = answer /\ answer \in {"ok", "uncertain", "rejected", "lost"}
      /\ answer = "uncertain" => e \in Prompt \cup Keys
      /\ answer = "rejected" => e \in Start \cup Keys \cup {"repairPromptDispatch"}
      /\ answer = "ok" => done
  BY <1>1, <1>5 DEF Answers, LocalTypeOK
<1>7. /\ panes' \subseteq born' /\ born' \subseteq Pane
      /\ host' \in [Agent -> Pane \cup {None}]
      /\ status' \in [Agent -> {"none", "idle", "working", "blocked"}]
      /\ given' \in [Proc -> Pane \cup {None}]
      /\ e \notin Split => panes' \subseteq panes
      /\ answer = "ok" /\ e \in Split => panes' \subseteq panes \cup {given'[p]} /\ given'[p] \in Pane
      /\ answer = "ok" /\ e \in CloseEffect => r.pane[RoleOf[e]] \notin panes'
      /\ status'["worker"] \in {status["worker"], "none", "idle"}
           \/ (e \in Prompt \cup Keys /\ RoleOf[e] = "worker" /\ status["worker"] # "none")
      /\ status'["reviewer"] = "working" =>
           status["reviewer"] = "working" \/ e = "reviewPromptDispatch"
  <2>1. CASE done
    <3>1. Changed(e, r, given'[p]) /\ given' \in [Proc -> Pane \cup {None}]
      BY <1>1, <1>5, <2>1, PerformChanges DEF LocalTypeOK
    <3> QED BY <3>1, CallNames DEF Changed
  <2>2. CASE ~done
    <3>1. UNCHANGED <<panes, born, host, status, given>>
      BY <1>5, <2>2 DEF Nowhere, herdr
    <3> QED BY <1>1, <1>6, <2>2, <3>1 DEF WorldTypeOK, LocalTypeOK
  <2> QED BY <2>1, <2>2
<1>8. Typed'
  <2>1. LocalTypeOK'
    BY <1>1, <1>2, <1>5, <1>6, <1>7 DEF Call, Goto, LocalTypeOK, Label, Answer
  <2>2. WorldTypeOK'
    BY <1>1, <1>2, <1>4, <1>7 DEF WorldTypeOK
  <2>3. setting' \in Settings /\ receipt' \in Receipt \cup {None}
    BY <1>2, TypeParts DEF Inv
  <2> QED BY <2>1, <2>2, <2>3 DEF Typed
<1>9. Sane(receipt)'
  <2>1. r.repair.marked => e # "repairPromptDispatch"
    BY <1>1 DEF EffectAt, Sane, Sound, StateSound, RepairState
  <2>2. Backed(receipt)'
    BY <1>1, <1>2, <1>3, <2>1, EffectsAre DEF Sane, Backed, HasDecision
  <2>3. r.state # "cleaned"
    BY <1>1, EffectsAre DEF EffectAt, RunAt, ReviewAt, ResponseAt, RepairResponseAt, CloseAt, Once
  <2>4. SplitInDoubt(r) \/ panes' \subseteq Recorded(r)
    <3>1. e \in Split => SplitInDoubt(r)
      BY <1>1, RoleNames DEF SplitInDoubt, EffectIs
    <3> QED BY <1>1, <1>7, <3>1 DEF Sane
  <2>5. \A x \in Once : EffectIs(r, x, {"absent", "planned"}) => sent'[x] = 0
    BY <1>1, <1>3 DEF Sane, EffectIs
  <2> QED BY <1>1, <1>2, <2>2, <2>3, <2>4, <2>5 DEF Sane
<1>10. (\A x \in Once : sent[x] \in {0, 1})'
  BY <1>3 DEF Inv
<1>11. ReviewerBound'
  BY <1>1, <1>2, <1>7 DEF Inv, ReviewerBound, EffectAt, ReviewEffect, ReviewAt, Sane, Sound,
     StateSound,
     ReviewState
<1>12. WorkerBound'
  <2>1. {"promptDispatch", "repairPromptDispatch"} \subseteq Once
    BY EffectsAre DEF RunEffect
  <2>2. CASE ~(e \in Prompt \cup Keys /\ RoleOf[e] = "worker" /\ status["worker"] # "none")
    BY <1>1, <1>2, <1>3, <1>7, <2>1, <2>2 DEF WorkerBound
  <2>3. CASE e = "promptDispatch"
    BY <1>1, <1>2, <1>3, <1>7, <2>1, <2>3 DEF WorkerBound
  <2>4. CASE e = "repairPromptDispatch"
    <3>1. r.obs.result \in printed
      BY <1>1, <2>4 DEF EffectAt, Sane, Sound, StateSound, RepairState, CompletedObservation, Backed
    <3> QED BY <1>1, <1>2, <1>3, <2>1, <2>4, <3>1 DEF WorkerBound
  <2>5. CASE e \in Keys /\ status["worker"] # "none"
    <3>1. status["worker"] = "blocked" /\ e # "promptDispatch" /\ e # "repairPromptDispatch"
      BY <1>1, <2>5, CallNames DEF CallAt
    <3> QED BY <1>1, <1>2, <1>3, <2>1, <3>1 DEF WorkerBound
  <2> QED BY <2>2, <2>3, <2>4, <2>5, CallNames
<1>13. CommandAt(p)'
  <2>1. EffectAt("record", r, e)'
    <3>1. e \in CloseEffect => CloseAt(r, e)'
      BY <1>1, <1>2, <1>7, PlaceNames, EffectsAre DEF EffectAt, CloseAt, Closed
    <3> QED BY <1>1, <1>2, <3>1, EffectsAre, PlaceNames DEF EffectAt, RunAt, EffectIs
  <2>2. RecordAt(r, e, reply[p], given[p])'
    <3>1. e \in Split => panes \subseteq Recorded(r)
      BY <1>1 DEF CallAt
    <3> QED BY <1>2, <1>6, <1>7, <3>1 DEF RecordAt, Recorded
  <2>3. e # "decisionRecord"
    BY <1>1, PlaceNames
  <2> QED BY <1>1, <1>2, <2>1, <2>2, <2>3 DEF CommandAt, PlaceAt, AtEffect, AtProof
<1>14. \A q \in Proc : CommandAt(q)'
  BY <1>13 DEF Alone
<1> QED BY <1>1, <1>2, <1>8, <1>9, <1>10, <1>11, <1>12, <1>14 DEF Inv

-----------------------------------------------------------------------------
(* What came of a call.                                                    *)

LEMMA RecordRunSteps ==
  ASSUME Alone, Inv, NEW p \in Proc, RecordOk(p), eff[p] \in RunEffect, UNCHANGED setting
  PROVE  Inv' /\ Progress(receipt, receipt')
<1> DEFINE r == receipt
           e == eff[p]
           a == RoleOf[e]
<1>1. /\ r \in Receipt /\ r # None /\ mem[p] = r /\ Sane(r) /\ e \in EffectName
      /\ RunAt("record", r, e) /\ r.effects[e] = "unknown" /\ e \in Once
      /\ r.state = "starting" /\ RecordAt(r, e, "ok", given[p]) /\ None \notin panes
      /\ a \in Role
  BY Working, EffectsAre, RoleNames DEF RecordOk, PlaceAt, AtEffect, EffectAt, EffectIs, RunAt,
     WorldTypeOK
<1>2. e \in Split => given[p] \in Pane
  BY <1>1 DEF RecordAt
<1>3. PICK s : s = IF e \in Split THEN Opened(r, a, given[p], e, "succeeded")
                                  ELSE WithEffect(r, e, "succeeded")
  OBVIOUS
<1>4. /\ s \in Receipt
      /\ \A x \in EffectName : s.effects[x] = IF x = e THEN "succeeded" ELSE r.effects[x]
      /\ \A x \in Role : s.pane[x] = IF e \in Split /\ x = a THEN given[p] ELSE r.pane[x]
      /\ s.state = "starting" /\ SameRecord(r, s)
  <2>1. "succeeded" \in Outcome
    BY DEF Outcome
  <2>2. CASE e \in Split
    BY <1>1, <1>2, <1>3, <2>1, <2>2, PaneFields DEF SameRecord
  <2>3. CASE e \notin Split
    BY <1>1, <1>3, <2>1, <2>3, EffectFields DEF SameRecord
  <2> QED BY <2>2, <2>3
<1>5. RunAt("record", s, e)
  BY ZenonT(60), <1>1, <1>4, EarlierNames, EffectsAre DEF RunAt, EffectIs
<1>6. PaneSound(s)
  BY <1>1, <1>2, <1>4, RoleNames, EffectsAre DEF Sane, Sound, PaneSound, EffectIs
<1>7. Sound(s)
  BY <1>1, <1>4, <1>5, <1>6, RunningSound DEF Sane, RepairState, ReviewState
<1>8. Readable(s)
  <2>1. StateEvidence(s)
    BY <1>4 DEF StateEvidence, RepairState, ReviewState
  <2> QED BY <1>5, <1>7, <2>1, Unreviewed, ReadableFrom
<1>9. \A x \in Split : s.effects[x] # "unknown" /\ (x # e => r.effects[x] # "unknown")
  BY <1>1, <1>4, EffectsAre, PlaceNames, EarlierNames DEF RunAt, EffectIs, ReviewEffect
<1>10. panes \subseteq Recorded(s)
  <2>1. CASE e \in Split
    <3>1. r.pane[a] = None
      BY <1>1, <2>1, RoleNames DEF Sane, Sound, PaneSound, EffectIs
    <3>2. panes \subseteq Recorded(r) \cup {given[p]}
      BY <1>1, <2>1 DEF RecordAt
    <3> QED BY <1>1, <1>4, <2>1, <3>1, <3>2 DEF Recorded
  <2>2. CASE e \notin Split
    <3>1. panes \subseteq Recorded(r)
      BY <1>1, <1>9, <2>2, RoleNames DEF Sane, SplitInDoubt, EffectIs
    <3> QED BY <1>4, <2>2, <3>1 DEF Recorded
  <2> QED BY <2>1, <2>2
<1>11. Sane(s)
  <2>1. \A x \in Once : EffectIs(s, x, {"absent", "planned"}) => sent[x] = 0
    BY <1>1, <1>4, EffectsAre DEF Sane, EffectIs
  <2> QED BY <1>1, <1>4, <1>7, <1>8, <1>10, <2>1, RecordKept DEF Sane, Shape
<1>12. \A role \in Role : r.pane[role] # None => s.pane[role] = r.pane[role]
  BY <1>1, <1>4, RoleNames DEF Sane, Sound, PaneSound, EffectIs
<1>13. Progress(r, s)
  BY <1>1, <1>4, <1>12, RecordProgress
<1>14. e \notin Keys /\ (e \in Prompt => e = "promptDispatch")
  BY <1>1, PlaceNames, CallNames, EffectsAre DEF ReviewEffect
<1>15. Write(p, s) /\ UNCHANGED World
  BY <1>1, <1>3, <1>14, EffectsAre DEF RecordOk, Opened
<1>16. CASE e = "promptDispatch"
  <2>1. ProofAt(s)
    <3>1. {"workerPane", "workerStart"} \subseteq Earlier["promptDispatch"] /\ SplitEffect["worker"] = "workerPane"
      BY DEF Earlier, SplitEffect
    <3>2. Prompted(s)
      BY <1>4, <1>5, <1>6, <1>16, <3>1, EffectsAre DEF Prompted, WorkerConfirmed, RunAt, PaneSound,
                                           EffectIs
    <3> QED BY <1>4, <3>2 DEF ProofAt
  <2>2. PlaceAt("observe", cmd[p], None, s)
    BY <2>1 DEF PlaceAt, AtEffect
  <2>3. Continue(p, "observe", None)
    BY <1>1, <1>14, <1>16, AfterNames DEF RecordOk
  <2> QED BY <1>1, <1>4, <1>11, <1>13, <1>15, <2>2, <2>3, Labels, RecordKept, WriteAndGoOnKeeps
          DEF Write
<1>17. CASE e # "promptDispatch"
  <2>1. /\ e \in DOMAIN After /\ After[e] \in RunEffect /\ Earlier[After[e]] = Earlier[e] \cup {e}
        /\ After[e] \notin Earlier[After[e]]
    <3>1. e \in DOMAIN After /\ e \in RunEffect
      BY <1>17, AfterNames
    <3> QED BY <3>1, AfterNames, EarlierNames
  <2>2. RunAt("mark", s, After[e]) /\ s.effects[After[e]] = "planned"
    <3>1. s.effects[e] = "succeeded" /\ s.state = "starting"
      BY <1>1, <1>4
    <3> QED BY <1>5, <2>1, <3>1 DEF RunAt, EffectIs
  <2>3. PlaceAt("mark", cmd[p], After[e], s)
    <3>1. EffectAt("mark", s, After[e])
      BY <2>1, <2>2, EffectsAre, PlaceNames DEF EffectAt, EffectIs
    <3> QED BY <2>1, <3>1, EffectsAre, PlaceNames DEF PlaceAt, AtEffect, AtProof
  <2>4. Continue(p, "mark", After[e])
    BY <1>14, <1>17 DEF RecordOk
  <2>5. After[e] \in EffectName
    BY <2>1, EffectsAre
  <2> QED BY <1>1, <1>4, <1>11, <1>13, <1>15, <2>3, <2>4, <2>5, Labels, RecordKept,
             WriteAndGoOnKeeps
          DEF Write
<1> QED BY <1>16, <1>17

LEMMA RecordReviewSteps ==
  ASSUME Alone, Inv, NEW p \in Proc, RecordOk(p), eff[p] \in ReviewEffect, UNCHANGED setting
  PROVE  Inv' /\ Progress(receipt, receipt')
<1> DEFINE r == receipt
           e == eff[p]
           a == RoleOf[e]
<1>1. /\ r \in Receipt /\ r # None /\ mem[p] = r /\ Sane(r) /\ e \in EffectName
      /\ ReviewAt(r, e) /\ r.effects[e] = "unknown" /\ e \in Once
      /\ r.state = "review_starting" /\ RecordAt(r, e, "ok", given[p]) /\ None \notin panes
      /\ a = "reviewer" /\ a \in Role
  <2>1. a = "reviewer"
    BY DEF RoleOf, ReviewEffect, EffectName
  <2> QED BY <2>1, Working, EffectsAre DEF RecordOk, PlaceAt, AtEffect, EffectAt, EffectIs,
             ReviewAt,
                                           WorldTypeOK
<1>2. e \in Split => given[p] \in Pane
  BY <1>1 DEF RecordAt
<1>3. PICK s : s = IF e \in Split THEN Opened(r, a, given[p], e, "succeeded")
                                  ELSE WithEffect(r, e, "succeeded")
  OBVIOUS
<1>4. /\ s \in Receipt
      /\ \A x \in EffectName : s.effects[x] = IF x = e THEN "succeeded" ELSE r.effects[x]
      /\ \A x \in Role : s.pane[x] = IF e \in Split /\ x = a THEN given[p] ELSE r.pane[x]
      /\ s.state = "review_starting" /\ SameRecord(r, s)
  <2>1. "succeeded" \in Outcome
    BY DEF Outcome
  <2>2. CASE e \in Split
    BY <1>1, <1>2, <1>3, <2>1, <2>2, PaneFields DEF SameRecord
  <2>3. CASE e \notin Split
    BY <1>1, <1>3, <2>1, <2>3, EffectFields DEF SameRecord
  <2> QED BY <2>2, <2>3
<1>5. /\ \A x \in RunEffect \cup Keys : s.effects[x] = r.effects[x]
      /\ \A role \in RunRole : s.pane[role] = r.pane[role]
  BY <1>1, <1>4, EffectsAre, PlaceNames, RoleNames DEF RunRole
<1>6. PaneSound(s)
  BY <1>1, <1>2, <1>4, RoleNames, EffectsAre DEF Sane, Sound, PaneSound, EffectIs
<1>7. Sound(s) /\ Readable(s) /\ HasReview(s)
  <2>1. \A x \in ReviewEffect : r.effects[x] # "absent"
    BY <1>1 DEF Sane, Sound, StateSound, ReviewSound, ReviewState, EffectIs
  <2>2. \A x \in ReviewEffect : s.effects[x] # "absent"
    BY <1>4, <2>1, EffectsAre
  <2> QED BY <1>1, <1>4, <1>5, <1>6, <2>2, ReviewingSound DEF Sane, ReviewState
<1>8. \A x \in Split : s.effects[x] # "unknown" /\ (x # e => r.effects[x] # "unknown")
  BY <1>1, <1>4, EffectsAre, PlaceNames, EarlierNames DEF ReviewAt, EffectIs
<1>9. panes \subseteq Recorded(s)
  <2>1. CASE e \in Split
    <3>1. r.pane[a] = None
      BY <1>1, <2>1, RoleNames DEF Sane, Sound, PaneSound, EffectIs
    <3>2. panes \subseteq Recorded(r) \cup {given[p]}
      BY <1>1, <2>1 DEF RecordAt
    <3> QED BY <1>1, <1>4, <2>1, <3>1, <3>2 DEF Recorded
  <2>2. CASE e \notin Split
    <3>1. panes \subseteq Recorded(r)
      BY <1>1, <1>8, <2>2, RoleNames DEF Sane, SplitInDoubt, EffectIs
    <3> QED BY <1>4, <2>2, <3>1 DEF Recorded
  <2> QED BY <2>1, <2>2
<1>10. Sane(s)
  <2>1. \A x \in Once : EffectIs(s, x, {"absent", "planned"}) => sent[x] = 0
    BY ZenonT(60), <1>1, <1>4, EffectsAre DEF Sane, EffectIs
  <2> QED BY <1>1, <1>4, <1>7, <1>9, <2>1, RecordKept DEF Sane, Shape
<1>11. \A role \in Role : r.pane[role] # None => s.pane[role] = r.pane[role]
  BY <1>1, <1>4, RoleNames DEF Sane, Sound, PaneSound, EffectIs
<1>12. Progress(r, s)
  BY <1>1, <1>4, <1>11, RecordProgress
<1>13. e \notin Keys /\ (e \in Prompt => e = "reviewPromptDispatch")
  BY <1>1, PlaceNames, CallNames, EffectsAre DEF RunEffect
<1>14. Write(p, s) /\ UNCHANGED World
  BY <1>1, <1>3, <1>13, EffectsAre DEF RecordOk, Opened
<1>15. CASE e = "reviewPromptDispatch"
  <2>1. PlaceAt("observe", cmd[p], None, s)
    BY <1>4 DEF PlaceAt, AtEffect, ProofAt, Phase, ReviewState
  <2>2. Continue(p, "observe", None)
    BY <1>1, <1>13, <1>15, AfterNames DEF RecordOk
  <2> QED BY <1>1, <1>4, <1>10, <1>12, <1>14, <2>1, <2>2, Labels, RecordKept, WriteAndGoOnKeeps
          DEF Write
<1>16. CASE e # "reviewPromptDispatch"
  <2>1. /\ e \in DOMAIN After /\ After[e] \in ReviewEffect /\ Earlier[After[e]] = Earlier[e] \cup {e}
        /\ After[e] \notin Earlier[After[e]]
    <3>1. e \in DOMAIN After /\ e \in ReviewEffect
      BY <1>16, AfterNames
    <3> QED BY <3>1, AfterNames, EarlierNames
  <2>2. ReviewAt(s, After[e]) /\ s.effects[After[e]] = "planned"
    <3>1. /\ \A x \in Earlier[After[e]] : s.effects[x] = "succeeded"
          /\ \A x \in ReviewEffect \ Earlier[After[e]] : s.effects[x] = "planned"
      <4>1. /\ \A x \in Earlier[e] : r.effects[x] = "succeeded"
            /\ \A x \in ReviewEffect \ (Earlier[e] \cup {e}) : r.effects[x] = "planned"
        BY <1>1 DEF ReviewAt, EffectIs
      <4>2. Earlier[e] \subseteq ReviewEffect \ {e} /\ ReviewEffect \subseteq EffectName
        BY EffectsAre, EarlierNames
      <4> QED BY <1>1, <1>4, <2>1, <4>1, <4>2
    <3>2. \A x \in EffectName \ ReviewEffect : s.effects[x] # "unknown"
      BY <1>1, <1>4 DEF ReviewAt, EffectIs
    <3> QED BY <1>4, <2>1, <3>1, <3>2 DEF ReviewAt, EffectIs
  <2>3. PlaceAt("mark", cmd[p], After[e], s)
    <3>1. EffectAt("mark", s, After[e])
      BY <2>1, <2>2, EffectsAre, PlaceNames DEF EffectAt, EffectIs
    <3> QED BY <2>1, <3>1, EffectsAre, PlaceNames DEF PlaceAt, AtEffect, AtProof
  <2>4. Continue(p, "mark", After[e])
    BY <1>13, <1>16 DEF RecordOk
  <2>5. After[e] \in EffectName
    BY <2>1, EffectsAre
  <2> QED BY <1>1, <1>4, <1>10, <1>12, <1>14, <2>3, <2>4, <2>5, Labels, RecordKept,
             WriteAndGoOnKeeps
          DEF Write
<1> QED BY <1>15, <1>16

LEMMA RecordCloseSteps ==
  ASSUME Alone, Inv, NEW p \in Proc, RecordOk(p), eff[p] \in CloseEffect, UNCHANGED setting
  PROVE  Inv' /\ Progress(receipt, receipt')
<1> DEFINE r == receipt
           e == eff[p]
<1>1. /\ r \in Receipt /\ r # None /\ mem[p] = r /\ Sane(r) /\ e \in EffectName
      /\ CloseAt(r, e) /\ r.state = "cleanup_pending" /\ Readable(r)
      /\ r.pane[RoleOf[e]] \notin panes /\ After[e] \in EffectName
  <2>1. RecordAt(r, e, "ok", given[p]) /\ CloseAt(r, e)
    BY Working DEF RecordOk, PlaceAt, AtEffect, EffectAt
  <2>2. After[e] \in EffectName
    BY AfterNames, EffectsAre DEF EffectName
  <2> QED BY <2>1, <2>2, Working, EffectsAre DEF RecordOk, RecordAt, CloseAt
<1>2. PICK s : s = WithEffect(r, e, "succeeded")
  OBVIOUS
<1>3. /\ s \in Receipt
      /\ \A x \in EffectName : s.effects[x] = IF x = e THEN "succeeded" ELSE r.effects[x]
      /\ s.state = "cleanup_pending" /\ s.pane = r.pane /\ SameRecord(r, s)
  <2>1. "succeeded" \in Outcome
    BY DEF Outcome
  <2> QED BY <1>1, <1>2, <2>1, EffectFields DEF SameRecord
<1>4. /\ SamePlaces(r, s) /\ SameAnswers(r, s) /\ s.effects[e] = "succeeded"
      /\ s.effects["repairPromptDispatch"] = r.effects["repairPromptDispatch"]
  <2>1. e \notin RunEffect \cup ReviewEffect \cup Keys \cup {"repairPromptDispatch"}
    BY EffectsAre, PlaceNames
  <2> QED BY <1>1, <1>3, <2>1, EffectsAre DEF SamePlaces, SameAnswers, SameRecord
<1>5. Sound(s) /\ Readable(s)
  BY <1>1, <1>3, <1>4, CleaningSound DEF Sane
<1>6. Sane(s)
  BY <1>1, <1>3, <1>4, <1>5, RecordKept, SaneKept DEF Sane, Shape, SameAnswers, EffectIs
<1>7. PlaceAt("mark", cmd[p], After[e], s)
  <2>1. \A x \in Earlier[e] : x # e /\ x \in EffectName
    BY EarlierNames, EffectsAre
  <2>2. \A x \in Earlier[e] : Closed(s, x)
    BY <1>1, <1>3, <2>1 DEF CloseAt, Closed, EffectIs
  <2>3. CloseAt(s, e)
    BY <1>1, <1>3, <1>4, <1>5, <2>2, PlacesKept DEF CloseAt
  <2> QED BY <1>1, <1>3, <1>4, <2>3, CloseNext DEF Closed, EffectIs
<1>8. Write(p, s) /\ Continue(p, "mark", After[e]) /\ UNCHANGED World
  <2>1. e \notin Split \cup Keys \cup Prompt /\ e # "responseDispatch" /\ e # "repairResponseDispatch"
    BY CallNames, EffectsAre
  <2> QED BY <1>1, <1>2, <2>1 DEF RecordOk
<1>9. Progress(r, s)
  BY <1>1, <1>3, RecordProgress
<1> QED BY <1>1, <1>3, <1>6, <1>7, <1>8, <1>9, Labels, RecordKept, WriteAndGoOnKeeps DEF Write

LEMMA RecordRepairPromptSteps ==
  ASSUME Alone, Inv, NEW p \in Proc, RecordOk(p), eff[p] = "repairPromptDispatch", UNCHANGED setting
  PROVE  Inv' /\ Progress(receipt, receipt')
<1> DEFINE r == receipt
           e == "repairPromptDispatch"
<1>1. /\ r \in Receipt /\ r # None /\ mem[p] = r /\ Sane(r) /\ e \in EffectName
      /\ r.state = "repair_starting" /\ r.effects[e] = "unknown"
  BY Working, EffectsAre DEF RecordOk, PlaceAt, AtEffect, EffectAt, EffectIs
<1>2. PICK s : s = WithEffect(r, e, "succeeded")
  OBVIOUS
<1>3. /\ s \in Receipt
      /\ \A x \in EffectName : s.effects[x] = IF x = e THEN "succeeded" ELSE r.effects[x]
      /\ s.state = "repair_starting" /\ s.pane = r.pane /\ SameRecord(r, s)
  <2>1. "succeeded" \in Outcome
    BY DEF Outcome
  <2> QED BY <1>1, <1>2, <2>1, EffectFields DEF SameRecord
<1>4. SamePlaces(r, s) /\ SameAnswers(r, s) /\ s.effects[e] = "succeeded"
  BY <1>3, EffectsAre, PlaceNames DEF SamePlaces, SameAnswers, SameRecord
<1>5. Sound(s)
  BY <1>1, <1>3, <1>4, RepairingSound, AnswersKept DEF Sane, Sound, RepairState, ReviewState
<1>6. Sane(s)
  <2>1. Shape(s)
    BY <1>3, <1>4 DEF Shape, RepairPrompted, EffectIs
  <2> QED BY <1>1, <1>3, <1>4, <1>5, <2>1, RecordKept, SaneKept DEF Sane, SameAnswers, EffectIs
<1>7. PlaceAt("observe", cmd[p], None, s)
  BY <1>3 DEF PlaceAt, AtEffect, ProofAt, Phase, ReviewState, RepairState
<1>8. Write(p, s) /\ Continue(p, "observe", None) /\ UNCHANGED World
  <2>1. e \notin Split \cup Keys \cup DOMAIN After
    BY EffectsAre, PlaceNames, CallNames, AfterNames
  <2> QED BY <1>1, <1>2, <2>1 DEF RecordOk
<1>9. Progress(r, s)
  BY <1>1, <1>3, RecordProgress
<1> QED BY <1>1, <1>3, <1>6, <1>7, <1>8, <1>9, Labels, RecordKept, WriteAndGoOnKeeps DEF Write

\* What a command writes of an answer to the worker's first question: it went
\* through, it may have, or it was refused.
LEMMA RecordResponseSteps ==
  ASSUME Alone, Inv, NEW p \in Proc, pc[p] = "record", eff[p] = "responseDispatch",
         NEW state, NEW outcome,
         <<state, outcome>> \in {<<"responded", "succeeded">>, <<"timed_out", "timed_out">>,
                                 <<"failed", "failed">>},
         WriteAndEnd(p, Moved(mem[p], state, "responseDispatch", outcome)),
         UNCHANGED <<setting, World>>
  PROVE  Inv' /\ Progress(receipt, receipt') /\ Ends(receipt')
<1> DEFINE r == receipt
           e == "responseDispatch"
<1>1. /\ r \in Receipt /\ r # None /\ mem[p] = r /\ Sane(r) /\ e \in EffectName
      /\ ResponseAt(r) /\ r.effects[e] = "unknown"
  BY Working, EffectsAre DEF PlaceAt, AtEffect, EffectAt, EffectIs
<1>2. PICK s : s = Moved(r, state, e, outcome)
  OBVIOUS
<1>3. /\ s \in Receipt
      /\ \A x \in EffectName : s.effects[x] = IF x = e THEN outcome ELSE r.effects[x]
      /\ s.state = state /\ s.pane = r.pane /\ SameRecord(r, s)
  <2>1. outcome \in Outcome /\ state \in RunState
    BY DEF Outcome, RunState
  <2> QED BY <1>1, <1>2, <2>1, MoveFields DEF SameRecord
<1>4. /\ SamePlaces(r, s) /\ s.effects[e] = outcome
      /\ s.effects["repairResponseDispatch"] = r.effects["repairResponseDispatch"]
      /\ s.effects["repairPromptDispatch"] = r.effects["repairPromptDispatch"]
  BY <1>3, EffectsAre, PlaceNames DEF SamePlaces
<1>5. outcome \notin {"absent", "planned"} /\ r.response /\ ~r.obs.marked /\ r.state = "blocked"
  BY <1>1 DEF ResponseAt
<1>6. Sound(s)
  <2>1. StateSound(s)
    BY <1>3 DEF StateSound, ReviewState, RepairState
  <2>2. AnswerSound(s)
    BY <1>1, <1>3, <1>4, <1>5 DEF Sane, Sound, AnswerSound, SameRecord, EffectIs
  <2> QED BY <1>1, <1>3, <1>4, <2>1, <2>2, PlacesKept, ReviewKept, RecordKept
          DEF Sane, Sound, SameRecord
<1>7. Shape(s) /\ Ends(s)
  <2>1. Prompted(s)
    BY <1>1, <1>4, PromptedKept DEF ResponseAt
  <2>2. CompletedRunEffects(s) => StateEvidence(s)
    BY <1>3, <1>4 DEF StateEvidence, TimedOutValid, EffectIs, RepairState, ReviewState
  <2> QED BY <1>3, <1>6, <2>1, <2>2, PromptedShape
<1>8. Sane(s)
  BY <1>1, <1>3, <1>4, <1>5, <1>6, <1>7, RecordKept, SaneKept DEF Sane, EffectIs, Keys
<1>9. Progress(r, s)
  BY <1>1, <1>3, <1>5, RecordProgress
<1>10. WriteAndEnd(p, s)
  BY <1>1, <1>2
<1> QED BY <1>1, <1>3, <1>7, <1>8, <1>9, <1>10, RecordKept, WriteAndEndKeeps DEF WriteAndEnd

\* And of a prompt or an answer for the repair.
LEMMA RecordRepairSteps ==
  ASSUME Alone, Inv, NEW p \in Proc, pc[p] \in {"record", "confirm"},
         NEW e \in {"repairPromptDispatch", "repairResponseDispatch"},
         receipt.state \in RepairState, ~EffectIs(receipt, "repairResponseDispatch", {"absent"})
                                          \/ e = "repairPromptDispatch",
         NEW state, NEW outcome,
         \/ state = "repair_responded" /\ outcome = "succeeded" /\ e = "repairResponseDispatch"
         \/ state = "repair_timed_out" /\ outcome = "timed_out"
         \/ state = "failed" /\ outcome = "failed",
         WriteAndEnd(p, Moved(mem[p], state, e, outcome)),
         UNCHANGED <<setting, World>>
  PROVE  Inv' /\ Progress(receipt, receipt') /\ Ends(receipt')
<1> DEFINE r == receipt
<1>1. r \in Receipt /\ r # None /\ mem[p] = r /\ Sane(r) /\ e \in EffectName
  BY Working, EffectsAre
<1>2. PICK s : s = Moved(r, state, e, outcome)
  OBVIOUS
<1>3. /\ s \in Receipt
      /\ \A x \in EffectName : s.effects[x] = IF x = e THEN outcome ELSE r.effects[x]
      /\ s.state = state /\ s.pane = r.pane /\ SameRecord(r, s)
  <2>1. outcome \in Outcome /\ state \in RunState
    BY DEF Outcome, RunState, RepairState
  <2> QED BY <1>1, <1>2, <2>1, MoveFields DEF SameRecord
<1>4. /\ SamePlaces(r, s) /\ s.effects[e] = outcome
      /\ \A x \in Keys \cup {"repairPromptDispatch"} : x # e => s.effects[x] = r.effects[x]
      /\ outcome \notin {"absent", "planned"}
  BY <1>1, <1>3, EffectsAre, PlaceNames DEF SamePlaces
<1>5. AnswerSound(s)
  BY <1>1, <1>3, <1>4, EffectsAre DEF Sane, Sound, AnswerSound, SameRecord, EffectIs
<1>6. /\ Sound(s) /\ CompletedObservation(s) /\ RepairRecordValid(s)
      /\ StateEvidence(s) => Readable(s)
  BY <1>1, <1>3, <1>4, <1>5, RepairingSound DEF Sane, ReviewState
<1>7. StateEvidence(s)
  BY <1>3, <1>4, <1>6 DEF StateEvidence, RepairTimedOutValid, EffectIs, RepairState, ReviewState
<1>8. Sane(s)
  BY <1>1, <1>3, <1>4, <1>6, <1>7, RecordKept, SaneKept DEF Sane, Shape, EffectIs
<1>9. Progress(r, s)
  BY <1>1, <1>3, RecordProgress DEF RepairState
<1>10. WriteAndEnd(p, s)
  BY <1>1, <1>2
<1>11. Ends(s)
  BY <1>6, <1>7 DEF Ends
<1> QED BY <1>1, <1>3, <1>8, <1>9, <1>10, <1>11, RecordKept, WriteAndEndKeeps DEF WriteAndEnd

LEMMA RecordOkSteps ==
  ASSUME Alone, Inv, NEW p \in Proc, RecordOk(p), UNCHANGED setting
  PROVE  Inv' /\ Progress(receipt, receipt') /\ (eff[p] \in Keys => Ends(receipt'))
<1> DEFINE e == eff[p]
<1>1. /\ receipt # None /\ mem[p] = receipt /\ EffectAt("record", receipt, e)
      /\ e \in Once \cup CloseEffect \cup {"decisionRecord", "cleanupComplete"}
      /\ receipt \in Receipt
  BY Working DEF RecordOk, PlaceAt, AtEffect, EffectAt
<1>2. CASE e \in RunEffect \cup ReviewEffect \cup CloseEffect \cup {"repairPromptDispatch"}
  BY <1>2, PlaceNames, RecordRunSteps, RecordReviewSteps, RecordCloseSteps, RecordRepairPromptSteps
<1>3. CASE e = "responseDispatch"
  <2>1. e \notin Split \cup Prompt \cup DOMAIN After
    BY <1>3, EffectsAre, PlaceNames, CallNames, AfterNames
  <2>2. WriteAndEnd(p, Moved(mem[p], "responded", "responseDispatch", "succeeded")) /\ UNCHANGED World
    BY <1>3, <2>1 DEF RecordOk, Moved
  <2> QED BY <1>3, <2>2, RecordResponseSteps DEF RecordOk
<1>4. CASE e = "repairResponseDispatch"
  <2>1. e \notin Split \cup Prompt \cup DOMAIN After
    BY <1>4, EffectsAre, PlaceNames, CallNames, AfterNames
  <2>2. /\ WriteAndEnd(p, Moved(mem[p], "repair_responded", "repairResponseDispatch", "succeeded"))
        /\ UNCHANGED World
    BY <1>4, <2>1 DEF RecordOk, Moved
  <2>3. receipt.state \in RepairState /\ ~EffectIs(receipt, "repairResponseDispatch", {"absent"})
    BY <1>1, <1>4 DEF EffectAt, RepairResponseAt, RepairState, EffectIs
  <2> QED BY <2>2, <2>3, RecordRepairSteps DEF RecordOk
<1>5. CASE e \in {"decisionRecord", "cleanupComplete"}
  BY <1>1, <1>5 DEF EffectAt
<1> QED BY <1>1, <1>2, <1>3, <1>4, <1>5, EffectsAre

LEMMA RecordUncertainSteps ==
  ASSUME Alone, Inv, NEW p \in Proc, RecordUncertain(p), UNCHANGED setting
  PROVE  Inv' /\ Progress(receipt, receipt') /\ Ends(receipt')
<1> DEFINE r == receipt
           e == eff[p]
<1>1. /\ r \in Receipt /\ r # None /\ mem[p] = r /\ Sane(r) /\ EffectAt("record", r, e)
      /\ e \in Prompt \cup Keys /\ r.effects[e] = "unknown" /\ e \in EffectName
      /\ pc[p] = "record"
  <2>1. e \in Prompt \cup Keys
    BY Working DEF RecordUncertain, RecordAt
  <2> QED BY <2>1, Working, EffectsAre, CallNames
          DEF RecordUncertain, PlaceAt, AtEffect, EffectAt, EffectIs
<1>2. CASE e = "responseDispatch"
  <2>1. WriteAndEnd(p, Moved(mem[p], "timed_out", "responseDispatch", "timed_out")) /\ UNCHANGED World
    BY <1>2 DEF RecordUncertain, Moved
  <2> QED BY <1>1, <1>2, <2>1, RecordResponseSteps
<1>3. CASE e \in {"repairPromptDispatch", "repairResponseDispatch"}
  <2>1. WriteAndEnd(p, Moved(mem[p], "repair_timed_out", e, "timed_out")) /\ UNCHANGED World
    BY <1>3 DEF RecordUncertain, Moved
  <2>2. r.state \in RepairState /\ (~EffectIs(r, "repairResponseDispatch", {"absent"})
                                      \/ e = "repairPromptDispatch")
    BY <1>1, <1>3 DEF EffectAt, RepairResponseAt, RepairState, EffectIs
  <2> QED BY <1>1, <1>3, <2>1, <2>2, RecordRepairSteps
<1>4. CASE e = "promptDispatch"
  <2>1. RunAt("record", r, e) /\ r.state = "starting" /\ e \in RunEffect
    BY <1>1, <1>4 DEF EffectAt, RunAt, RunEffect
  <2>2. PICK s : s = Moved(r, "timed_out", e, "timed_out")
    OBVIOUS
  <2>3. /\ s \in Receipt
        /\ \A x \in EffectName : s.effects[x] = IF x = e THEN "timed_out" ELSE r.effects[x]
        /\ s.state = "timed_out" /\ s.pane = r.pane /\ SameRecord(r, s)
    <3>1. "timed_out" \in Outcome /\ "timed_out" \in RunState
      BY DEF Outcome, RunState
    <3> QED BY <1>1, <2>2, <3>1, MoveFields DEF SameRecord
  <2>4. RunOrder(s, e)
    BY ZenonT(60), <2>1, <2>3, EarlierNames, EffectsAre DEF RunAt, RunOrder, EffectIs
  <2>5. PaneSound(s)
    BY <1>1, <2>3, <1>4, RoleNames, EffectsAre, CallNames DEF Sane, Sound, PaneSound, EffectIs
  <2>6. Sound(s)
    <3>1. s.effects[e] = "timed_out" /\ s.state \notin RepairState \cup ReviewState
      BY <1>1, <2>3 DEF RepairState, ReviewState
    <3> QED BY <1>1, <2>1, <2>3, <2>4, <2>5, <3>1, RunOrderSound DEF Sane
  <2>7. Readable(s)
    <3>1. s.effects[e] = "timed_out"
      BY <1>1, <2>3
    <3>2. Prompted(s) /\ CompletedRunEffects(s)
      <4>1. {"workerPane", "workerStart"} \subseteq Earlier["promptDispatch"] /\ SplitEffect["worker"] = "workerPane"
        BY DEF Earlier, SplitEffect
      <4>2. Prompted(s)
        BY <1>4, <2>4, <2>5, <3>1, <4>1, EffectsAre DEF Prompted, WorkerConfirmed, RunOrder,
           PaneSound, EffectIs
      <4> QED BY <1>4, <2>3, <2>6, <3>1, <4>2, PromptedRun DEF Sound, EffectIs
    <3>3. StateEvidence(s)
      BY <1>4, <2>3, <3>1, <3>2 DEF StateEvidence, TimedOutValid, EffectIs, RepairState, ReviewState
    <3>4. ~HasReview(s)
      BY <1>1, <2>1, <2>3, Unreviewed, RecordKept DEF Sane
    <3> QED BY <2>6, <3>3, <3>4, ReadableFrom
  <2>8. SplitInDoubt(s) \/ panes \subseteq Recorded(s)
    <3>1. Recorded(s) = Recorded(r)
      BY <2>3 DEF Recorded
    <3>2. \A x \in Split : s.effects[x] = r.effects[x]
      BY <1>1, <1>4, <2>3, EffectsAre, CallNames
    <3> QED BY <1>1, <3>1, <3>2, RoleNames DEF Sane, SplitInDoubt, EffectIs
  <2>9. Sane(s)
    <3>1. \A x \in Once : EffectIs(s, x, {"absent", "planned"}) => sent[x] = 0
      BY <1>1, <2>3, EffectsAre DEF Sane, EffectIs
    <3> QED BY <1>1, <2>3, <2>6, <2>7, <2>8, <3>1, RecordKept DEF Sane, Shape
  <2>10. Progress(r, s)
    BY <2>1, <2>3, RecordProgress
  <2>11. WriteAndEnd(p, s) /\ UNCHANGED World
    BY <1>1, <1>4, <2>2 DEF RecordUncertain, Moved
  <2> QED BY <1>1, <2>3, <2>7, <2>9, <2>10, <2>11, RecordKept, WriteAndEndKeeps
          DEF WriteAndEnd, Ends
<1>5. CASE e = "reviewPromptDispatch"
  <2>1. ReviewAt(r, e) /\ r.state = "review_starting" /\ e \in ReviewEffect
    BY <1>1, <1>5 DEF EffectAt, ReviewAt, ReviewEffect
  <2>2. PICK s : s = Moved(r, "review_timed_out", e, "timed_out")
    OBVIOUS
  <2>3. /\ s \in Receipt
        /\ \A x \in EffectName : s.effects[x] = IF x = e THEN "timed_out" ELSE r.effects[x]
        /\ s.state = "review_timed_out" /\ s.pane = r.pane /\ SameRecord(r, s)
    <3>1. "timed_out" \in Outcome /\ "review_timed_out" \in RunState
      BY DEF Outcome, RunState, ReviewState
    <3> QED BY <1>1, <2>2, <3>1, MoveFields DEF SameRecord
  <2>4. PaneSound(s)
    BY <1>1, <2>3, <1>5, RoleNames, EffectsAre, CallNames DEF Sane, Sound, PaneSound, EffectIs
  <2>5. Sound(s) /\ Readable(s) /\ HasReview(s)
    <3>1. \A x \in ReviewEffect : s.effects[x] # "absent"
      BY <1>1, <2>1, <2>3, EffectsAre DEF Sane, Sound, StateSound, ReviewSound, ReviewState,
         EffectIs
    <3>2. \A x \in RunEffect \cup Keys : s.effects[x] = r.effects[x]
      BY <2>1, <2>3, EffectsAre, PlaceNames
    <3> QED BY <1>1, <2>1, <2>3, <2>4, <3>1, <3>2, ReviewingSound DEF Sane, ReviewState
  <2>6. SplitInDoubt(s) \/ panes \subseteq Recorded(s)
    <3>1. Recorded(s) = Recorded(r)
      BY <2>3 DEF Recorded
    <3>2. \A x \in Split : s.effects[x] = r.effects[x]
      BY <1>1, <1>5, <2>3, EffectsAre, CallNames
    <3> QED BY <1>1, <3>1, <3>2, RoleNames DEF Sane, SplitInDoubt, EffectIs
  <2>7. Sane(s)
    <3>1. \A x \in Once : EffectIs(s, x, {"absent", "planned"}) => sent[x] = 0
      BY <1>1, <2>3, EffectsAre DEF Sane, EffectIs
    <3> QED BY <1>1, <2>3, <2>5, <2>6, <3>1, RecordKept DEF Sane, Shape
  <2>8. Progress(r, s)
    BY <2>1, <2>3, RecordProgress
  <2>9. WriteAndEnd(p, s) /\ UNCHANGED World
    BY <1>1, <1>5, <2>2 DEF RecordUncertain, Moved
  <2> QED BY <1>1, <2>3, <2>5, <2>7, <2>8, <2>9, WriteAndEndKeeps DEF WriteAndEnd, Ends
<1> QED BY <1>1, <1>2, <1>3, <1>4, <1>5, CallNames, EffectsAre

LEMMA RecordRejectedSteps ==
  ASSUME Alone, Inv, NEW p \in Proc, RecordRejected(p), UNCHANGED setting
  PROVE  Inv' /\ Progress(receipt, receipt') /\ Ends(receipt')
<1> DEFINE r == receipt
           e == eff[p]
<1>1. /\ r \in Receipt /\ r # None /\ mem[p] = r /\ Sane(r) /\ EffectAt("record", r, e)
      /\ e \in Start \cup Keys \cup {"repairPromptDispatch"} /\ r.effects[e] = "unknown"
      /\ e \in EffectName /\ pc[p] = "record"
  <2>1. e \in Start \cup Keys \cup {"repairPromptDispatch"}
    BY Working DEF RecordRejected, RecordAt
  <2> QED BY <2>1, Working, EffectsAre, CallNames
          DEF RecordRejected, PlaceAt, AtEffect, EffectAt, EffectIs
<1>2. CASE e = "responseDispatch"
  <2>1. WriteAndEnd(p, Moved(mem[p], "failed", "responseDispatch", "failed")) /\ UNCHANGED World
    BY <1>2, CallNames DEF RecordRejected, Moved
  <2> QED BY <1>1, <1>2, <2>1, RecordResponseSteps
<1>3. CASE e \in {"repairPromptDispatch", "repairResponseDispatch"}
  <2>1. WriteAndEnd(p, Moved(mem[p], "failed", e, "failed")) /\ UNCHANGED World
    BY <1>3, CallNames DEF RecordRejected, Moved
  <2>2. r.state \in RepairState /\ (~EffectIs(r, "repairResponseDispatch", {"absent"})
                                      \/ e = "repairPromptDispatch")
    BY <1>1, <1>3 DEF EffectAt, RepairResponseAt, RepairState, EffectIs
  <2> QED BY <1>1, <1>3, <2>1, <2>2, RecordRepairSteps
<1>4. CASE e \in Start
  <2>1. PICK s : s = WithEffect(r, e, "failed")
    OBVIOUS
  <2>2. /\ s \in Receipt
        /\ \A x \in EffectName : s.effects[x] = IF x = e THEN "failed" ELSE r.effects[x]
        /\ s.state = r.state /\ s.pane = r.pane /\ SameRecord(r, s)
    <3>1. "failed" \in Outcome
      BY DEF Outcome
    <3> QED BY <1>1, <2>1, <3>1, EffectFields DEF SameRecord
  <2>3. PaneSound(s)
    BY <1>1, <2>2, <1>4, RoleNames, EffectsAre, CallNames DEF Sane, Sound, PaneSound, EffectIs
  <2>4. Sound(s) /\ Readable(s) /\ r.state # "cleaned"
    <3>1. CASE e = "workerStart"
      <4>1. RunAt("record", r, e) /\ r.state = "starting" /\ e \in RunEffect
        BY <1>1, <3>1 DEF EffectAt, RunAt, RunEffect
      <4>2. RunAt("record", s, e)
        BY <4>1, <2>2, EarlierNames, EffectsAre DEF RunAt, EffectIs
      <4>3. s.effects[e] = "failed" /\ s.state \notin RepairState \cup ReviewState
        BY <1>1, <2>2, <4>1 DEF RepairState, ReviewState
      <4>4. Sound(s)
        BY <1>1, <2>2, <2>3, <3>1, <4>1, <4>2, <4>3, RunningSound DEF Sane
      <4>5. StateEvidence(s)
        BY <2>2, <4>1 DEF StateEvidence, RepairState, ReviewState
      <4> QED BY <4>1, <4>2, <4>4, <4>5, Unreviewed, ReadableFrom
    <3>2. CASE e = "reviewerStart"
      <4>1. ReviewAt(r, e) /\ r.state = "review_starting" /\ e \in ReviewEffect
        BY <1>1, <3>2 DEF EffectAt, ReviewAt, ReviewEffect
      <4>2. \A x \in ReviewEffect : s.effects[x] # "absent"
        BY <1>1, <2>2, <4>1, EffectsAre DEF Sane, Sound, StateSound, ReviewSound, ReviewState,
           EffectIs
      <4>3. \A x \in RunEffect \cup Keys : s.effects[x] = r.effects[x]
        BY <2>2, <4>1, EffectsAre, PlaceNames
      <4> QED BY <1>1, <2>2, <2>3, <4>1, <4>2, <4>3, ReviewingSound DEF Sane, ReviewState
    <3> QED BY <1>4, <3>1, <3>2, CallNames
  <2>5. SplitInDoubt(s) \/ panes \subseteq Recorded(s)
    <3>1. Recorded(s) = Recorded(r)
      BY <2>2 DEF Recorded
    <3>2. \A x \in Split : s.effects[x] = r.effects[x]
      BY <1>1, <1>4, <2>2, EffectsAre, CallNames
    <3> QED BY <1>1, <3>1, <3>2, RoleNames DEF Sane, SplitInDoubt, EffectIs
  <2>6. Sane(s)
    <3>1. \A x \in Once : EffectIs(s, x, {"absent", "planned"}) => sent[x] = 0
      BY <1>1, <2>2, EffectsAre DEF Sane, EffectIs
    <3> QED BY <1>1, <2>2, <2>4, <2>5, <3>1, RecordKept DEF Sane, Shape
  <2>7. Progress(r, s)
    BY <2>2, <2>4, RecordProgress
  <2>8. WriteAndEnd(p, s) /\ UNCHANGED World
    BY <1>1, <1>4, <2>1 DEF RecordRejected
  <2> QED BY <1>1, <2>2, <2>4, <2>6, <2>7, <2>8, RecordKept, WriteAndEndKeeps
          DEF WriteAndEnd, Ends
<1> QED BY <1>1, <1>2, <1>3, <1>4, EffectsAre

LEMMA RecordLostSteps ==
  ASSUME Alone, Inv, NEW p \in Proc, RecordLost(p), UNCHANGED setting
  PROVE  Inv' /\ (receipt' = receipt \/ (Progress(receipt, receipt') /\ Ends(receipt')))
<1> DEFINE r == receipt
           e == "repairResponseDispatch"
<1>1. CASE eff[p] # e
  BY <1>1, EndKeeps DEF RecordLost
<1>2. CASE eff[p] = e
  <2>1. /\ r \in Receipt /\ r # None /\ mem[p] = r /\ Sane(r) /\ e \in EffectName
        /\ r.state = "repair_blocked" /\ r.effects[e] = "unknown"
    BY <1>2, Working, EffectsAre
       DEF RecordLost, PlaceAt, AtEffect, EffectAt, EffectIs, RepairResponseAt
  <2>2. PICK s : s = InState(r, "repair_timed_out")
    OBVIOUS
  <2>3. /\ s \in Receipt
        /\ s.state = "repair_timed_out" /\ s.effects = r.effects /\ s.pane = r.pane
        /\ SameRecord(r, s)
    BY <2>1, <2>2, StateFields DEF RunState, RepairState, SameRecord
  <2>4. SamePlaces(r, s) /\ SameAnswers(r, s)
    BY <2>3 DEF SamePlaces, SameAnswers, SameRecord
  <2>5. /\ Sound(s) /\ RepairRecordValid(s) /\ (StateEvidence(s) => Readable(s))
    BY <2>1, <2>3, <2>4, RepairingSound, AnswersKept DEF Sane, Sound, RepairState, ReviewState
  <2>6. StateEvidence(s)
    BY <2>1, <2>3, <2>5 DEF StateEvidence, RepairTimedOutValid, EffectIs, RepairState, ReviewState
  <2>7. Sane(s)
    BY <2>1, <2>3, <2>4, <2>5, <2>6, RecordKept, SaneKept DEF Sane, Shape, EffectIs
  <2>8. Progress(r, s)
    BY <2>1, <2>3, RecordProgress
  <2>9. WriteAndEnd(p, s) /\ UNCHANGED World
    BY <1>2, <2>1, <2>2 DEF RecordLost, InState
  <2> QED BY <2>1, <2>3, <2>5, <2>6, <2>7, <2>8, <2>9, RecordKept, WriteAndEndKeeps
          DEF WriteAndEnd, Ends
<1> QED BY <1>1, <1>2

-----------------------------------------------------------------------------
(* The Controller is asked again.                                          *)

LEMMA ConfirmDecisionSteps ==
  ASSUME Alone, Inv, NEW p \in Proc, ConfirmDecision(p), UNCHANGED setting
  PROVE  Inv' /\ Progress(receipt, receipt')
<1>1. DecisionAt(receipt)
  BY Working DEF ConfirmDecision, PlaceAt, ConfirmAt
<1> QED BY <1>1, DecisionRecordedSteps DEF ConfirmDecision

LEMMA ResumeDecisionSteps ==
  ASSUME Alone, Inv, NEW p \in Proc, ResumeDecision(p), UNCHANGED setting
  PROVE  Inv' /\ Progress(receipt, receipt')
<1>1. DecisionAt(receipt)
  BY Working DEF ResumeDecision, PlaceAt, Readable, StateEvidence, DecisionAt, DecisionRecordValid
<1> QED BY <1>1, DecisionRecordedSteps DEF ResumeDecision

LEMMA ConfirmRepairSteps ==
  ASSUME Alone, Inv, NEW p \in Proc, ConfirmRepair(p), UNCHANGED setting
  PROVE  Inv' /\ (receipt' = receipt \/ (Progress(receipt, receipt') /\ Ends(receipt')))
<1> DEFINE r == receipt
           e == "repairPromptDispatch"
<1>1. /\ r \in Receipt /\ r # None /\ mem[p] = r /\ pc[p] = "confirm" /\ cmd[p] = "repair"
      /\ r.state = "repair_starting" /\ EffectIs(r, e, {"planned"})
      /\ e \in EffectName /\ e \in Once
  BY Working, EffectsAre DEF ConfirmRepair, PlaceAt, ConfirmAt
<1>2. CASE /\ WriteAndEnd(p, WithEffect([mem[p] EXCEPT !.state = "failed"], e, "failed"))
           /\ UNCHANGED World
  <2>1. WriteAndEnd(p, Moved(mem[p], "failed", e, "failed"))
    BY <1>2 DEF Moved
  <2> QED BY <1>1, <1>2, <2>1, RecordRepairSteps DEF RepairState
<1>3. CASE /\ Continue(p, "mark", e)
           /\ UNCHANGED <<receipt, mem, World>>
  <2>1. EffectAt("mark", r, e)
    BY <1>1, EffectsAre, PlaceNames DEF EffectAt
  <2>2. PlaceAt("mark", cmd[p], e, r)
    BY <2>1 DEF PlaceAt, AtEffect, AtProof
  <2> QED BY <1>1, <1>3, <2>2, Labels, GoOnKeeps
<1> QED BY <1>2, <1>3 DEF ConfirmRepair

-----------------------------------------------------------------------------
(* Reconciling the agent.                                                  *)

LEMMA LookSteps ==
  ASSUME Alone, Inv, NEW p \in Proc, Observe(p) \/ LookAgain(p), UNCHANGED setting
  PROVE  Inv' /\ receipt' = receipt
<1> DEFINE r == receipt
           a == Subject(r)
<1>1. /\ r \in Receipt /\ r # None /\ mem[p] = r /\ ProofAt(r) /\ LocalTypeOK /\ WorldTypeOK
  BY Working DEF Observe, LookAgain, PlaceAt, AtProof
<1>2. /\ status[a] \in Answer
  <2>1. a \in Agent
    BY DEF Subject, Agent
  <2>2. status[a] # "none"
    BY <1>1 DEF Observe, LookAgain, Observed
  <2> QED BY <1>1, <2>1, <2>2 DEF WorldTypeOK, Answer
<1>3. /\ reply' = [reply EXCEPT ![p] = status[a]]
      /\ pc' = [pc EXCEPT ![p] = "wait"] \/ pc' = [pc EXCEPT ![p] = "prove"]
      /\ UNCHANGED <<receipt, mem, cmd, eff, given, World>>
  BY <1>1 DEF Observe, LookAgain, Goto
<1>4. LocalTypeOK' /\ mem'[p] = r /\ pc'[p] \in {"wait", "prove"}
  BY <1>1, <1>2, <1>3 DEF LocalTypeOK, Label
<1>5. PlaceAt(pc'[p], cmd'[p], eff'[p], r)
  BY <1>1, <1>4 DEF PlaceAt, AtEffect, AtProof
<1> QED BY <1>1, <1>3, <1>4, <1>5, MoveKeeps

LEMMA PhaseNames ==
  ASSUME NEW r
  PROVE  /\ Phase(r) = "review" <=> r.state \in ReviewState
         /\ Phase(r) = "repair" <=> r.state \in RepairState
         /\ Phase(r) = "run" <=> r.state \notin ReviewState \cup RepairState
         /\ Phase(r) \in {"run", "review", "repair"}
         /\ WaitOf[Phase(r)] \in WaitEffect /\ WaitOf["run"] = "resumeWait"
         /\ WaitOf["review"] = "reviewWait" /\ WaitOf["repair"] = "repairWait"
         /\ TimedOutIn["run"] = "timed_out" /\ TimedOutIn["review"] = "review_timed_out"
         /\ TimedOutIn["repair"] = "repair_timed_out"
         /\ ReviewState \cap RepairState = {}
  BY DEF Phase, WaitOf, TimedOutIn, WaitEffect, ReviewState, RepairState

LEMMA WaitNames ==
  /\ WaitEffect \subseteq EffectName
  /\ WaitEffect \cap (RunEffect \cup ReviewEffect \cup Keys \cup {"repairPromptDispatch"}) = {}
  /\ Split \cap WaitEffect = {} /\ CloseEffect \cap WaitEffect = {}
  /\ "decisionRecord" \notin WaitEffect /\ "cleanupComplete" \notin WaitEffect
  BY DEF WaitEffect, EffectName, RunEffect, ReviewEffect, Keys, Split, SplitEffect, Role,
     CloseEffect

LEMMA WaitSettlesSteps ==
  ASSUME Alone, Inv, NEW p \in Proc, WaitSettles(p), UNCHANGED setting
  PROVE  Inv' /\ Progress(receipt, receipt')
<1> DEFINE r == receipt
           w == WaitOf[Phase(r)]
<1>1. /\ r \in Receipt /\ r # None /\ mem[p] = r /\ Sane(r) /\ ProofAt(r)
      /\ w \in WaitEffect /\ w \in EffectName
  BY Working, PhaseNames, WaitNames DEF WaitSettles, PlaceAt, AtProof
<1>2. PICK s : s = WithEffect(r, w, "succeeded")
  OBVIOUS
<1>3. /\ s \in Receipt
      /\ \A x \in EffectName : s.effects[x] = IF x = w THEN "succeeded" ELSE r.effects[x]
      /\ s.state = r.state /\ s.pane = r.pane /\ SameRecord(r, s)
  <2>1. "succeeded" \in Outcome
    BY DEF Outcome
  <2> QED BY <1>1, <1>2, <2>1, EffectFields DEF SameRecord
<1>4. /\ SamePlaces(r, s) /\ SameAnswers(r, s) /\ s.effects[w] = "succeeded"
      /\ \A x \in EffectName \ WaitEffect : s.effects[x] = r.effects[x]
  BY ZenonT(60), <1>1, <1>3, EffectsAre, WaitNames DEF SamePlaces, SameAnswers, SameRecord
<1>5. Sound(s)
  <2>1. StateSound(s)
    BY <1>1, <1>3, <1>4, ObservationKept, RecordKept DEF Sane, Sound, StateSound, SameRecord
  <2> QED BY <1>1, <1>3, <1>4, <2>1, PlacesKept, AnswersKept, ReviewKept, RecordKept
          DEF Sane, Sound, SameRecord
<1>6. Shape(s)
  <2>1. CASE r.state \in {"timed_out", "repair_timed_out"}
    <3>1. Phase(s) = Phase(r)
      BY <1>3 DEF Phase
    <3> QED BY <2>1, <1>3, <1>4, <3>1 DEF Shape, WaitedAgain, EffectIs
  <2>2. CASE Readable(r) /\ r.state \notin {"timed_out", "repair_timed_out"}
    <3>1. HasReview(s) => CompletedObservation(s)
      BY <1>3, <1>4, <2>2, ObservationKept, RecordKept DEF Readable, ReviewRecordValid, SameRecord
    <3>2. StateEvidence(s)
      <4>1. StateEvidence(r) /\ Sound(r)
        BY <1>1, <2>2 DEF Readable, Sane
      <4>2. CompletedRunEffects(s) <=> CompletedRunEffects(r)
        BY <1>4, PlacesKept
      <4>3. CompletedObservation(s) <=> CompletedObservation(r)
        BY <1>3, <1>4, ObservationKept DEF SameRecord
      <4>4. ReviewRecordValid(s) <=> ReviewRecordValid(r)
        BY <1>3, <1>4, <4>3, RecordKept DEF ReviewRecordValid, SamePlaces, EffectIs
      <4>5. \A x \in {"responseDispatch", "repairPromptDispatch", "repairResponseDispatch"} :
              s.effects[x] = r.effects[x]
        BY <1>4, EffectsAre, WaitNames
      <4>6. CASE r.state \in ReviewState
        BY <1>3, <4>1, <4>4, <4>6 DEF StateEvidence, SameRecord, RepairState, ReviewState
      <4>7. CASE r.state \in RepairState
        BY <1>3, <2>2, <4>1, <4>5, <4>7, RecordKept
           DEF StateEvidence, SameRecord, EffectIs, RepairState, ReviewState
      <4>8. CASE r.state \notin ReviewState \cup RepairState
        BY <1>1, <1>3, <1>4, <2>2, <4>1, <4>2, <4>5, <4>8, EffectsAre, WaitNames, RoleNames
           DEF StateEvidence, ProofAt, SameRecord, EffectIs, RepairState, ReviewState
      <4> QED BY <4>6, <4>7, <4>8
    <3> QED BY <1>5, <3>1, <3>2, ReadableFrom DEF Shape
  <2>3. CASE RepairPrompted(r) \/ AskedAgain(r) \/ NeverPrompted(r) \/ Reopened(r)
    <3>1. \A x \in {"responseDispatch", "repairPromptDispatch", "promptDispatch"} :
            s.effects[x] = r.effects[x]
      BY <1>4, EffectsAre, WaitNames DEF RunEffect
    <3>2. CompletedObservation(s) <=> CompletedObservation(r)
      BY <1>3, <1>4, ObservationKept DEF SameRecord
    <3> QED BY <1>3, <2>3, <3>1, <3>2, RecordKept
            DEF Shape, RepairPrompted, AskedAgain, NeverPrompted, Reopened, EffectIs, SameRecord
  <2> QED BY <1>1, <2>1, <2>2, <2>3 DEF Sane, Shape, WaitedAgain
<1>7. Sane(s)
  BY <1>1, <1>3, <1>4, <1>5, <1>6, EffectsAre, WaitNames, RecordKept, SaneKept DEF Sane, EffectIs
<1>8. PlaceAt("look", cmd[p], None, s)
  <2>1. Phase(s) = Phase(r)
    BY <1>3 DEF Phase
  <2> QED BY <1>1, <1>3, <1>4, <2>1, PromptedKept DEF PlaceAt, AtEffect, ProofAt
<1>9. Write(p, s) /\ Continue(p, "look", None) /\ UNCHANGED World
  BY <1>1, <1>2 DEF WaitSettles
<1>10. Progress(r, s)
  BY <1>1, <1>3, RecordProgress DEF ProofAt
<1> QED BY <1>1, <1>3, <1>7, <1>8, <1>9, <1>10, Labels, RecordKept, WriteAndGoOnKeeps DEF Write

LEMMA WaitTimesOutSteps ==
  ASSUME Alone, Inv, NEW p \in Proc, WaitTimesOut(p), UNCHANGED setting
  PROVE  Inv' /\ Progress(receipt, receipt') /\ Ends(receipt')
<1> DEFINE r == receipt
           w == WaitOf[Phase(r)]
           state == TimedOutIn[Phase(r)]
<1>1. /\ r \in Receipt /\ r # None /\ mem[p] = r /\ Sane(r) /\ ProofAt(r)
      /\ w \in WaitEffect /\ w \in EffectName /\ state \in RunState
  <2>1. state \in RunState
    BY PhaseNames DEF RunState, RepairState, ReviewState
  <2> QED BY <2>1, Working, PhaseNames, WaitNames DEF WaitTimesOut, PlaceAt, AtProof
<1>2. PICK s : s = Moved(r, state, w, "timed_out")
  OBVIOUS
<1>3. /\ s \in Receipt
      /\ \A x \in EffectName : s.effects[x] = IF x = w THEN "timed_out" ELSE r.effects[x]
      /\ s.state = state /\ s.pane = r.pane /\ SameRecord(r, s)
  <2>1. "timed_out" \in Outcome
    BY DEF Outcome
  <2> QED BY <1>1, <1>2, <2>1, MoveFields DEF SameRecord
<1>4. /\ SamePlaces(r, s) /\ SameAnswers(r, s) /\ s.effects[w] = "timed_out"
      /\ \A x \in EffectName \ WaitEffect : s.effects[x] = r.effects[x]
  <2>1. w \notin RunEffect \cup ReviewEffect /\ w \notin Keys
    BY <1>1, WaitNames
  <2>2. RunEffect \cup ReviewEffect \subseteq EffectName /\ Keys \subseteq EffectName
    BY EffectsAre
  <2>3. SamePlaces(r, s)
    BY <1>3, <2>1, <2>2 DEF SamePlaces
  <2>4. SameAnswers(r, s)
    BY <1>3, <2>1, <2>2 DEF SameAnswers, SameRecord
  <2> QED BY <1>1, <1>3, <2>3, <2>4
<1>5. Sound(s) /\ Shape(s) /\ Ends(s)
  <2>1. CASE Phase(r) = "run"
    <3>1. s.state = "timed_out" /\ s.effects["resumeWait"] = "timed_out" /\ Prompted(s)
      BY <1>1, <1>3, <1>4, <2>1, PhaseNames, PromptedKept DEF ProofAt
    <3>2. Sound(s)
      <4>1. StateSound(s)
        BY <3>1 DEF StateSound, ReviewState, RepairState
      <4> QED BY <1>1, <1>3, <1>4, <4>1, PlacesKept, AnswersKept, ReviewKept, RecordKept
              DEF Sane, Sound, SameRecord
    <3>3. CompletedRunEffects(s) => StateEvidence(s)
      BY <3>1 DEF StateEvidence, TimedOutValid, EffectIs, RepairState, ReviewState
    <3> QED BY <1>3, <3>1, <3>2, <3>3, PromptedShape
  <2>2. CASE Phase(r) = "review"
    <3>1. s.state = "review_timed_out" /\ r.state \in ReviewState
      BY <1>3, <2>2, PhaseNames
    <3>2. \A x \in ReviewEffect : s.effects[x] # "absent"
      BY <1>1, <1>4, <3>1, EffectsAre, WaitNames
         DEF Sane, Sound, StateSound, ReviewSound, EffectIs
    <3>3. PaneSound(s)
      BY <1>1, <1>4, PlacesKept DEF Sane, Sound
    <3>4. \A x \in RunEffect \cup Keys : s.effects[x] = r.effects[x]
      BY <1>4, EffectsAre, WaitNames
    <3> QED BY <1>1, <1>3, <3>1, <3>2, <3>3, <3>4, ReviewingSound DEF Sane, Shape, Ends
  <2>3. CASE Phase(r) = "repair"
    <3>1. s.state = "repair_timed_out" /\ r.state \in RepairState /\ s.effects["repairWait"] = "timed_out"
      BY <1>3, <1>4, <2>3, PhaseNames
    <3>2. Sound(s) /\ RepairRecordValid(s) /\ (StateEvidence(s) => Readable(s))
      BY <1>1, <1>3, <1>4, <3>1, RepairingSound, AnswersKept DEF Sane, Sound, ReviewState
    <3>3. StateEvidence(s)
      BY <3>1, <3>2 DEF StateEvidence, RepairTimedOutValid, EffectIs, RepairState, ReviewState
    <3> QED BY <3>2, <3>3 DEF Shape, Ends
  <2> QED BY <2>1, <2>2, <2>3, PhaseNames
<1>6. Sane(s)
  <2>1. s.state # "cleaned"
    BY <1>3, PhaseNames
  <2> QED BY <1>1, <1>3, <1>4, <1>5, <2>1, EffectsAre, WaitNames, RecordKept, SaneKept DEF Sane,
             EffectIs
<1>7. WriteAndEnd(p, s) /\ UNCHANGED World
  BY <1>1, <1>2 DEF WaitTimesOut, Moved
<1>8. Progress(r, s)
  BY <1>1, <1>3, RecordProgress DEF ProofAt
<1> QED BY <1>1, <1>3, <1>5, <1>6, <1>7, <1>8, RecordKept, WriteAndEndKeeps DEF WriteAndEnd

-----------------------------------------------------------------------------
(* The proof a command writes.                                             *)

\* What it saw of the first run: a question, a result without proof, or the proof.
LEMMA SeenSteps ==
  ASSUME Alone, Inv, NEW p \in Proc, pc[p] = "prove", Phase(receipt) = "run",
         NEW state, NEW seen, NEW result, NEW proved \in BOOLEAN,
         \/ state = "blocked" /\ seen = "blocked" /\ result = None /\ ~proved
         \/ state = "settled_unproved" /\ seen = "idle" /\ result = work.result /\ ~proved
         \/ state = "completed" /\ seen = "idle" /\ result = work.result /\ proved
              /\ work.result \in printed \ {0},
         WriteAndEnd(p, Seen(mem[p], state, seen, result, proved)),
         UNCHANGED <<setting, World>>
  PROVE  Inv' /\ Progress(receipt, receipt')
<1> DEFINE r == receipt
<1>1. /\ r \in Receipt /\ r # None /\ mem[p] = r /\ Sane(r) /\ ProofAt(r) /\ Prompted(r)
      /\ work.result \in Result /\ None \notin Result
  BY Working DEF PlaceAt, AtProof, ProofAt, WorldTypeOK, Candidate
<1>2. PICK s : s = Seen(r, state, seen, result, proved)
  OBVIOUS
<1>3. /\ s \in Receipt
      /\ s.state = state /\ s.effects = r.effects /\ s.pane = r.pane
      /\ s.response = r.response /\ s.review = r.review
      /\ s.decision = r.decision /\ s.repair = r.repair
      /\ s.obs.status = seen /\ s.obs.result = result /\ (s.obs.marked <=> proved)
  <2>1. state \in RunState /\ seen \in {"idle", "blocked"} /\ result \in Result \cup {None}
    BY <1>1 DEF RunState
  <2> QED BY ZenonT(60), <1>1, <1>2, <2>1 DEF Seen, Receipt
<1>4. SamePlaces(r, s) /\ SameAnswers(r, s) /\ (HasReview(s) <=> HasReview(r))
  BY <1>3 DEF SamePlaces, SameAnswers, HasReview
<1>5. Sound(s)
  <2>1. OutcomeSound(s)
    BY <1>1, <1>3 DEF Sane, Sound, OutcomeSound, HasDecision, HasRepair, BoundTo,
                      DecisionRecordValid, RepairRecordValid
  <2>2. StateSound(s)
    BY <1>3 DEF StateSound, ReviewState, RepairState
  <2> QED BY <1>1, <1>3, <1>4, <2>1, <2>2, PlacesKept, AnswersKept, ReviewKept DEF Sane, Sound
<1>6. Backed(s)
  BY <1>1, <1>3 DEF Sane, Backed, HasDecision
<1>7. Shape(s)
  <2>1. Prompted(s)
    BY <1>1, <1>4, PromptedKept
  <2>2. CompletedRunEffects(s) /\ ~Reopened(s) => StateEvidence(s) \/ AskedAgain(s)
    BY <1>1, <1>3 DEF StateEvidence, AskedAgain, Reopened, CompletedObservation, EffectIs,
                      RepairState, ReviewState
  <2> QED BY <1>3, <1>5, <2>1, <2>2, PromptedShape
<1>8. Sane(s)
  BY <1>1, <1>3, <1>4, <1>5, <1>6, <1>7, SaneKept DEF Sane, EffectIs
<1>9. Progress(r, s)
  BY <1>1, <1>3 DEF Progress, ProofAt
<1>10. WriteAndEnd(p, s)
  BY <1>1, <1>2
<1> QED BY <1>1, <1>3, <1>4, <1>8, <1>9, <1>10, WriteAndEndKeeps DEF WriteAndEnd

LEMMA ProveResultSteps ==
  ASSUME Alone, Inv, NEW p \in Proc, ProveResult(p), UNCHANGED setting
  PROVE  Inv' /\ Progress(receipt, receipt')
<1>1. mem[p] = receipt /\ Phase(receipt) = "run" /\ pc[p] = "prove" /\ UNCHANGED World
  BY Working DEF ProveResult
<1>2. \/ WriteAndEnd(p, Seen(mem[p], "blocked", "blocked", None, FALSE))
      \/ WriteAndEnd(p, Seen(mem[p], "settled_unproved", "idle", work.result, FALSE))
      \/ /\ WriteAndEnd(p, Seen(mem[p], "completed", "idle", work.result, TRUE))
         /\ work.result \in printed \ {0}
  BY DEF ProveResult, Seen, MarkerSeen
<1>3. TRUE \in BOOLEAN /\ FALSE \in BOOLEAN
  OBVIOUS
<1>4. CASE WriteAndEnd(p, Seen(mem[p], "blocked", "blocked", None, FALSE))
  BY <1>1, <1>3, <1>4, SeenSteps
<1>5. CASE WriteAndEnd(p, Seen(mem[p], "settled_unproved", "idle", work.result, FALSE))
  BY <1>1, <1>3, <1>5, SeenSteps
<1>6. CASE /\ WriteAndEnd(p, Seen(mem[p], "completed", "idle", work.result, TRUE))
           /\ work.result \in printed \ {0}
  BY <1>1, <1>3, <1>6, SeenSteps
<1> QED BY <1>2, <1>4, <1>5, <1>6

\* A write that changes the review only, and leaves what was reviewed.
LEMMA JudgingSound ==
  ASSUME NEW r \in Receipt, NEW s \in Receipt, Sane(r), r.state \in ReviewState,
         s.effects = r.effects, s.pane = r.pane, s.response = r.response, s.obs = r.obs,
         s.decision = r.decision, s.repair = r.repair, s.review.before = r.review.before,
         \/ s.state \in ReviewState /\ s.review.verdict = None
         \/ s.state \in {"reviewed", "review_breached"},
         s.review.verdict # None =>
           [candidate |-> s.review.before, verdict |-> s.review.verdict] \in verdicts,
         ReviewRecordValid(s) => StateEvidence(s)
  PROVE  Sane(s) /\ HasReview(s) /\ r.review.verdict = None /\ r.obs.marked
<1>1. /\ HasReview(r) /\ CompletedObservation(r) /\ r.review.verdict = None /\ HasReview(s)
      /\ Sound(r) /\ Backed(r) /\ ReviewSound(r) /\ OutcomeSound(r)
  BY DEF Sane, Sound, StateSound, HasReview
<1>2. ~HasDecision(r) /\ ~HasRepair(r) /\ ~HasDecision(s) /\ ~HasRepair(s)
  BY <1>1 DEF OutcomeSound, DecisionRecordValid, RepairRecordValid, BoundTo, Verdict,
              HasDecision, HasRepair
<1>3. SamePlaces(r, s) /\ SameAnswers(r, s)
  BY DEF SamePlaces, SameAnswers
<1>4. CompletedObservation(s)
  BY <1>1, <1>3, ObservationKept
<1>5. Sound(s)
  <2>1. OutcomeSound(s)
    BY <1>1, <1>2 DEF OutcomeSound
  <2>2. StateSound(s)
    BY <1>1, <1>4 DEF StateSound, ReviewState, RepairState
  <2>3. ReviewSound(s)
    BY <1>1, <1>3, ReviewKept
  <2> QED BY <1>1, <1>3, <2>1, <2>2, <2>3, PlacesKept, AnswersKept DEF Sound
<1>6. Backed(s)
  BY <1>1, <1>2 DEF Backed, OutcomeSound
<1>7. Readable(s)
  <2>1. ReviewRecordValid(s)
    BY <1>1, <1>4 DEF ReviewRecordValid, ReviewSound, EffectIs
  <2> QED BY <1>4, <1>5, <2>1, ReadableFrom
<1>8. Sane(s)
  <2>1. s.state # "cleaned"
    BY DEF ReviewState
  <2> QED BY <1>3, <1>5, <1>6, <1>7, <2>1, SaneKept DEF Shape, EffectIs
<1> QED BY <1>1, <1>8 DEF CompletedObservation

ReviewRecord ==
  [before : Candidate \cup {None}, after : Candidate \cup {None}, verdict : Verdict \cup {None}]

LEMMA ProveReviewSteps ==
  ASSUME Alone, Inv, NEW p \in Proc, ProveReview(p), UNCHANGED setting
  PROVE  Inv' /\ Progress(receipt, receipt')
<1> DEFINE r == receipt
<1>1. /\ r \in Receipt /\ r # None /\ mem[p] = r /\ Sane(r) /\ r.state \in ReviewState
      /\ work \in Candidate /\ None \notin Candidate /\ UNCHANGED World
      /\ verdicts \subseteq [candidate : Candidate, verdict : Verdict] /\ None \notin Verdict
      /\ r.review.verdict = None
  BY Working, PhaseNames DEF ProveReview, WorldTypeOK, Sane, Sound, StateSound
<1>2. ASSUME NEW state, state = "review_unproved" \/ (state = "review_breached" /\ work # r.review.before),
             WriteAndEnd(p, Settled(r, state, work))
      PROVE  Inv' /\ Progress(receipt, receipt')
  <2>1. PICK s : s = Settled(r, state, work)
    OBVIOUS
  <2>2. /\ s \in Receipt
        /\ s.state = state /\ s.effects = r.effects /\ s.pane = r.pane
        /\ s.response = r.response /\ s.obs = r.obs
        /\ s.review.before = r.review.before /\ s.review.after = work
        /\ s.review.verdict = None
        /\ s.decision = r.decision /\ s.repair = r.repair
    <3>1. state \in RunState
      BY <1>2 DEF RunState, ReviewState
    <3> QED BY <1>1, <2>1, <3>1, ReviewedFields
  <2>3. ReviewRecordValid(s) => StateEvidence(s)
    BY <1>1, <1>2, <2>2 DEF StateEvidence, RepairState, ReviewState
  <2>4. Sane(s) /\ HasReview(s)
    BY <1>1, <1>2, <2>2, <2>3, JudgingSound DEF ReviewState
  <2>5. Progress(r, s)
    BY <1>1, <2>2 DEF Progress, ReviewState
  <2>6. WriteAndEnd(p, s)
    BY <1>2, <2>1
  <2> QED BY <1>1, <2>2, <2>4, <2>5, <2>6, WriteAndEndKeeps DEF WriteAndEnd
<1>3. ASSUME NEW m \in verdicts, m.candidate = r.review.before, work = r.review.before,
             WriteAndEnd(p, Judged(r, work, m.verdict))
      PROVE  Inv' /\ Progress(receipt, receipt')
  <2>1. PICK s : s = Judged(r, work, m.verdict)
    OBVIOUS
  <2>2. /\ s \in Receipt
        /\ s.state = "reviewed" /\ s.effects = r.effects /\ s.pane = r.pane
        /\ s.response = r.response /\ s.obs = r.obs
        /\ s.review.before = r.review.before /\ s.review.after = work
        /\ s.review.verdict = m.verdict /\ m.verdict # None
        /\ s.decision = r.decision /\ s.repair = r.repair
    BY <1>1, <1>3, <2>1, VerdictFields
  <2>3. m = [candidate |-> s.review.before, verdict |-> s.review.verdict]
    <3>1. m \in [candidate : Candidate, verdict : Verdict]
      BY <1>1, <1>3
    <3> QED BY <1>3, <2>2, <3>1
  <2>4. ReviewRecordValid(s) => StateEvidence(s)
    BY <1>1, <1>3, <2>2 DEF StateEvidence, RepairState, ReviewState
  <2>5. Sane(s) /\ HasReview(s) /\ r.obs.marked
    BY <1>1, <1>3, <2>2, <2>3, <2>4, JudgingSound
  <2>6. Progress(r, s)
    BY <1>1, <2>2, <2>5 DEF Progress, ReviewState
  <2>7. WriteAndEnd(p, s)
    BY <1>3, <2>1
  <2> QED BY <1>1, <2>2, <2>5, <2>6, <2>7, WriteAndEndKeeps DEF WriteAndEnd
<1>4. \/ WriteAndEnd(p, Settled(r, "review_breached", work)) /\ work # r.review.before
      \/ WriteAndEnd(p, Settled(r, "review_unproved", work))
      \/ \E m \in verdicts : /\ m.candidate = r.review.before /\ work = r.review.before
                             /\ WriteAndEnd(p, Judged(r, work, m.verdict))
  <2>1. [r EXCEPT !.review.after = work].review.before = r.review.before
    <3>1. r.review \in ReviewRecord
      BY <1>1 DEF Receipt, ReviewRecord
    <3>2. [r EXCEPT !.review.after = work].review = [r.review EXCEPT !.after = work]
      BY <1>1 DEF Receipt
    <3>3. [r.review EXCEPT !.after = work].before = r.review.before
      BY <3>1 DEF ReviewRecord
    <3> QED BY <3>2, <3>3, Zenon
  <2> QED BY <1>1, <2>1 DEF ProveReview, Settled, Judged
<1> QED BY <1>2, <1>3, <1>4

\* A write that changes the repair only, and not what is to be repaired.
LEMMA MendingSound ==
  ASSUME NEW r \in Receipt, NEW s \in Receipt, Sane(r), r.state \in RepairState,
         \A x \in EffectName : x # "repairPromptDispatch" => s.effects[x] = r.effects[x],
         s.effects["repairPromptDispatch"] \in {r.effects["repairPromptDispatch"], "succeeded"},
         s.pane = r.pane, s.response = r.response, s.obs = r.obs, s.review = r.review,
         s.decision = r.decision,
         s.repair.before = r.repair.before, s.repair.responded = r.repair.responded,
         \/ s.state \in RepairState /\ ~s.repair.marked
         \/ s.state = "repaired" /\ s.repair.marked
              /\ s.repair.result \in printed \ {s.repair.before.result}
              /\ sent["repairPromptDispatch"] = 1,
         RepairRecordValid(s) /\ ~HasDecision(s) => StateEvidence(s) \/ AskedAgain(s)
  PROVE  /\ Sane(s) /\ HasRepair(r) /\ ~r.repair.marked
         /\ r.review.verdict # None /\ (HasReview(s) <=> HasReview(r))
<1>1. /\ HasRepair(r) /\ RepairRecordValid(r) /\ CompletedObservation(r) /\ ~r.repair.marked
      /\ r.repair.before.result = r.obs.result
      /\ Sound(r) /\ Backed(r) /\ OutcomeSound(r)
  BY DEF Sane, Sound, StateSound, OutcomeSound
<1>2. ~HasDecision(r) /\ ~HasDecision(s) /\ HasRepair(s) /\ RepairRecordValid(s)
      /\ r.review.verdict # None
  BY <1>1 DEF OutcomeSound, DecisionRecordValid, RepairRecordValid, BoundTo, Verdict,
              HasDecision, HasRepair
<1>3. /\ SamePlaces(r, s) /\ SameAnswers(r, s) /\ (HasReview(s) <=> HasReview(r))
  BY ZenonT(60), EffectsAre, PlaceNames DEF SamePlaces, SameAnswers, HasReview
<1>4. CompletedObservation(s)
  BY <1>1, <1>3, ObservationKept
<1>5. Sound(s)
  <2>1. OutcomeSound(s)
    BY <1>1, <1>2 DEF OutcomeSound
  <2>2. StateSound(s)
    BY <1>1, <1>2, <1>4 DEF StateSound, ReviewState, RepairState
  <2>3. ReviewSound(s)
    BY <1>1, <1>3, ReviewKept DEF Sound
  <2> QED BY <1>1, <1>3, <2>1, <2>2, <2>3, PlacesKept, AnswersKept DEF Sound
<1>6. Backed(s)
  BY <1>1, <1>2 DEF Backed
<1>7. Shape(s)
  BY <1>2, <1>4, <1>5, ReadableFrom DEF Shape
<1>8. Sane(s)
  <2>1. s.state # "cleaned"
    BY DEF RepairState
  <2>2. \A e \in Keys \cup {"repairPromptDispatch"} :
          EffectIs(s, e, {"absent", "planned"}) => EffectIs(r, e, {"absent", "planned"})
    BY <1>3 DEF SameAnswers, EffectIs
  <2> QED BY <1>3, <1>5, <1>6, <1>7, <2>1, <2>2, SaneKept
<1> QED BY <1>1, <1>2, <1>3, <1>8

\* A worker that printed a marker for other bytes than those it was to repair was
\* asked for the repair.
LEMMA RepairAsked ==
  ASSUME Inv, NEW r \in Receipt, Sane(r), r.state \in RepairState,
         work.result \in printed, work.result # r.obs.result
  PROVE  /\ work.result \in printed \ {r.repair.before.result}
         /\ sent["repairPromptDispatch"] = 1
<1>1. r.obs.result \in printed /\ r.repair.before.result = r.obs.result
  BY DEF Sane, Sound, StateSound, CompletedObservation, Backed
<1>2. sent["repairPromptDispatch"] # 0
  BY <1>1 DEF Inv, WorkerBound
<1> QED BY <1>1, <1>2, EffectsAre DEF Inv

LEMMA ProveRepairSteps ==
  ASSUME Alone, Inv, NEW p \in Proc, ProveRepair(p), UNCHANGED setting
  PROVE  Inv' /\ Progress(receipt, receipt')
<1> DEFINE r == receipt
           e == "repairPromptDispatch"
<1>0. r \in Receipt
  BY Working DEF ProveRepair
<1>1. /\ r \in Receipt /\ r # None /\ mem[p] = r /\ Sane(r) /\ r.state \in RepairState
      /\ work \in Candidate /\ work.result \in Result /\ None \notin Candidate /\ None \notin Result
      /\ UNCHANGED World /\ e \in EffectName
  BY Working, PhaseNames, EffectsAre DEF ProveRepair, WorldTypeOK, Candidate
<1>2. CASE WriteAndEnd(p, RepairBlocked(r))
  <2>1. PICK s : s = RepairBlocked(r)
    OBVIOUS
  <2>2. /\ s \in Receipt
        /\ s.state = "repair_blocked" /\ s.effects = r.effects /\ s.pane = r.pane
        /\ s.response = r.response /\ s.obs = r.obs /\ s.review = r.review
        /\ s.decision = r.decision
        /\ s.repair.status = "blocked" /\ s.repair.responded = r.repair.responded
        /\ s.repair.before = r.repair.before /\ s.repair.marked = r.repair.marked
    BY <1>1, <2>1, RepairBlockedFields
  <2>3. RepairRecordValid(s) => StateEvidence(s) \/ AskedAgain(s)
    BY <2>2 DEF StateEvidence, AskedAgain, RepairState, ReviewState
  <2>4. ~s.repair.marked /\ s.state \in RepairState
    BY <1>1, <2>2 DEF Sane, Sound, StateSound, RepairState
  <2>5. Sane(s) /\ ~r.repair.marked /\ r.review.verdict # None /\ (HasReview(s) <=> HasReview(r))
    BY <1>1, <2>2, <2>3, <2>4, MendingSound
  <2>6. Progress(r, s)
    BY <1>1, <2>2, <2>5 DEF Progress, RepairState
  <2>7. WriteAndEnd(p, s)
    BY <1>2, <2>1
  <2> QED BY <1>1, <2>2, <2>5, <2>6, <2>7, WriteAndEndKeeps DEF WriteAndEnd
<1>3. ASSUME NEW c \in Candidate, NEW n \in Result,
             WriteAndEnd(p, RepairUnproved(r, c, n))
      PROVE  Inv' /\ Progress(receipt, receipt')
  <2>1. PICK s : s = RepairUnproved(r, c, n)
    OBVIOUS
  <2>2. /\ s \in Receipt
        /\ s.state = "repair_unproved" /\ s.effects = r.effects /\ s.pane = r.pane
        /\ s.response = r.response /\ s.obs = r.obs /\ s.review = r.review
        /\ s.decision = r.decision
        /\ s.repair.before = r.repair.before /\ s.repair.responded = r.repair.responded
        /\ s.repair.after = c /\ s.repair.result = n /\ ~s.repair.marked
    BY <1>0, <2>1, RepairUnprovedFields
  <2>3. RepairRecordValid(s) => StateEvidence(s) \/ AskedAgain(s)
    BY <1>1, <2>2 DEF StateEvidence, RepairState, ReviewState
  <2>4. s.state \in RepairState
    BY <2>2 DEF RepairState
  <2>5. Sane(s) /\ ~r.repair.marked /\ r.review.verdict # None /\ (HasReview(s) <=> HasReview(r))
    BY <1>1, <2>2, <2>3, <2>4, MendingSound
  <2>6. Progress(r, s)
    <3>1. s.repair.marked = r.repair.marked
      BY <1>1, <2>2, <2>5 DEF Receipt
    <3> QED BY <1>1, <2>2, <2>5, <3>1 DEF Progress, RepairState
  <2>7. WriteAndEnd(p, s)
    BY <1>3, <2>1
  <2> QED BY <1>1, <2>2, <2>5, <2>6, <2>7, WriteAndEndKeeps DEF WriteAndEnd
<1>4. ASSUME NEW c \in Candidate, NEW n \in Result, c = work, n = work.result,
             WriteAndEnd(p, Repaired(r, c, n)), MarkerSeen, RepairChanged(r)
      PROVE  Inv' /\ Progress(receipt, receipt')
  <2>1. PICK s : s = Repaired(r, c, n)
    OBVIOUS
  <2>2. /\ s \in Receipt
        /\ \A x \in EffectName : s.effects[x] = IF x = e THEN "succeeded" ELSE r.effects[x]
        /\ s.state = "repaired" /\ s.pane = r.pane
        /\ s.response = r.response /\ s.obs = r.obs /\ s.review = r.review
        /\ s.decision = r.decision
        /\ s.repair.before = r.repair.before /\ s.repair.responded = r.repair.responded
        /\ s.repair.after = c /\ s.repair.result = n /\ s.repair.marked
    BY <1>0, <2>1, RepairedFields
  <2>3. RepairRecordValid(s) /\ ~HasDecision(s) => StateEvidence(s) \/ AskedAgain(s)
    BY <1>1, <1>4, <2>2 DEF StateEvidence, RepairedValid, RepairChanged, EffectIs, RepairState,
       ReviewState
  <2>4. /\ s.repair.result \in printed \ {s.repair.before.result}
        /\ sent[e] = 1
    BY <1>1, <1>4, <2>2, RepairAsked DEF MarkerSeen, RepairChanged
  <2>5. /\ Sane(s) /\ HasRepair(r) /\ ~r.repair.marked /\ r.review.verdict # None
        /\ (HasReview(s) <=> HasReview(r))
    BY <1>1, <2>2, <2>3, <2>4, MendingSound
  <2>6. Progress(r, s)
    BY <1>1, <2>2, <2>5 DEF Progress, RepairState
  <2>7. WriteAndEnd(p, s)
    BY <1>4, <2>1
  <2> QED BY <1>1, <2>2, <2>5, <2>6, <2>7, WriteAndEndKeeps DEF WriteAndEnd
<1> QED BY <1>1, <1>2, <1>3, <1>4 DEF ProveRepair, RepairBlocked, RepairUnproved, Repaired

-----------------------------------------------------------------------------
(* Failure of a command, and the world around it.                          *)

LEMMA StopSteps ==
  ASSUME Alone, Inv, NEW p \in Proc, GiveUp(p) \/ Crash(p), UNCHANGED setting
  PROVE  Inv' /\ receipt' = receipt
  BY EndKeeps DEF GiveUp, Crash

\* Agents and people leave the commands alone: no pane comes back, no marker goes,
\* and only a worker that works asks.
LEMMA WorldKeeps ==
  ASSUME Inv, UNCHANGED <<setting, receipt, local, sent, born>>, WorldTypeOK', WorkerBound',
         panes' \subseteq panes, printed \subseteq printed', verdicts \subseteq verdicts',
         status'["reviewer"] = "working" => status["reviewer"] = "working",
         status["worker"] \in {"blocked", "none"} => status'["worker"] \in {"blocked", "none"}
  PROVE  Inv' /\ receipt' = receipt
<1> USE DEF local
<1>1. Typed'
  <2>1. LocalTypeOK' /\ setting' \in Settings /\ receipt' \in Receipt \cup {None}
    BY TypeParts DEF Inv, LocalTypeOK
  <2> QED BY <2>1 DEF Typed
<1>2. (IF receipt = None THEN Untouched ELSE Sane(receipt))'
  <2>1. CASE receipt = None
    BY <2>1 DEF Inv, Untouched
  <2>2. CASE receipt # None
    <3>1. Backed(receipt)'
      BY <2>2 DEF Inv, Sane, Backed
    <3> QED BY <2>2, <3>1 DEF Inv, Sane
  <2> QED BY <2>1, <2>2
<1>3. (\A e \in Once : sent[e] \in {0, 1})' /\ ReviewerBound'
  BY DEF Inv, ReviewerBound
<1>4. ASSUME NEW p \in Proc, pc[p] \notin {"idle", "create"}
      PROVE  CommandAt(p)'
  <2> DEFINE r == receipt
             e == eff[p]
  <2>1. /\ r \in Receipt /\ mem[p] = r /\ PlaceAt(pc[p], cmd[p], e, r)
        /\ pc[p] = "record" => RecordAt(r, e, reply[p], given[p])
    BY <1>4, Working
  <2>2. \A x \in CloseEffect \cup {"cleanupComplete"} : CloseAt(r, x) => CloseAt(r, x)'
    BY DEF CloseAt, Closed
  <2>3. EffectAt(pc[p], r, e) => EffectAt(pc[p], r, e)'
    BY <2>2 DEF EffectAt
  <2>4. CallAt(r, e) => CallAt(r, e)'
    BY DEF CallAt
  <2>5. RecordAt(r, e, reply[p], given[p]) => RecordAt(r, e, reply[p], given[p])'
    BY DEF RecordAt
  <2>6. PlaceAt(pc[p], cmd[p], e, r)'
    BY <2>1, <2>2, <2>3, <2>4 DEF PlaceAt
  <2> QED BY <2>1, <2>5, <2>6 DEF CommandAt
<1>5. \A p \in Proc : CommandAt(p)'
  BY <1>4 DEF CommandAt
<1> QED BY <1>1, <1>2, <1>3, <1>5 DEF Inv

LEMMA StatusNames ==
  ASSUME WorldTypeOK
  PROVE  /\ "worker" \in Agent /\ "reviewer" \in Agent
         /\ \A a \in Agent : /\ [status EXCEPT ![a] = "idle"] \in
                                  [Agent -> {"none", "idle", "working", "blocked"}]
                             /\ [status EXCEPT ![a] = "blocked"] \in
                                  [Agent -> {"none", "idle", "working", "blocked"}]
         /\ {"promptDispatch", "repairPromptDispatch"} \subseteq Once
  BY EffectsAre DEF WorldTypeOK, Agent, RunEffect

LEMMA WorkerSteps ==
  ASSUME Inv, WorkerActs, UNCHANGED setting
  PROVE  Inv' /\ receipt' = receipt
<1>1. /\ status["worker"] = "working" /\ UNCHANGED <<receipt, local, session, sent>>
      /\ WorldTypeOK /\ WorkerBound /\ work \in Candidate
  BY TypeParts DEF Inv, WorkerActs, WorldTypeOK
<1>2. /\ sent["promptDispatch"] # 0
      /\ sent["repairPromptDispatch"] = 0 => printed = {}
  BY <1>1 DEF WorkerBound
<1>3. CASE /\ work.result + 1 \in Result /\ work' = [work EXCEPT !.result = @ + 1]
           /\ UNCHANGED <<printed, verdicts, herdr>>
  <2>1. work' \in Candidate
    BY <1>1, <1>3 DEF Candidate
  <2>2. WorldTypeOK' /\ WorkerBound'
    BY <1>1, <1>3, <2>1 DEF WorldTypeOK, WorkerBound, herdr
  <2> QED BY <1>1, <1>3, <2>2, WorldKeeps DEF herdr
<1>4. CASE /\ printed' = printed \cup {work.result}
           /\ Settle("worker")
           /\ UNCHANGED <<work, verdicts>>
  <2>1. work.result \in Result
    BY <1>1 DEF Candidate
  <2>2. WorldTypeOK' /\ status'["worker"] = "idle" /\ status'["reviewer"] = status["reviewer"]
    BY <1>1, <1>4, <2>1, StatusNames DEF WorldTypeOK, Settle
  <2>3. WorkerBound'
    BY <1>1, <1>2, <1>4, <2>2 DEF WorkerBound
  <2> QED BY <1>1, <1>4, <2>2, <2>3, WorldKeeps DEF Settle
<1>5. CASE UNCHANGED output /\ (Settle("worker")
                                \/ /\ status' = [status EXCEPT !["worker"] = "blocked"]
                                   /\ UNCHANGED <<panes, born, host>>)
  <2>1. WorldTypeOK' /\ status'["reviewer"] = status["reviewer"]
    BY <1>1, <1>5, StatusNames DEF WorldTypeOK, Settle, output
  <2>2. WorkerBound'
    BY <1>1, <1>2, <1>5 DEF WorkerBound, output
  <2> QED BY <1>1, <1>5, <2>1, <2>2, WorldKeeps DEF Settle, output
<1> QED BY <1>3, <1>4, <1>5 DEF WorkerActs, output

LEMMA ReviewerSteps ==
  ASSUME Inv, ReviewerActs, UNCHANGED setting
  PROVE  Inv' /\ receipt' = receipt
<1>1. /\ status["reviewer"] = "working" /\ UNCHANGED <<receipt, local, session, sent>>
      /\ WorldTypeOK /\ WorkerBound /\ work \in Candidate
  BY TypeParts DEF Inv, ReviewerActs, WorldTypeOK
<1>2. receipt \in Receipt /\ receipt.review.before \in Candidate
  BY <1>1, TypeParts DEF Inv, ReviewerBound, HasReview, Receipt
<1>3. ASSUME Settle("reviewer"), UNCHANGED <<work, printed>>, verdicts \subseteq verdicts',
             verdicts' \subseteq [candidate : Candidate, verdict : Verdict]
      PROVE  Inv' /\ receipt' = receipt
  <2>1. WorldTypeOK' /\ status'["reviewer"] = "idle" /\ status'["worker"] = status["worker"]
    BY <1>1, <1>3, StatusNames DEF WorldTypeOK, Settle
  <2>2. WorkerBound'
    BY <1>1, <1>3, <2>1 DEF WorkerBound
  <2> QED BY <1>1, <1>3, <2>1, <2>2, WorldKeeps DEF Settle
<1>4. CASE /\ \E v \in Verdict, c \in {receipt.review.before, work} :
                verdicts' = verdicts \cup {[candidate |-> c, verdict |-> v]}
           /\ Settle("reviewer")
           /\ UNCHANGED <<work, printed>>
  BY <1>1, <1>2, <1>3, <1>4 DEF WorldTypeOK
<1>5. CASE Settle("reviewer") /\ UNCHANGED output
  BY <1>1, <1>3, <1>5 DEF WorldTypeOK, output
<1>6. CASE /\ \E c \in Candidate : c.result = work.result /\ work' = c
           /\ UNCHANGED <<printed, verdicts, herdr>>
  <2>1. WorldTypeOK' /\ WorkerBound'
    BY <1>1, <1>6 DEF WorldTypeOK, WorkerBound, herdr
  <2> QED BY <1>1, <1>6, <2>1, WorldKeeps DEF herdr
<1> QED BY <1>4, <1>5, <1>6 DEF ReviewerActs

LEMMA PeopleSteps ==
  ASSUME Inv, PeopleAct, UNCHANGED setting
  PROVE  Inv' /\ receipt' = receipt
<1>1. UNCHANGED <<receipt, local, sent>> /\ WorldTypeOK /\ WorkerBound
  BY TypeParts DEF Inv, PeopleAct
<1>2. CASE /\ work' \in Candidate
           /\ UNCHANGED <<printed, verdicts, herdr, session>>
  <2>1. WorldTypeOK' /\ WorkerBound'
    BY <1>1, <1>2 DEF WorldTypeOK, WorkerBound, herdr
  <2> QED BY <1>1, <1>2, <2>1, WorldKeeps DEF herdr
<1>3. CASE /\ \E id \in panes :
                /\ panes' = panes \ {id}
                /\ status' = [a \in Agent |-> IF host[a] = id THEN "none" ELSE status[a]]
           /\ UNCHANGED <<born, host, output, session>>
  <2>1. /\ panes' \subseteq panes /\ UNCHANGED <<born, host, work, printed, verdicts, session>>
        /\ status' \in [Agent -> {"none", "idle", "working", "blocked"}]
        /\ \A a \in Agent : status'[a] \in {status[a], "none"}
    BY <1>1, <1>3 DEF WorldTypeOK, output
  <2>2. WorldTypeOK'
    BY <1>1, <2>1 DEF WorldTypeOK
  <2>3. WorkerBound'
    BY <1>1, <2>1, StatusNames DEF WorkerBound
  <2> QED BY <1>1, <2>1, <2>2, <2>3, StatusNames, WorldKeeps
<1>4. CASE /\ session' \in Session
           /\ UNCHANGED <<herdr, output>>
  <2>1. WorldTypeOK' /\ WorkerBound'
    BY <1>1, <1>4 DEF WorldTypeOK, WorkerBound, herdr, output
  <2> QED BY <1>1, <1>4, <2>1, WorldKeeps DEF herdr, output
<1> QED BY <1>2, <1>3, <1>4 DEF PeopleAct

-----------------------------------------------------------------------------
(* The invariant holds, and what it says of the run.                       *)

LEMMA InitInv ==
  ASSUME Init
  PROVE  Inv /\ receipt = None
<1>1. LocalTypeOK
  BY DEF Init, LocalTypeOK, Label, Answer
<1>2. sent \in [Once -> 0..MaxSent] /\ \A e \in Once : sent[e] = 0
  BY DEF Init
<1>3. WorldTypeOK
  BY <1>2 DEF Init, WorldTypeOK, Candidate
<1>4. Typed
  BY <1>1, <1>3, TypeParts DEF Init
<1>5. "worker" \in Agent /\ "reviewer" \in Agent
  BY DEF Agent
<1>6. WorkerBound /\ ReviewerBound
  BY <1>5 DEF Init, WorkerBound, ReviewerBound
<1> QED BY <1>2, <1>4, <1>6 DEF Init, Inv, Untouched, CommandAt

\* One step of one command that does not make the receipt.
LEMMA CommandSteps ==
  ASSUME Alone, Inv, NEW p \in Proc, UNCHANGED setting,
         \/ \E c \in setting \cap CommandName : Begin(p, c)
         \/ Check(p) \/ Effect(p) \/ Reconcile(p) \/ GiveUp(p) \/ Crash(p)
  PROVE  /\ Inv'
         /\ \/ receipt' = receipt
            \/ receipt # None /\ Progress(receipt, receipt')
<1>2. CASE \E c \in setting \cap CommandName : Begin(p, c)
  BY <1>2, BeginSteps
<1>3. CASE Check(p)
  <2>1. receipt # None
    BY <1>3, Working DEF Check, CheckRespond, CheckReview, CheckDecide, CheckRepair, CheckResume,
                         ResumeDecision, CheckCleanup
  <2> QED BY <1>3, <2>1, CheckRespondSteps, CheckRespondToRepairSteps, CheckReviewSteps,
             CheckDecideSteps, CheckRepairSteps, CheckResumeSteps, ResumeDecisionSteps,
             CheckCleanupSteps DEF Check
<1>4. CASE Effect(p)
  <2>1. receipt # None
    BY <1>4, Working DEF Effect, Mark, MarkDecision, MarkClose, MarkCleaned, Complete, Call,
       RecordOk,
                         RecordUncertain, RecordRejected, RecordLost, ConfirmDecision, ConfirmRepair
  <2> QED BY SMTT(40), <1>4, <2>1, MarkSteps, MarkDecisionSteps, MarkCloseSteps, MarkCleanedSteps,
             CompleteSteps, CallSteps, RecordOkSteps, RecordUncertainSteps, RecordRejectedSteps,
             RecordLostSteps, ConfirmDecisionSteps, ConfirmRepairSteps DEF Effect
<1>5. CASE Reconcile(p)
  <2>1. receipt # None
    BY <1>5, Working DEF Reconcile, Observe, WaitSettles, WaitTimesOut, LookAgain, ProveResult,
                         ProveReview, ProveRepair
  <2> QED BY <1>5, <2>1, LookSteps, WaitSettlesSteps, WaitTimesOutSteps, ProveResultSteps,
             ProveReviewSteps, ProveRepairSteps DEF Reconcile
<1>6. CASE GiveUp(p) \/ Crash(p)
  BY <1>6, StopSteps
<1> QED BY <1>2, <1>3, <1>4, <1>5, <1>6

\* A file that was not written to its end is no receipt.
TornInv == torn \in BOOLEAN /\ (torn => receipt = None)

LEMMA StepInv ==
  ASSUME Alone, Inv, TornInv, [Next]_vars
  PROVE  /\ Inv' /\ TornInv'
         /\ \/ receipt' = receipt
            \/ receipt = None /\ receipt' = Fresh
            \/ receipt # None /\ Progress(receipt, receipt')
<1>1. CASE UNCHANGED vars
  <2>1. WorldTypeOK /\ WorkerBound
    BY TypeParts DEF Inv
  <2>2. UNCHANGED <<setting, receipt, local, sent, panes, born, host, status, work, printed, verdicts, session>>
    BY <1>1 DEF vars, herdr, output
  <2>3. WorldTypeOK' /\ WorkerBound'
    BY <2>1, <2>2 DEF WorldTypeOK, WorkerBound
  <2>4. TornInv'
    BY <1>1 DEF vars, TornInv
  <2> QED BY <2>2, <2>3, <2>4, WorldKeeps
<1>2. ASSUME NEW p \in Proc, Create(p), UNCHANGED setting
      PROVE  Inv' /\ TornInv' /\ receipt' = receipt
  BY <1>2, CreateSteps DEF Create, TornInv
<1>3. ASSUME NEW p \in Proc, Run(p), UNCHANGED setting
      PROVE  Inv' /\ TornInv' /\ receipt = None /\ receipt' = Fresh
  BY <1>3, RunSteps DEF Run, TornInv
<1>4. ASSUME NEW p \in Proc, UNCHANGED <<setting, torn>>,
             \/ \E c \in setting \cap CommandName : Begin(p, c)
             \/ Check(p) \/ Effect(p) \/ Reconcile(p) \/ GiveUp(p) \/ Crash(p)
      PROVE  /\ Inv' /\ TornInv'
             /\ \/ receipt' = receipt
                \/ receipt # None /\ Progress(receipt, receipt')
  BY <1>4, CommandSteps DEF TornInv
<1>5. ASSUME WorkerActs \/ ReviewerActs \/ PeopleAct, UNCHANGED <<setting, torn>>
      PROVE  Inv' /\ TornInv' /\ receipt' = receipt
  BY <1>5, WorkerSteps, ReviewerSteps, PeopleSteps DEF TornInv
<1> QED BY <1>1, <1>2, <1>3, <1>4, <1>5 DEF Next

\* The invariant of one command at a time: the receipt is sound and backed by what
\* happened, and the command is where the receipt says it is; a file that was created
\* and not yet written is of a run that has done nothing.
THEOREM RunInductive == ASSUME Alone PROVE Spec => [](Inv /\ TornInv)
<1>1. Init => Inv /\ TornInv
  BY InitInv DEF Init, TornInv
<1>2. Inv /\ TornInv /\ [Next]_vars => (Inv /\ TornInv)'
  BY StepInv
<1> QED BY <1>1, <1>2, PTL DEF Spec

\* Every variable keeps its type.
THEOREM RunTyped == ASSUME Alone PROVE Spec => []TypeOK
<1>1. Inv /\ TornInv => TypeOK
  BY DEF Inv, Typed, LocalTypeOK, WorldTypeOK, Label, Answer, TornInv, TypeOK
<1> QED BY <1>1, RunInductive, PTL

\* Whatever dies and whatever answers get lost, an effect the receipt does not know
\* of did not happen (dispatchPaneCommand, startWorker, promptWorker: "unknown" is
\* written before the call).
THEOREM RunWriteAhead == ASSUME Alone PROVE Spec => []WriteAhead
<1>1. Inv => WriteAhead
  BY EffectsAre DEF Inv, WriteAhead, Untouched, Sane
<1> QED BY <1>1, RunInductive, PTL

\* No prompt, answer, start, launch or split is handed to Herdr twice, however many
\* commands follow each other and die ("No prompt will be resent").
THEOREM RunAtMostOnce == ASSUME Alone PROVE Spec => []AtMostOnce
<1>1. Inv => AtMostOnce
  BY DEF Inv, AtMostOnce
<1> QED BY <1>1, RunInductive, PTL

-----------------------------------------------------------------------------
(* What a command leaves when it comes to its end.                         *)

\* The states in which a receipt may be refused until the command goes on.
LEMMA EndsByState ==
  ASSUME NEW r, Shape(r), r.state \notin {"timed_out", "repair_timed_out", "repair_starting"}
  PROVE  Ends(r)
  BY DEF Shape, Ends, DeadEnd, WaitedAgain, RepairPrompted

\* Steps after which a command goes on.
LEMMA GoesOn ==
  ASSUME Inv, NEW p \in Proc,
         \/ \E c \in setting \cap CommandName : Begin(p, c)
         \/ CheckRespond(p) \/ CheckReview(p) \/ CheckDecide(p) \/ CheckRepair(p)
         \/ CheckResume(p) \/ CheckCleanup(p)
         \/ Mark(p) \/ MarkDecision(p) \/ MarkClose(p) \/ MarkCleaned(p) \/ Call(p)
         \/ RecordOk(p) /\ eff[p] \notin Keys
         \/ Observe(p) \/ WaitSettles(p) \/ LookAgain(p)
  PROVE  pc'[p] # "idle"
<1>1. pc \in [Proc -> Label]
  BY TypeParts DEF Inv, LocalTypeOK
<1> QED
  BY <1>1 DEF Begin, CheckRespond, CheckReview, CheckDecide, CheckRepair, CheckResume,
     CheckCleanup, Mark, MarkDecision, MarkClose, MarkCleaned, Call, RecordOk, Observe,
     WaitSettles, LookAgain, Continue, Goto

\* The last write of a decision, a cleanup or a proof leaves none of those states.
LEMMA LastStates ==
  ASSUME Inv, NEW p \in Proc, receipt' # receipt,
         \/ ResumeDecision(p) \/ ConfirmDecision(p) \/ Complete(p)
         \/ ProveResult(p) \/ ProveReview(p) \/ ProveRepair(p)
  PROVE  receipt'.state \notin {"timed_out", "repair_timed_out", "repair_starting"}
<1>1. mem[p] = receipt /\ receipt \in Receipt
  BY Working DEF ResumeDecision, ConfirmDecision, Complete, ProveResult, ProveReview, ProveRepair
<1> DEFINE r == mem[p]
<1>a. "state" \in DOMAIN r
  BY <1>1 DEF Receipt
<1> HIDE DEF r
<1>2. CASE ResumeDecision(p) \/ ConfirmDecision(p)
  <2>1. receipt' = DecisionRecorded(r)
    BY <1>2 DEF ResumeDecision, ConfirmDecision, WriteAndEnd, r
  <2>2. DecisionRecorded(r).state = "decided"
    BY <1>a DEF DecisionRecorded
  <2> QED BY <2>1, <2>2
<1>3. CASE Complete(p)
  BY SMTT(40), <1>1, <1>3 DEF Complete, WriteAndEnd, Receipt
<1>4. CASE ProveResult(p)
  <2>1. \/ \E o : receipt' = [r EXCEPT !.state = "blocked", !.obs = o]
        \/ \E o : receipt' = [r EXCEPT !.state = "settled_unproved", !.obs = o]
        \/ \E o : receipt' = [r EXCEPT !.state = "completed", !.obs = o]
    BY <1>4, Zenon DEF ProveResult, WriteAndEnd, r
  <2>2. receipt'.state \in {"blocked", "settled_unproved", "completed"}
    <3>1. CASE \E o : receipt' = [r EXCEPT !.state = "blocked", !.obs = o]
      <4>1. PICK o : receipt' = [r EXCEPT !.state = "blocked", !.obs = o]
        BY <3>1
      <4> QED BY <1>a, <4>1
    <3>2. CASE \E o : receipt' = [r EXCEPT !.state = "settled_unproved", !.obs = o]
      <4>1. PICK o : receipt' = [r EXCEPT !.state = "settled_unproved", !.obs = o]
        BY <3>2
      <4> QED BY <1>a, <4>1
    <3>3. CASE \E o : receipt' = [r EXCEPT !.state = "completed", !.obs = o]
      <4>1. PICK o : receipt' = [r EXCEPT !.state = "completed", !.obs = o]
        BY <3>3
      <4> QED BY <1>a, <4>1
    <3> QED BY <2>1, <3>1, <3>2, <3>3
  <2> QED BY <2>2
<1>5. CASE ProveReview(p)
  <2>1. receipt'.state \in {"review_breached", "review_unproved", "reviewed"}
    <3> DEFINE d == [mem[p] EXCEPT !.review.after = work]
    <3>1. "state" \in DOMAIN d
      BY <1>1 DEF Receipt
    <3> HIDE DEF d
    <3>4. \/ receipt' = [d EXCEPT !.state = "review_breached"]
          \/ receipt' = [d EXCEPT !.state = "review_unproved"]
          \/ \E v : receipt' = [d EXCEPT !.state = "reviewed", !.review.verdict = v]
      BY <1>5 DEF ProveReview, WriteAndEnd, d
    <3>5. CASE \E v : receipt' = [d EXCEPT !.state = "reviewed", !.review.verdict = v]
      <4>1. PICK v : receipt' = [d EXCEPT !.state = "reviewed", !.review.verdict = v]
        BY <3>5
      <4> QED BY <3>1, <4>1
    <3>6. CASE receipt' = [d EXCEPT !.state = "review_breached"]
      BY <3>1, <3>6
    <3>7. CASE receipt' = [d EXCEPT !.state = "review_unproved"]
      BY <3>1, <3>7
    <3> QED BY Zenon, <3>4, <3>5, <3>6, <3>7
  <2> QED BY <2>1
<1>6. CASE ProveRepair(p)
  <2>1. receipt'.state \in {"repair_blocked", "repair_unproved", "repaired"}
    <3>1. "state" \in DOMAIN receipt
      BY <1>1 DEF Receipt
    <3>5. \/ receipt' = [receipt EXCEPT !.state = "repair_blocked", !.repair.status = "blocked"]
          \/ \E v : receipt' = [receipt EXCEPT !.state = "repair_unproved", !.repair = v]
          \/ \E v : receipt' = [receipt EXCEPT !.state = "repaired", !.repair = v,
                                   !.effects["repairPromptDispatch"] = "succeeded"]
      BY <1>1, <1>6 DEF ProveRepair, WriteAndEnd
    <3>2. CASE \E v : receipt' = [receipt EXCEPT !.state = "repair_unproved", !.repair = v]
      BY <3>1, <3>2
    <3>3. CASE receipt' = [receipt EXCEPT !.state = "repair_blocked", !.repair.status = "blocked"]
      BY <3>1, <3>3
    <3>4. CASE \E v : receipt' = [receipt EXCEPT !.state = "repaired", !.repair = v,
                                   !.effects["repairPromptDispatch"] = "succeeded"]
      <4>1. PICK v : receipt' = [receipt EXCEPT !.state = "repaired", !.repair = v,
                                   !.effects["repairPromptDispatch"] = "succeeded"]
        BY <3>4
      <4> QED BY <3>1, <4>1
    <3> QED BY Zenon, <3>2, <3>3, <3>4, <3>5
  <2> QED BY <2>1
<1> QED BY <1>2, <1>3, <1>4, <1>5, <1>6

LEMMA EndSteps ==
  ASSUME Alone, Inv, Inv', NEW p \in Proc, UNCHANGED setting,
         \/ \E c \in setting \cap CommandName : Begin(p, c)
         \/ Check(p) \/ Effect(p) \/ Reconcile(p) \/ GiveUp(p) \/ Crash(p),
         receipt' # receipt, receipt' # None, pc'[p] = "idle"
  PROVE  Ends(receipt')
<1>1. \/ \/ ResumeDecision(p) \/ ConfirmDecision(p) \/ Complete(p)
         \/ ProveResult(p) \/ ProveReview(p) \/ ProveRepair(p)
      \/ RecordOk(p) /\ eff[p] \in Keys
      \/ RecordUncertain(p) \/ RecordRejected(p) \/ RecordLost(p)
      \/ ConfirmRepair(p) \/ WaitTimesOut(p)
      \/ GiveUp(p) \/ Crash(p)
  BY GoesOn DEF Check, Effect, Reconcile
<1>2. CASE \/ ResumeDecision(p) \/ ConfirmDecision(p) \/ Complete(p)
           \/ ProveResult(p) \/ ProveReview(p) \/ ProveRepair(p)
  <2>1. PICK s : s = receipt'
    OBVIOUS
  <2>2. Shape(s) /\ s.state \notin {"timed_out", "repair_timed_out", "repair_starting"}
    BY <1>2, <2>1, LastStates DEF Inv, Sane, Shape
  <2> QED BY <2>1, <2>2, EndsByState
<1>3. CASE RecordOk(p) /\ eff[p] \in Keys  BY <1>3, RecordOkSteps
<1>4. CASE RecordUncertain(p)               BY <1>4, RecordUncertainSteps
<1>5. CASE RecordRejected(p)                BY <1>5, RecordRejectedSteps
<1>6. CASE RecordLost(p)                    BY <1>6, RecordLostSteps
<1>7. CASE ConfirmRepair(p)                 BY <1>7, ConfirmRepairSteps
<1>8. CASE WaitTimesOut(p)                  BY <1>8, WaitTimesOutSteps
<1>9. CASE GiveUp(p) \/ Crash(p)            BY <1>9 DEF GiveUp, Crash
<1> QED BY <1>1, <1>2, <1>3, <1>4, <1>5, <1>6, <1>7, <1>8, <1>9

\* readReceipt refuses no receipt a command leaves, but in the five ways named in
\* ReadableBesides, two of which the last write of a command never leaves; a file
\* that was not written to its end is left before anything was handed to Herdr.
THEOREM RunReadableBesides == ASSUME Alone PROVE Spec => ReadableBesides
<1> DEFINE Left ==
      /\ receipt' # None => Readable(receipt') \/ Halfway(receipt') \/ DeadEnd(receipt')
      /\ \A p \in Proc :
           pc[p] # "idle" /\ pc'[p] = "idle" /\ receipt' # receipt
             => Readable(receipt') \/ DeadEnd(receipt')
      /\ torn' => receipt' = None /\ born' = {} /\ \A e \in Once : sent'[e] = 0
<1>1. Inv /\ TornInv /\ [Next]_vars => [Left]_vars
  <2> SUFFICES ASSUME Inv, TornInv, Next PROVE Left
    OBVIOUS
  <2>1. Inv' /\ TornInv' /\ (receipt' = receipt \/ receipt' # None)
    BY StepInv DEF Progress, Fresh
  <2>2. receipt' # None => Readable(receipt') \/ Halfway(receipt') \/ DeadEnd(receipt')
    BY <2>1 DEF Inv, Sane, Shape, Halfway, DeadEnd
  <2>3. torn' => receipt' = None /\ born' = {} /\ \A e \in Once : sent'[e] = 0
    BY <2>1 DEF Inv, TornInv, Untouched
  <2>4. ASSUME NEW p \in Proc, pc[p] # "idle", pc'[p] = "idle", receipt' # receipt
        PROVE  Ends(receipt')
    <3>1. CASE Create(p) \/ Run(p)
      <4>1. pc \in [Proc -> Label]
        BY TypeParts DEF Inv, LocalTypeOK
      <4> QED BY <2>4, <3>1, <4>1 DEF Create, Run, Goto
    <3>2. CASE \/ \E c \in setting \cap CommandName : Begin(p, c)
               \/ Check(p) \/ Effect(p) \/ Reconcile(p) \/ GiveUp(p) \/ Crash(p)
      BY <2>1, <2>4, <3>2, EndSteps DEF Next
    <3>3. CASE WorkerActs \/ ReviewerActs \/ PeopleAct
      BY <2>4, <3>3 DEF WorkerActs, ReviewerActs, PeopleAct
    <3> QED BY <3>1, <3>2, <3>3 DEF Next, Alone
  <2> QED BY <2>2, <2>3, <2>4 DEF Ends
<1> QED BY <1>1, RunInductive, PTL DEF Spec, ReadableBesides

\* A decision is about proved and approved bytes, a repair about a candidate that
\* needed changes and was proved anew by a worker asked once.
THEOREM RunOutcomeBound == ASSUME Alone PROVE Spec => []OutcomeBound
<1>1. Inv => OutcomeBound
  <2> SUFFICES ASSUME Inv, receipt # None PROVE OutcomeBound
    BY DEF OutcomeBound
  <2> DEFINE r == receipt
  <2>1. Sane(r) /\ OutcomeSound(r) /\ Backed(r)
    BY DEF Inv, Sane, Sound
  <2>2. ASSUME r.decision.recorded
        PROVE  /\ [candidate |-> r.decision.candidate, verdict |-> "approve"] \in verdicts
               /\ r.decision.candidate.result \in printed \ {0}
               /\ sent["promptDispatch"] = 1
    <3>1. HasDecision(r) /\ r.decision.candidate = r.review.before /\ r.review.verdict = "approve"
      BY <2>1, <2>2 DEF OutcomeSound, DecisionRecordValid, BoundTo
    <3>2. "approve" # None /\ "promptDispatch" \in Once
      BY EffectsAre DEF Verdict, RunEffect
    <3>3. r.decision.candidate.result \in printed \ {0}
      BY <2>1, <3>1 DEF Backed
    <3>4. sent["promptDispatch"] = 1
      BY <3>2, <3>3 DEF Inv, WorkerBound
    <3>5. [candidate |-> r.review.before, verdict |-> r.review.verdict] \in verdicts
      BY <2>1, <3>1, <3>2 DEF Backed
    <3> QED BY <3>1, <3>3, <3>4, <3>5
  <2>3. ASSUME r.repair.marked
        PROVE  /\ [candidate |-> r.repair.before, verdict |-> "request_changes"] \in verdicts
               /\ r.repair.result \in printed \ {r.repair.before.result}
               /\ sent["repairPromptDispatch"] = 1
    <3>1. r.repair.before = r.review.before /\ r.review.verdict = "request_changes"
      BY <2>1, <2>3 DEF OutcomeSound, RepairRecordValid, BoundTo
    <3>2. "request_changes" # None
      BY DEF Verdict
    <3>3. [candidate |-> r.review.before, verdict |-> r.review.verdict] \in verdicts
      BY <2>1, <3>1, <3>2 DEF Backed
    <3> QED BY <2>1, <2>3, <3>1, <3>3 DEF Backed
  <2> QED BY <2>2, <2>3 DEF OutcomeBound
<1> QED BY <1>1, RunInductive, PTL

\* A cleaned run has no pane left open that Herdr ever split for it.
THEOREM RunCleanedClosesAll == ASSUME Alone PROVE Spec => []CleanedClosesAll
<1>1. Inv => CleanedClosesAll
  BY DEF Inv, CleanedClosesAll, Sane
<1> QED BY <1>1, RunInductive, PTL

\* No command takes back a pane, a verdict, a decision, a proved repair or the end
\* of the run.
THEOREM RunNothingTakenBack == ASSUME Alone PROVE Spec => NothingTakenBack
<1> DEFINE Kept ==
      receipt # None =>
        /\ receipt' # None
        /\ \A role \in Role : receipt.pane[role] # None => receipt'.pane[role] = receipt.pane[role]
        /\ receipt.review.verdict # None => receipt'.review = receipt.review
        /\ receipt.decision.recorded => receipt'.decision = receipt.decision
        /\ receipt.repair.marked => receipt'.repair = receipt.repair
        /\ receipt.state = "cleaned" => receipt' = receipt
<1>1. Inv /\ TornInv /\ [Next]_vars => [Kept]_vars
  <2> SUFFICES ASSUME Inv, TornInv, [Next]_vars, receipt # None PROVE Kept
    OBVIOUS
  <2>1. CASE receipt' = receipt
    BY <2>1
  <2>2. CASE Progress(receipt, receipt')
    BY <2>2 DEF Progress
  <2> QED BY <2>1, <2>2, StepInv
<1> QED BY <1>1, RunInductive, PTL DEF Spec, NothingTakenBack

-----------------------------------------------------------------------------
(* The receipt keeps the ledger.                                           *)

LEMMA LedgerStep ==
  ASSUME Inv, Inv', receipt # None, Progress(receipt, receipt')
  PROVE  [Ledger!LedgerNext]_(Ledger!ledger)
<1> USE DEF Ledger!LedgerNext, Ledger!Prove, Ledger!Doubt, Ledger!Judge, Ledger!Decide,
            Ledger!Repair, Ledger!Close, Ledger!ledger
<1> DEFINE r == receipt
           s == receipt'
<1>1. /\ r \in Receipt /\ s \in Receipt /\ s # None /\ r.state # "cleaned"
      /\ OutcomeSound(r) /\ Progress(r, s)
      /\ r.review.verdict \in Verdict \cup {None} /\ s.review.verdict \in Verdict \cup {None}
  BY TypeParts DEF Inv, Sane, Sound, Progress, Receipt
<1>2. /\ r.repair.marked => r.review.verdict = "request_changes"
      /\ HasRepair(r) => r.review.verdict = "request_changes"
      /\ r.decision.recorded => r.review.verdict = "approve"
      /\ HasDecision(r) => r.review.verdict = "approve"
      /\ None \notin Verdict /\ "approve" \in Verdict /\ "request_changes" \in Verdict
  BY <1>1 DEF OutcomeSound, RepairRecordValid, DecisionRecordValid, BoundTo, Verdict
<1>3. CASE s.state = "cleaned"
  <2>1. s.review.verdict = r.review.verdict
    BY <1>1, <1>3 DEF Progress
  <2>2. Stage # "closed" /\ Stage' = "closed"
    BY <1>1, <1>3 DEF Stage
  <2> QED BY <1>1, <2>1, <2>2
<1>4. CASE s.state # "cleaned" /\ s.review.verdict = r.review.verdict
                /\ s.decision.recorded = r.decision.recorded /\ s.repair.marked = r.repair.marked
  BY <1>1, <1>4 DEF Stage
<1>5. CASE /\ r.review.verdict = None /\ s.review.verdict # None /\ r.obs.marked
           /\ s.decision = r.decision /\ s.repair = r.repair /\ s.state # "cleaned"
  <2>1. Stage = "proved" /\ Stage' = "reviewed"
    BY <1>1, <1>2, <1>5 DEF Stage
  <2> QED BY <1>1, <1>5, <2>1
<1>6. CASE /\ HasDecision(r) /\ ~r.decision.recorded /\ s.decision.recorded
           /\ s.review = r.review /\ s.repair = r.repair /\ s.state # "cleaned"
  <2>1. Stage = "reviewed" /\ Stage' = "decided"
    BY <1>1, <1>2, <1>6 DEF Stage
  <2> QED BY <1>1, <1>2, <1>6, <2>1
<1>7. CASE /\ HasRepair(r) /\ ~r.repair.marked /\ s.repair.marked
           /\ s.review = r.review /\ s.decision = r.decision /\ s.state # "cleaned"
  <2>1. Stage = "reviewed" /\ Stage' = "repaired"
    BY <1>1, <1>2, <1>7 DEF Stage
  <2> QED BY <1>1, <1>2, <1>7, <2>1
<1> QED BY <1>1, <1>3, <1>4, <1>5, <1>6, <1>7 DEF Progress

\* FrontierRunner implements FrontierLedger: the run is proved, judged once, decided
\* or repaired as the verdict says, and closed for good.
THEOREM RunKeepsLedger == ASSUME Alone PROVE Spec => LedgerSpec
<1>1. Init => Ledger!LedgerInit
  BY DEF Init, Ledger!LedgerInit, Stage
<1>2. Inv /\ TornInv /\ [Next]_vars => [Ledger!LedgerNext]_(Ledger!ledger)
  <2> SUFFICES ASSUME Inv, TornInv, [Next]_vars PROVE [Ledger!LedgerNext]_(Ledger!ledger)
    OBVIOUS
  <2>1. Inv'
    BY StepInv
  <2>2. CASE receipt' = receipt
    BY <2>2 DEF Ledger!ledger, Stage
  <2>3. CASE receipt = None /\ receipt' = Fresh
    BY <2>3 DEF Ledger!ledger, Stage, Fresh
  <2>4. CASE receipt # None /\ Progress(receipt, receipt')
    BY <2>1, <2>4, LedgerStep
  <2> QED BY <2>2, <2>3, <2>4, StepInv
<1> QED BY <1>1, <1>2, RunInductive, PTL DEF Spec, LedgerSpec, Ledger!LedgerSpec
=============================================================================
