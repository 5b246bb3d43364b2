----------------------------- MODULE ReviewGate -----------------------------
(***************************************************************************)
(* The optional Codex review gate (.github/workflows/codex-review-gate.yml)*)
(* of one pull request: a status of each commit, which three kinds of job  *)
(* post.  A push or a reopening starts one that makes the gate green, a    *)
(* comment of a maintainer one that arms it or one that attests a clean    *)
(* review.  Nothing orders the jobs: the pull request is pushed to, Codex  *)
(* answers and other jobs post between any two steps of one.               *)
(*                                                                         *)
(* The prefix of a hash names one commit.  What Codex found stays there.   *)
(***************************************************************************)
EXTENDS FiniteSets, Naturals

CONSTANTS
  Commit,      \* what the pull request's branch may hold
  Task,        \* jobs at work at a time
  MaxFindings, \* the bound on what Codex finds
  None

VARIABLES
  tip,       \* the head of the pull request
  pushed,    \* what has been its head
  status,    \* the latest status of each commit
  receipts,  \* the commits that a comment of Codex says it reviewed
  findings,  \* the review and inline objects of Codex
  task       \* the next step of each job, and the commit it is about

gateVars == <<tip, pushed, status, receipts, findings, task>>

Surface == {"review", "inline"}
Status == {"none", "unrequested", "pending", "attested"}

\* early: it was there before any approval of its commit began.
Finding == [commit : Commit, surface : Surface, early : BOOLEAN]

Idle == [step |-> "idle", commit |-> None]

GateTypeOK ==
  /\ tip \in pushed /\ pushed \subseteq Commit
  /\ status \in [Commit -> Status]
  /\ receipts \subseteq pushed
  /\ findings \subseteq Finding
  /\ task \in [Task -> {Idle, [step |-> "request", commit |-> None]} \cup
                 [step : {"initialize", "arm", "approve", "receipt", "review", "inline", "attest"},
                  commit : Commit]]

\* The pull request is opened.
GateInit ==
  /\ tip \in Commit /\ pushed = {tip}
  /\ status = [c \in Commit |-> "none"]
  /\ receipts = {} /\ findings = {}
  /\ \E t \in Task :
       task = [u \in Task |-> IF u = t THEN [step |-> "initialize", commit |-> tip] ELSE Idle]

-----------------------------------------------------------------------------
Goto(t, step, commit) == task' = [task EXCEPT ![t] = [step |-> step, commit |-> commit]]
Begins(t, step, commit) == task[t] = Idle /\ Goto(t, step, commit)
Proceeds(t, step) == Goto(t, step, task[t].commit)

Pull == <<tip, pushed>>
Codex == <<receipts, findings>>

\* A status is posted, and the job is over.
Post(t, state) ==
  /\ status' = [status EXCEPT ![task[t].commit] = state]
  /\ task' = [task EXCEPT ![t] = Idle]
  /\ UNCHANGED <<Pull, Codex>>

\* The job initialize posts on the commit of its event.
Synchronized(t) ==
  /\ \E c \in Commit \ {tip} : tip' = c /\ pushed' = pushed \cup {c} /\ Begins(t, "initialize", c)
  /\ UNCHANGED <<status, Codex>>

Reopened(t) == Begins(t, "initialize", tip) /\ UNCHANGED <<Pull, status, Codex>>

Initialize(t) == task[t].step = "initialize" /\ Post(t, "unrequested")

\* The job request, on the commit that is the head when it looks.
Asked(t) == Begins(t, "request", None) /\ UNCHANGED <<Pull, status, Codex>>

ReadHead(t) ==
  /\ task[t].step = "request" /\ Goto(t, "arm", tip)
  /\ UNCHANGED <<Pull, status, Codex>>

Arm(t) == task[t].step = "arm" /\ Post(t, "pending")

\* The job approve, on the commit that the comment names.
Approved(t) ==
  /\ \E c \in pushed : Begins(t, "approve", c)
  /\ UNCHANGED <<Pull, status, Codex>>

IsHead(t) ==
  /\ task[t].step = "approve" /\ task[t].commit = tip
  /\ Proceeds(t, "receipt")
  /\ UNCHANGED <<Pull, status, Codex>>

HasReceipt(t) ==
  /\ task[t].step = "receipt" /\ task[t].commit \in receipts
  /\ Proceeds(t, "review")
  /\ UNCHANGED <<Pull, status, Codex>>

Found(t, surface) == \E f \in findings : f.commit = task[t].commit /\ f.surface = surface

NoFinding_Review(t) ==
  /\ \/ task[t].step = "review" /\ Proceeds(t, "inline")
     \/ task[t].step = "inline" /\ ~Found(t, "inline") /\ Proceeds(t, "attest")
  /\ UNCHANGED <<Pull, status, Codex>>

\* The reviews are read, and then the inline comments.
NoFinding(t) ==
  /\ \/ task[t].step = "review" /\ ~Found(t, "review") /\ Proceeds(t, "inline")
     \/ task[t].step = "inline" /\ ~Found(t, "inline") /\ Proceeds(t, "attest")
  /\ UNCHANGED <<Pull, status, Codex>>

Attest_Head(t) ==
  /\ task[t].step = "attest"
  /\ status' = [status EXCEPT ![tip] = "attested"]
  /\ task' = [task EXCEPT ![t] = Idle]
  /\ UNCHANGED <<Pull, Codex>>

Attest(t) == task[t].step = "attest" /\ Post(t, "attested")

\* The comment is not for this job or not from a maintainer, a check ends it, or a
\* call fails.
Ends(t) ==
  /\ task[t] # Idle /\ task' = [task EXCEPT ![t] = Idle]
  /\ UNCHANGED <<Pull, status, Codex>>

-----------------------------------------------------------------------------
(* Codex answers when it will, with a comment or with what it found.       *)

Approving(c) == \E t \in Task :
  task[t].commit = c /\ task[t].step \in {"approve", "receipt", "review", "inline", "attest"}

CodexAnswers ==
  /\ \E c \in pushed :
       \/ receipts' = receipts \cup {c} /\ UNCHANGED findings
       \/ /\ Cardinality(findings) < MaxFindings
          /\ \E s \in Surface : findings' = findings \cup
               {[commit |-> c, surface |-> s, early |-> ~Approving(c) /\ status[c] # "attested"]}
          /\ UNCHANGED receipts
  /\ UNCHANGED <<Pull, status, task>>

GateNext ==
  \/ \E t \in Task :
       \/ Synchronized(t) \/ Reopened(t) \/ Initialize(t) \/ Asked(t) \/ ReadHead(t) \/ Arm(t)
       \/ Approved(t) \/ IsHead(t) \/ HasReceipt(t) \/ NoFinding(t) \/ Attest(t) \/ Ends(t)
  \/ CodexAnswers

GateSpec == GateInit /\ [][GateNext]_gateVars
-----------------------------------------------------------------------------
\* A commit shows an attested clean review only if Codex said that it reviewed this
\* very commit and had found nothing in it before the approval began: whatever was
\* pushed, and whatever other jobs posted, since the approval looked.
AttestedClean ==
  \A c \in Commit : status[c] = "attested" =>
    c \in receipts /\ \A f \in findings : f.commit = c => ~f.early
=============================================================================
