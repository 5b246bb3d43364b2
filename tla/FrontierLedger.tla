--------------------------- MODULE FrontierLedger ---------------------------
(***************************************************************************)
(* What the receipt of a bounded run promises its operator, whatever       *)
(* commands die on the way: the run is proved, then judged once, and the   *)
(* verdict licenses one act - a decision on an approved candidate, or a    *)
(* repair of one that needs changes - before the run is closed for good.   *)
(***************************************************************************)
CONSTANTS None, Verdict

VARIABLES
  stage,   \* how far the run has come
  verdict  \* the verdict of the review, or None

ledger == <<stage, verdict>>

LedgerInit == stage = "open" /\ verdict = None

Prove == stage = "open" /\ stage' = "proved" /\ UNCHANGED verdict

\* A run in the course of being cleaned may be resumed, and found unproved.
Doubt == stage = "proved" /\ stage' = "open" /\ UNCHANGED verdict

Judge ==
  /\ stage = "proved"
  /\ stage' = "reviewed"
  /\ verdict' \in Verdict

Decide == stage = "reviewed" /\ verdict = "approve"
            /\ stage' = "decided" /\ UNCHANGED verdict

Repair == stage = "reviewed" /\ verdict = "request_changes"
            /\ stage' = "repaired" /\ UNCHANGED verdict

Close == stage # "closed" /\ stage' = "closed" /\ UNCHANGED verdict

LedgerNext == Prove \/ Doubt \/ Judge \/ Decide \/ Repair \/ Close

LedgerSpec == LedgerInit /\ [][LedgerNext]_ledger
=============================================================================
