------------------------ MODULE PrivateDeliveryProofs ------------------------
(***************************************************************************)
(* Proofs about PrivateDelivery, for any vault, any origins and however    *)
(* many documents: a field is only reported delivered when the value of    *)
(* the proper item went into the very document of the reference.           *)
(***************************************************************************)
EXTENDS PrivateDelivery, TLAPS

USE NothingAssumption

-----------------------------------------------------------------------------
(* The invariant.                                                          *)

\* Where the child is while nothing has been entered, and when something has been.
BeforeInsert == {"none", "frame", "field", "again", "focus", "insert", "identity_changed",
                 "origin_changed", "field_mismatch", "field_not_empty", "element_absent",
                 "usage", "reserved"}
AfterInsert == {"after", "delivered", "empty", "superseded"}

ChildInv ==
  /\ child \in BeforeInsert => entered = Nothing
  /\ child \in AfterInsert => entered # Nothing
  /\ entered # Nothing => entered.item = named
  /\ child = "after" => entered.doc <= page.doc
  /\ child = "delivered" => entered.doc = 0

\* When the child runs, and what is known of the item by then.
CommandInv ==
  /\ at \notin {"child", "done"} => child = "none"
  /\ child \in Step => at = "child"
  /\ at = "detail" => named \in Item /\ (edited \/ Matches(named))
  /\ at \in {"spawn", "child"} => named \in Item /\ Proper(named)
  /\ at # "done" => outcome = Nothing

Reported ==
  at = "done" =>
    /\ outcome # Nothing
    /\ outcome = "delivered" => entered # Nothing /\ entered.doc = 0 /\ Proper(entered.item)
    /\ entered # Nothing /\ child # "cut" => outcome \in {"delivered", "acted", "state_unsafe"}
    /\ child \notin Step

DeliveryInv == DeliveryTypeOK /\ ChildInv /\ CommandInv /\ Reported

LEMMA InvImplies == DeliveryInv => DeliveryExact
BY DEF DeliveryInv, CommandInv, Reported, DeliveryExact, CommandOutcome

-----------------------------------------------------------------------------
(* The command.                                                            *)

LEMMA DropsTo ==
  ASSUME NEW answer, Drops(answer), DeliveryTypeOK
  PROVE  at' = "done" /\ kept' \in BOOLEAN /\ outcome' \in {answer, "state_unsafe"}
BY DEF Drops, DeliveryTypeOK

\* The command ends before the child has run.
LEMMA EndsEarly ==
  ASSUME DeliveryInv, at \notin {"child", "done"},
         UNCHANGED <<World, child, entered>>, named' \in Item \cup {Nothing},
         at' = "done", kept' \in BOOLEAN, outcome' \in CommandOutcome, outcome' # "delivered"
  PROVE  DeliveryInv'
<1>1. UNCHANGED <<site, page, items, edited>> /\ child = "none" /\ entered = Nothing
  BY DEF World, DeliveryInv, CommandInv, ChildInv, BeforeInsert
<1>2. DeliveryTypeOK'
  BY <1>1 DEF DeliveryInv, DeliveryTypeOK, CommandOutcome
<1>3. ChildInv' /\ CommandInv'
  BY <1>1 DEF ChildInv, CommandInv, BeforeInsert, AfterInsert, Step
<1>4. Reported'
  BY <1>1 DEF Reported, Step
<1> QED BY <1>2, <1>3, <1>4 DEF DeliveryInv

\* The command goes on before the vault is read.
LEMMA GoesOn ==
  ASSUME DeliveryInv, at \notin {"child", "done"}, NEW step, Proceed(step),
         step \in {"approve", "vault", "wrapper", "list"}, UNCHANGED <<World, named, child, entered>>
  PROVE  DeliveryInv'
<1>1. UNCHANGED <<site, page, items, edited, outcome, kept>> /\ at' = step
  BY DEF World, Proceed
<1> QED BY <1>1 DEF DeliveryInv, DeliveryTypeOK, ChildInv, CommandInv, Reported, Step

LEMMA GateInv ==
  ASSUME DeliveryInv, ReadField \/ Approved \/ VaultConfigured \/ ChainTrusted
  PROVE  DeliveryInv'
<1>1. at \notin {"child", "done"} /\ UNCHANGED <<World, named, child, entered>>
  BY DEF ReadField, Approved, VaultConfigured, ChainTrusted, Gate
<1>2. CASE \E step \in {"approve", "vault", "wrapper", "list"} : Proceed(step)
  BY <1>1, <1>2, GoesOn
<1>3. CASE Unchanged \/ Drops("invalidated")
  <2>1. at' = "done" /\ kept' \in BOOLEAN /\ outcome' \in CommandOutcome /\ outcome' # "delivered"
    BY <1>3, DropsTo DEF Unchanged, DeliveryInv, DeliveryTypeOK, CommandOutcome
  <2>2. named' \in Item \cup {Nothing}
    BY <1>1 DEF DeliveryInv, DeliveryTypeOK
  <2> QED BY <1>1, <2>1, <2>2, EndsEarly
<1> QED BY <1>2, <1>3 DEF ReadField, Approved, VaultConfigured, ChainTrusted, Gate

LEMMA VaultInv ==
  ASSUME DeliveryInv, List \/ Detail
  PROVE  DeliveryInv'
<1>1. /\ at \in {"list", "detail"} /\ UNCHANGED <<World, child, entered>>
      /\ UNCHANGED <<site, page, items, edited>> /\ entered = Nothing /\ child = "none"
  BY DEF List, Detail, World, DeliveryInv, CommandInv, ChildInv, BeforeInsert
<1>2. CASE Unchanged
  <2>1. at' = "done" /\ kept' \in BOOLEAN /\ outcome' \in CommandOutcome /\ outcome' # "delivered"
    BY <1>2 DEF Unchanged, DeliveryInv, DeliveryTypeOK, CommandOutcome
  <2>2. named' \in Item \cup {Nothing}
    BY DEF List, Detail, DeliveryInv, DeliveryTypeOK
  <2> QED BY <1>1, <2>1, <2>2, EndsEarly
<1>3. CASE at = "list" /\ Proceed("detail") /\ \E i \in Item : Matches(i) /\ named' = i
  <2>1. at' = "detail" /\ UNCHANGED <<outcome, kept>> /\ named' \in Item /\ Matches(named')
    BY <1>3 DEF Proceed
  <2>2. Matches(named)'
    BY <1>1, <2>1 DEF Matches, Declares
  <2> QED BY <1>1, <1>3, <2>1, <2>2
       DEF DeliveryInv, DeliveryTypeOK, ChildInv, CommandInv, Reported, Step, BeforeInsert,
       AfterInsert
<1>4. CASE at = "detail" /\ Agrees(named) /\ Proceed("spawn") /\ named' = named
  <2>1. at' = "spawn" /\ UNCHANGED <<outcome, kept>>
    BY <1>4 DEF Proceed
  <2>2. named \in Item /\ Proper(named)
    BY <1>4 DEF DeliveryInv, CommandInv, Agrees, Declares, Matches, Proper
  <2>3. Proper(named)'
    BY <1>1, <1>4, <2>2 DEF Proper
  <2> QED BY <1>1, <1>4, <2>1, <2>2, <2>3
       DEF DeliveryInv, DeliveryTypeOK, ChildInv, CommandInv, Reported, Step, BeforeInsert,
       AfterInsert
<1> QED BY <1>2, <1>3, <1>4 DEF List, Detail

LEMMA SpawnInv == ASSUME DeliveryInv, Spawn PROVE DeliveryInv'
<1>1. /\ at = "spawn" /\ at' = "child" /\ child' \in {"frame"} \cup Refused /\ entered = Nothing
      /\ UNCHANGED <<site, page, items, edited, named, entered, outcome, kept>>
  BY DEF Spawn, Proceed, World, DeliveryInv, CommandInv, ChildInv, BeforeInsert
<1>2. DeliveryTypeOK'
  BY <1>1 DEF DeliveryInv, DeliveryTypeOK, Refused, Step, Answer, Endings
<1>3. ChildInv'
  BY <1>1 DEF ChildInv, Refused, BeforeInsert, AfterInsert
<1>4. CommandInv' /\ Reported'
  BY <1>1 DEF DeliveryInv, CommandInv, Reported, Proper
<1> QED BY <1>2, <1>3, <1>4 DEF DeliveryInv

LEMMA ConcludeInv == ASSUME DeliveryInv, Conclude PROVE DeliveryInv'
<1>1. /\ at = "child" /\ UNCHANGED <<site, page, items, edited, named, child, entered>>
      /\ child \in Answer \cup Endings /\ child \notin Step
  BY DEF Conclude, World, LeftAlone, Answer, Endings, Step
<1>2. at' = "done" /\ kept' \in BOOLEAN /\ outcome' \in CommandOutcome
  BY DropsTo DEF Conclude, Unchanged, DeliveryInv, DeliveryTypeOK, CommandOutcome
<1>3. outcome' = "delivered" => child = "delivered"
  BY DropsTo DEF Conclude, Unchanged, DeliveryInv
<1>4. outcome' \in {"unchanged", "invalidated"} => child = "cut" \/ child \in BeforeInsert
  BY DropsTo DEF Conclude, Unchanged, DeliveryInv, LeftAlone, BeforeInsert
<1>5. DeliveryTypeOK'
  BY <1>1, <1>2 DEF DeliveryInv, DeliveryTypeOK, CommandOutcome
<1>6. ChildInv' /\ CommandInv'
  BY <1>1, <1>2 DEF DeliveryInv, ChildInv, CommandInv
<1>7. Reported'
  <2>1. outcome' # Nothing
    BY <1>2
  <2>2. outcome' = "delivered" => entered # Nothing /\ entered.doc = 0 /\ Proper(entered.item)
    BY <1>1, <1>3 DEF DeliveryInv, ChildInv, CommandInv, AfterInsert
  <2>3. entered # Nothing /\ child # "cut" => outcome' \in {"delivered", "acted", "state_unsafe"}
    BY <1>2, <1>4 DEF DeliveryInv, ChildInv, CommandOutcome
  <2> QED BY <1>1, <2>1, <2>2, <2>3 DEF Reported, Proper
<1> QED BY <1>5, <1>6, <1>7 DEF DeliveryInv

-----------------------------------------------------------------------------
(* The child.                                                              *)

\* The child says something, or goes on, without touching the page.
LEMMA SaysInv ==
  ASSUME DeliveryInv, at = "child", NEW answer \in Step \cup Answer \cup Endings, Says(answer),
         answer \in BeforeInsert => child \in BeforeInsert,
         answer \in AfterInsert => child = "after" /\ answer # "after",
         answer = "delivered" => page.doc = 0
  PROVE  DeliveryInv'
<1>1. child' = answer /\ UNCHANGED <<page, entered, site, items, edited, at, named, outcome, kept>>
  BY DEF Says, Silent
<1>2. DeliveryTypeOK'
  BY <1>1 DEF DeliveryInv, DeliveryTypeOK
<1>3. ChildInv'
  <2>1. answer = "delivered" => entered.doc = 0
    <3> SUFFICES ASSUME answer = "delivered" PROVE entered.doc = 0
      OBVIOUS
    <3>1. child = "after" /\ page.doc = 0
      BY DEF AfterInsert
    <3>2. entered # Nothing /\ entered.doc <= 0
      BY <3>1 DEF DeliveryInv, ChildInv, AfterInsert
    <3>3. entered.doc \in 0..LastDoc
      BY <3>2 DEF DeliveryInv, DeliveryTypeOK, Entry
    <3> QED BY <3>2, <3>3
  <2>2. answer # "after"
    BY DEF AfterInsert
  <2>3. answer \in AfterInsert => entered # Nothing
    BY DEF DeliveryInv, ChildInv, AfterInsert
  <2>4. answer \in BeforeInsert => entered = Nothing
    BY DEF DeliveryInv, ChildInv
  <2> QED BY <1>1, <2>1, <2>2, <2>3, <2>4 DEF DeliveryInv, ChildInv
<1>4. CommandInv' /\ Reported'
  BY <1>1 DEF DeliveryInv, CommandInv, Reported, Proper
<1> QED BY <1>2, <1>3, <1>4 DEF DeliveryInv

LEMMA ChildSaysInv ==
  ASSUME DeliveryInv,
         CheckFrame \/ CheckField \/ CheckAgain \/ CheckAfter \/ Unverified \/ ChildDies \/ Bound
  PROVE  DeliveryInv'
<1>1. at = "child"
  BY DEF CheckFrame, CheckField, CheckAgain, CheckAfter, Unverified, ChildDies, Bound,
         DeliveryInv, CommandInv, Step
<1>2. CASE CheckFrame \/ CheckField \/ CheckAgain
  <2>1. /\ child \in BeforeInsert
        /\ \E answer \in {"origin_changed", "identity_changed", "element_absent", "field_mismatch",
                          "field_not_empty", "field", "again", "focus"} : Says(answer)
    BY <1>2 DEF CheckFrame, CheckField, CheckAgain, Frame, BeforeInsert
  <2>2. PICK answer \in {"origin_changed", "identity_changed", "element_absent", "field_mismatch",
                         "field_not_empty", "field", "again", "focus"} : Says(answer)
    BY <2>1
  <2>3. answer \in Step \cup Answer \cup Endings /\ answer \notin AfterInsert
    BY DEF Step, Answer, AfterInsert
  <2> QED BY <1>1, <2>1, <2>2, <2>3, SaysInv DEF AfterInsert
<1>3. CASE CheckAfter
  <2>1. PICK answer \in {"superseded", "delivered", "empty"} :
          Says(answer) /\ (answer = "delivered" => page.doc = 0)
    BY <1>3 DEF CheckAfter, Exact
  <2>2. child = "after" /\ answer \in Step \cup Answer \cup Endings /\ answer \notin BeforeInsert
        /\ answer # "after"
    BY <1>3 DEF CheckAfter, Answer, BeforeInsert
  <2> QED BY <1>1, <2>1, <2>2, SaysInv
<1>4. CASE Unverified \/ ChildDies \/ Bound
  <2>1. PICK answer \in {"unverified", "silent", "cut"} : Says(answer)
    BY <1>4 DEF Unverified, ChildDies, Bound
  <2>2. answer \in Step \cup Answer \cup Endings /\ answer \notin BeforeInsert \cup AfterInsert
        /\ answer # "delivered"
    BY DEF Answer, Endings, BeforeInsert, AfterInsert
  <2> QED BY <1>1, <2>1, <2>2, SaysInv
<1> QED BY <1>2, <1>3, <1>4

LEMMA FocusInv == ASSUME DeliveryInv, Focus PROVE DeliveryInv'
<1>1. /\ child = "focus" /\ child' = "insert" /\ page' = [page EXCEPT !.focused = TRUE]
      /\ UNCHANGED <<entered, site, items, edited, at, named, outcome, kept>>
  BY DEF Focus, Silent
<1>2. page' \in Page
  BY <1>1 DEF DeliveryInv, DeliveryTypeOK, Page
<1>3. at = "child"
  BY <1>1 DEF DeliveryInv, CommandInv, Step
<1>4. DeliveryTypeOK'
  BY <1>1, <1>2 DEF DeliveryInv, DeliveryTypeOK, Step
<1>5. ChildInv'
  BY <1>1 DEF DeliveryInv, ChildInv, BeforeInsert, AfterInsert
<1>6. CommandInv' /\ Reported'
  BY <1>1, <1>3 DEF DeliveryInv, CommandInv, Reported, Proper
<1> QED BY <1>4, <1>5, <1>6 DEF DeliveryInv

LEMMA InsertInv == ASSUME DeliveryInv, Insert PROVE DeliveryInv'
<1> DEFINE into == page.doc = 0 /\ page.focused
           entry == [doc |-> page.doc, item |-> named, field |-> into]
<1>1. /\ child = "insert" /\ child' \in {"after", "unverified"} /\ entered' = entry
      /\ page' = IF into THEN [page EXCEPT !.holds = TRUE] ELSE page
      /\ UNCHANGED <<site, items, edited, at, named, outcome, kept>>
  BY DEF Insert, Silent
<1>2. at = "child" /\ named \in Item
  BY <1>1 DEF DeliveryInv, CommandInv, Step
<1>3. page \in Page /\ page.doc \in 0..LastDoc
  BY DEF DeliveryInv, DeliveryTypeOK, Page
<1>4. into \in BOOLEAN
  OBVIOUS
<1> HIDE DEF into
<1>5. page' \in Page /\ page'.doc = page.doc
  BY <1>1, <1>3 DEF Page
<1>6. entry \in Entry /\ entry # Nothing /\ entry.doc = page.doc /\ entry.item = named
  BY <1>2, <1>3, <1>4 DEF Entry
<1> HIDE DEF entry
<1>7. DeliveryTypeOK'
  BY <1>1, <1>5, <1>6 DEF DeliveryInv, DeliveryTypeOK, Step, Answer, Entry
<1>8. ChildInv'
  BY <1>1, <1>3, <1>5, <1>6 DEF ChildInv, BeforeInsert, AfterInsert
<1>9. CommandInv' /\ Reported'
  BY <1>1, <1>2 DEF DeliveryInv, CommandInv, Reported, Proper
<1> QED BY <1>7, <1>8, <1>9 DEF DeliveryInv

-----------------------------------------------------------------------------
(* What happens beside the command.                                        *)

LEMMA PageInv ==
  ASSUME DeliveryInv, PageMoves \/ FieldChanges
  PROVE  DeliveryInv'
<1>1. UNCHANGED <<site, at, named, child, entered, outcome, kept, items, edited>>
  BY DEF PageMoves, FieldChanges, Aside
<1>2. page \in Page /\ page.doc \in 0..LastDoc
  BY DEF DeliveryInv, DeliveryTypeOK, Page
<1>3. page' \in Page /\ page.doc <= page'.doc
  <2>1. CASE PageMoves
    BY <1>2, <2>1 DEF PageMoves, Page
  <2>2. CASE FieldChanges
    <3>1. page' \in Page /\ page'.doc = page.doc
      <4>1. page.doc = 0 /\ page.doc \in 0..LastDoc
        BY <1>2, <2>2 DEF FieldChanges
      <4>2. CASE page' = [page EXCEPT !.field = "other"]
        BY <1>2, <4>2 DEF Page
      <4>3. CASE page' = [doc |-> 0, field |-> "gone", holds |-> page.holds,
                          focused |-> FALSE]
        BY <1>2, <4>1, <4>3 DEF Page
      <4>4. CASE page' = [page EXCEPT !.holds = ~page.holds]
        BY <1>2, <4>4 DEF Page
      <4>5. CASE page' = [page EXCEPT !.focused = FALSE]
        BY <1>2, <4>5 DEF Page
      <4> QED BY <2>2, <4>2, <4>3, <4>4, <4>5 DEF FieldChanges
    <3> QED BY <1>2, <3>1
  <2> QED BY <2>1, <2>2
<1>4. child = "after" => entered.doc <= page'.doc
  <2> SUFFICES ASSUME child = "after" PROVE entered.doc <= page'.doc
    OBVIOUS
  <2>1. entered # Nothing /\ entered.doc <= page.doc
    BY DEF DeliveryInv, ChildInv, AfterInsert
  <2>2. entered.doc \in 0..LastDoc /\ page'.doc \in 0..LastDoc
    BY <1>3, <2>1 DEF DeliveryInv, DeliveryTypeOK, Entry, Page
  <2> QED BY <1>2, <1>3, <2>1, <2>2
<1>5. DeliveryTypeOK'
  BY <1>1, <1>3 DEF DeliveryInv, DeliveryTypeOK
<1>6. ChildInv'
  BY <1>1, <1>4 DEF DeliveryInv, ChildInv
<1>7. CommandInv' /\ Reported'
  BY <1>1 DEF DeliveryInv, CommandInv, Reported, Proper, Matches, Declares
<1> QED BY <1>5, <1>6, <1>7 DEF DeliveryInv

LEMMA EditInv == ASSUME DeliveryInv, ItemEdited PROVE DeliveryInv'
<1>1. /\ at = "detail" /\ edited' = TRUE /\ items' \in [Item -> Login]
      /\ UNCHANGED <<page, site, at, named, child, entered, outcome, kept>>
  BY DEF ItemEdited, Aside, DeliveryInv, DeliveryTypeOK
<1>2. DeliveryTypeOK'
  BY <1>1 DEF DeliveryInv, DeliveryTypeOK
<1>3. ChildInv' /\ CommandInv' /\ Reported'
  BY <1>1 DEF DeliveryInv, ChildInv, CommandInv, Reported
<1> QED BY <1>2, <1>3 DEF DeliveryInv

LEMMA DeliveryInductive == DeliveryInv /\ [DeliveryNext]_deliveryVars => DeliveryInv'
<1> SUFFICES ASSUME DeliveryInv, [DeliveryNext]_deliveryVars
             PROVE  DeliveryInv'
  OBVIOUS
<1>1. CASE ReadField \/ Approved \/ VaultConfigured \/ ChainTrusted
  BY <1>1, GateInv
<1>2. CASE List \/ Detail  BY <1>2, VaultInv
<1>3. CASE Spawn           BY <1>3, SpawnInv
<1>4. CASE CheckFrame \/ CheckField \/ CheckAgain \/ CheckAfter \/ Unverified \/ ChildDies \/ Bound
  BY <1>4, ChildSaysInv
<1>5. CASE Focus           BY <1>5, FocusInv
<1>6. CASE Insert          BY <1>6, InsertInv
<1>7. CASE Conclude        BY <1>7, ConcludeInv
<1>8. CASE PageMoves \/ FieldChanges  BY <1>8, PageInv
<1>9. CASE ItemEdited      BY <1>9, EditInv
<1>10. CASE UNCHANGED deliveryVars
  BY <1>10 DEF deliveryVars, DeliveryInv, DeliveryTypeOK, ChildInv, CommandInv, Reported, Proper,
     Matches,
         Declares
<1> QED BY <1>1, <1>2, <1>3, <1>4, <1>5, <1>6, <1>7, <1>8, <1>9, <1>10 DEF DeliveryNext

LEMMA DeliveryInitInv == DeliveryInit => DeliveryInv
<1> SUFFICES ASSUME DeliveryInit PROVE DeliveryInv
  OBVIOUS
<1>1. DeliveryTypeOK
  BY DEF DeliveryInit, DeliveryTypeOK
<1> QED BY <1>1 DEF DeliveryInit, DeliveryInv, ChildInv, CommandInv, Reported, AfterInsert, Step

LEMMA DeliveryInvHolds == DeliverySpec => []DeliveryInv
  BY DeliveryInitInv, DeliveryInductive, PTL DEF DeliverySpec

\* Every variable keeps its type, for any vault and page.
THEOREM DeliveryTypeCorrect == DeliverySpec => []DeliveryTypeOK
<1>1. DeliveryInv => DeliveryTypeOK
  BY DEF DeliveryInv
<1> QED BY <1>1, DeliveryInvHolds, PTL

\* A field is reported delivered only when the value of an item that declares the
\* exact origin went into the very document of the reference, and a value that went
\* anywhere else is reported as an act: for any vault, any origins and any number of
\* documents, whatever the page does between two calls.
THEOREM DeliveryIsExact == DeliverySpec => []DeliveryExact
  BY InvImplies, DeliveryInvHolds, PTL
=============================================================================
