------------------------------ MODULE WarmPage ------------------------------
(***************************************************************************)
(* The page commands of Warm Browser: open, snapshot, screenshot, click,   *)
(* fill and login act on the one page of a running session.  They work     *)
(* from the receipt they loaded and write the whole of it back, without    *)
(* taking the session's lock, beside each other and beside start and stop. *)
(*                                                                         *)
(* A document has an identity of its own (its loader), so a page is the    *)
(* target that shows it and the number of the document shown.  A Snapshot  *)
(* Generation is named by the invocation that took it.  click stands for   *)
(* fill as well; login delivers through Private Delivery, which proves the *)
(* page the same way.                                                      *)
(***************************************************************************)
EXTENDS WarmSession

CONSTANT MaxDoc  \* the bound on the documents a browser shows

ASSUME DocAssumption == MaxDoc \in Nat

VARIABLES
  doc,    \* the document each browser shows
  issued, \* the page each published generation was taken of, or None
  seen,   \* the page a reading found before it began
  ref,    \* the generation of the reference each act was given
  hit     \* the page that was showing when an act's input was dispatched

pageVars == <<doc, issued, seen, ref, hit>>
vars == <<sessionVars, pageVars>>

PageInit ==
  /\ Init
  /\ doc = [s \in Cmd |-> 0]
  /\ issued = [g \in Cmd |-> None]
  /\ seen = [p \in Cmd |-> None]
  /\ ref = [p \in Cmd |-> None]
  /\ hit = [p \in Cmd |-> None]

Shown(s) == [tab |-> tab[s], doc |-> doc[s]]

\* The CDP conversation addresses the target the loaded receipt names.
Reachable(p) == Live(view[p].id) /\ tab[view[p].id] = view[p].tab

\* readBasis: the page is still the one the generation was taken of.
SamePage(p) == Reachable(p) /\ Shown(view[p].id) = view[p].snap.page
Moved(p) == Reachable(p) /\ Shown(view[p].id) # view[p].snap.page

\* A navigation shows a document nobody has seen before.
Navigates(s) == doc[s] < MaxDoc /\ doc' = [doc EXCEPT ![s] = @ + 1]

\* invalidateReferences: a receipt that holds no generation is not written.
Invalidate(p) ==
  IF view[p].snap = None THEN UNCHANGED stateDir
  ELSE Write(WithoutSnapshot(view[p])) \/ WriteFails

Untouched == UNCHANGED <<browser, tab, aged>>

-----------------------------------------------------------------------------
(* open: every reference is dropped before the navigation is asked for.    *)
Open(p) ==
  /\ pc[p] = "page" /\ kind[p] \in {"open", "adopt"}
  /\ \/ view[p].snap = None /\ UNCHANGED stateDir /\ Goto(p, "navigate")
     \/ view[p].snap # None /\ Write(WithoutSnapshot(view[p])) /\ Goto(p, "navigate")
     \/ view[p].snap # None /\ WriteFails /\ End(p)
  /\ Untouched /\ UNCHANGED pageVars

\* openControlledPage: the page navigates, or it refuses, shows a document that
\* was not asked for or cannot be seen.  No answer changes the receipt.
OpenControlledPage(p) == (Reachable(p) /\ Navigates(view[p].id)) \/ UNCHANGED doc

Navigate(p) ==
  /\ pc[p] = "navigate"
  /\ OpenControlledPage(p) /\ End(p)
  /\ Untouched /\ UNCHANGED <<stateDir, issued, seen, ref, hit>>

(* snapshot, screenshot: the page is read between two looks at what it is. *)
Read(p) ==
  /\ pc[p] = "page" /\ kind[p] \in {"snapshot", "screenshot"}
  /\ \/ /\ Reachable(p)
        /\ seen' = [seen EXCEPT ![p] = Shown(view[p].id)]
        /\ Goto(p, "read")
     \/ UNCHANGED seen /\ End(p)
  /\ Untouched /\ UNCHANGED <<stateDir, doc, issued, ref, hit>>

\* A screenshot that was captured writes no receipt at all.
KeepReceipt_WrittenBack(p) ==
  IF kind[p] = "snapshot" THEN UNCHANGED stateDir ELSE Write(view[p])
KeepReceipt(p) == UNCHANGED stateDir

\* readControlledPageSnapshot, captureControlledPage: what a reading comes to.
\* Any call of the conversation may fail, or its answer prove nothing.
Reading(p) ==
  {"unverified"} \cup
    IF ~Reachable(p) THEN {}
    ELSE IF Shown(view[p].id) = seen[p] THEN {"observed"} ELSE {"identity_changed"}

FinishRead(p) ==
  /\ pc[p] = "read"
  /\ \/ /\ "observed" \in Reading(p)
        /\ IF kind[p] = "snapshot" THEN Goto(p, "store") ELSE End(p)
        /\ KeepReceipt(p)
     \/ "identity_changed" \in Reading(p) /\ Invalidate(p) /\ End(p)
     \/ "unverified" \in Reading(p) /\ UNCHANGED stateDir /\ End(p)
  /\ Untouched /\ UNCHANGED pageVars

Store(p) ==
  /\ pc[p] = "store"
  /\ \/ /\ Write([view[p] EXCEPT !.snap = [gen |-> p, page |-> seen[p]]])
        /\ issued' = [issued EXCEPT ![p] = seen[p]]
     \/ WriteFails /\ UNCHANGED issued
  /\ End(p)
  /\ Untouched /\ UNCHANGED <<doc, seen, ref, hit>>

(* click, fill, login.                                                     *)

\* resolveSnapshotReference: the generation the reference names is the one the
\* loaded receipt holds, of the page target it names.  One that is too old, or
\* names a field that the command may not fill, is refused as well.
Resolves(p, g) ==
  view[p].snap # None /\ view[p].snap.gen = g /\ view[p].snap.page.tab = view[p].tab

Resolve(p) ==
  /\ pc[p] = "page" /\ kind[p] \in {"click", "login"}
  /\ \E g \in Cmd :
       /\ issued[g] # None
       /\ ref' = [ref EXCEPT ![p] = g]
       /\ (Resolves(p, g) /\ Goto(p, "aim")) \/ End(p)
  /\ Untouched /\ UNCHANGED <<stateDir, doc, issued, seen, hit>>

\* The conversation stops without an answer: a click takes its references for
\* dead, even if nothing reached the page; a login keeps them.
Unverified(p) == (IF kind[p] = "click" THEN Invalidate(p) ELSE UNCHANGED stateDir) /\ End(p)

\* The first proof of the page; the element and the field are read after it.
Aim(p) ==
  /\ pc[p] = "aim"
  /\ \/ SamePage(p) /\ UNCHANGED stateDir /\ (Goto(p, "dispatch") \/ End(p))
     \/ Moved(p) /\ Invalidate(p) /\ End(p)
     \/ Unverified(p)
  /\ Untouched /\ UNCHANGED pageVars

\* The second proof, the readings of the node itself, and the input, which may
\* make the page navigate.  A node that cannot be acted on is refused.
DispatchAdmits_Unproved(p) == Reachable(p)
DispatchAdmits(p) == SamePage(p)

Dispatch(p) ==
  /\ pc[p] = "dispatch"
  /\ \/ /\ DispatchAdmits(p)
        /\ hit' = [hit EXCEPT ![p] = Shown(view[p].id)]
        /\ Navigates(view[p].id) \/ UNCHANGED doc
        /\ Goto(p, "after")
        /\ UNCHANGED stateDir
     \/ ~SamePage(p) /\ Invalidate(p) /\ End(p) /\ UNCHANGED <<doc, hit>>
     \/ End(p) /\ UNCHANGED <<stateDir, doc, hit>>
     \/ Unverified(p) /\ UNCHANGED <<doc, hit>>
  /\ Untouched /\ UNCHANGED <<issued, seen, ref>>

\* An act that moved the page, or cannot be seen not to have, drops every
\* reference; a delivered credential always does.
After(p) ==
  /\ pc[p] = "after"
  /\ (kind[p] = "click" /\ SamePage(p) /\ UNCHANGED stateDir) \/ Invalidate(p)
  /\ End(p)
  /\ Untouched /\ UNCHANGED pageVars

PageStep(p) == Open(p) \/ Navigate(p) \/ Read(p) \/ FinishRead(p) \/ Store(p)
                 \/ Resolve(p) \/ Aim(p) \/ Dispatch(p) \/ After(p)

\* The page navigates of its own accord.
Wander(s) ==
  /\ Live(s) /\ Navigates(s)
  /\ UNCHANGED <<sessionVars, issued, seen, ref, hit>>

Next ==
  \/ SessionNext /\ UNCHANGED pageVars
  \/ \E p \in Cmd : PageStep(p)
  \/ \E s \in Cmd : Wander(s)

Spec == PageInit /\ [][Next]_vars
-----------------------------------------------------------------------------
(* Properties.                                                             *)

\* "A reference that outlived the page it described is refused rather than
\* followed" (README of the module): whatever other commands did in between,
\* input reaches the document its reference was issued for, or nothing.
HitsIssuedPage == \A p \in Cmd : hit[p] # None => hit[p] = issued[ref[p]]

\* "There is no list of dead references to consult later": a generation that
\* was dropped is in no receipt ever again, although every command writes back
\* the whole of a receipt it read earlier.
Holds(g) == receipt # None /\ receipt.snap # None /\ receipt.snap.gen = g
NoReturn == [][\A g \in Cmd : Holds(g)' /\ ~Holds(g) => issued[g] = None]_vars

\* Once every command has answered, each browser that lives has its receipt.
AccountedAtRest == (\A p \in Cmd : ~Active(p)) => Accounted
=============================================================================
