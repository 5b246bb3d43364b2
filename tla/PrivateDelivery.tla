--------------------------- MODULE PrivateDelivery ---------------------------
(***************************************************************************)
(* One `login` of Agent Browser: Warm Browser proves the field, Private    *)
(* Delivery finds the one Login item that declares the page's origin, and  *)
(* a disposable child, started through the credential wrapper, enters the  *)
(* value.  The page lives beside all of them: it may navigate, change the  *)
(* field or move the focus between any two calls, and the items of the     *)
(* vault may be edited between the two readings of it.                     *)
(*                                                                         *)
(* A document is a number that never comes again (its loader); the         *)
(* reference names the one field of document 0.                            *)
(***************************************************************************)
EXTENDS Naturals, FiniteSets

CONSTANTS
  Nothing,  \* not there
  Origin,   \* the origins a document can be served from
  Item,     \* the Login items of the vault
  LastDoc   \* the bound on the documents shown after the referenced one

VARIABLES
  site,     \* the origin each document is served from
  page,     \* what the Controlled Page shows
  items,    \* the Login items
  edited,   \* an item was edited
  at,       \* the next step of the command
  named,    \* the item the listing matched and then the reference names, or Nothing
  child,    \* the next step of the child, what it answered, or how it ended
  entered,  \* where the value went, or Nothing
  outcome,  \* what the command reported, or Nothing
  kept      \* the receipt still holds the Snapshot Generation

deliveryVars == <<site, page, items, edited, at, named, child, entered, outcome, kept>>

\* The field the reference names: of the kind asked for, of another, removed.
Page == [doc : 0..LastDoc, field : {"wanted", "other", "gone"},
         holds : BOOLEAN, focused : BOOLEAN]

\* home: it belongs to the configured vault.  fields: how many of the kind asked
\* for it carries.
Login == [home : BOOLEAN, origins : SUBSET Origin, fields : 0..2]

\* The steps of the child, its answers, and how it ends without one: silent, by a
\* reserved exit of the wrapper, or stopped at one of the wrapper's bounds.
Step == {"frame", "field", "again", "focus", "insert", "after"}
Answer == {"delivered", "empty", "superseded", "identity_changed", "origin_changed",
           "field_mismatch", "field_not_empty", "element_absent", "unverified", "usage"}
Endings == {"silent", "reserved", "cut"}

\* Where a value went, and what the command can report.
Entry == [doc : 0..LastDoc, item : Item, field : BOOLEAN]
CommandOutcome == {"delivered", "unchanged", "invalidated", "acted", "state_unsafe"}

ASSUME NothingAssumption ==
  LastDoc \in Nat /\ Nothing \notin Item \cup Entry \cup CommandOutcome

DeliveryTypeOK ==
  /\ site \in [0..LastDoc -> Origin]
  /\ page \in Page
  /\ items \in [Item -> Login]
  /\ edited \in BOOLEAN /\ kept \in BOOLEAN
  /\ at \in {"read", "approve", "vault", "wrapper", "list", "detail", "spawn", "child", "done"}
  /\ named \in Item \cup {Nothing}
  /\ child \in {"none"} \cup Step \cup Answer \cup Endings
  /\ entered \in Entry \cup {Nothing}
  /\ outcome \in CommandOutcome \cup {Nothing}

DeliveryInit ==
  /\ site \in [0..LastDoc -> Origin]
  /\ page \in {p \in Page : p.doc = 0 /\ ~p.focused}
  /\ items \in [Item -> Login]
  /\ edited = FALSE /\ kept = TRUE
  /\ at = "read" /\ named = Nothing
  /\ child = "none" /\ entered = Nothing /\ outcome = Nothing

-----------------------------------------------------------------------------
(* What the command reports, and what becomes of the references.           *)

Proceed(step) == at' = step /\ UNCHANGED <<outcome, kept>>

\* A refusal that left the page alone keeps every reference.
Unchanged == at' = "done" /\ outcome' = "unchanged" /\ UNCHANGED kept

\* invalidateReferences: the receipt is written before the answer is given.
Drops(answer) ==
  /\ at' = "done"
  /\ \/ kept' = FALSE /\ outcome' = answer
     \/ kept' = kept /\ outcome' = "state_unsafe"

-----------------------------------------------------------------------------
(* The command proves everything that is not secret before the vault.      *)

World == <<site, page, items, edited>>

\* readControlledPageField, between two readings of what the page is.
FieldReading ==
  IF page.doc # 0 THEN "identity_changed"
  ELSE IF page.field = "gone" THEN "element_absent" ELSE "read"

\* It may also be unverified, framed, or on an origin that is not supported.
ReadField ==
  /\ at = "read"
  /\ \/ FieldReading = "identity_changed" /\ Drops("invalidated")
     \/ FieldReading = "read" /\ page.field = "wanted" /\ ~page.holds /\ Proceed("approve")
     \/ FieldReading # "identity_changed" /\ Unchanged
  /\ UNCHANGED <<World, named, child, entered>>

\* A gate that reads nothing of the page lets the command through, or it ends.
Gate(now, then) ==
  /\ at = now
  /\ Proceed(then) \/ Unchanged
  /\ UNCHANGED <<World, named, child, entered>>

Approved == Gate("approve", "vault")
VaultConfigured == Gate("vault", "wrapper")
ChainTrusted == Gate("wrapper", "list")

Declares(i) == site[0] \in items[i].origins

Matches(i) == Declares(i) /\ \A j \in Item : Declares(j) => j = i

\* The one listing: an item of another vault refuses all of it.
List ==
  /\ at = "list"
  /\ \/ /\ \A i \in Item : items[i].home
        /\ \E i \in Item : Matches(i) /\ named' = i
        /\ Proceed("detail")
     \/ UNCHANGED named /\ Unchanged \* refused, or not read
  /\ UNCHANGED <<World, child, entered>>

\* The detail of the matched item must agree with the listing.
Agrees_Named(i) == items[i].home /\ items[i].fields = 1
Agrees(i) == items[i].home /\ Declares(i) /\ items[i].fields = 1

Detail ==
  /\ at = "detail"
  /\ (Agrees(named) /\ Proceed("spawn")) \/ Unchanged
  /\ UNCHANGED <<World, named, child, entered>>

-----------------------------------------------------------------------------
(* The wrapper resolves the reference and starts the child, which speaks   *)
(* to the page one call at a time.                                         *)

\* How it may end before the child speaks to the page: the wrapper refuses, or the
\* child its arguments, the value or the connection.
Refused == {"reserved", "usage", "field_mismatch", "unverified"}

Spawn ==
  /\ at = "spawn"
  /\ Proceed("child")
  /\ child' \in {"frame"} \cup Refused
  /\ UNCHANGED <<World, named, entered>>

Silent == UNCHANGED <<site, items, edited, at, named, outcome, kept>>
Says(answer) == child' = answer /\ UNCHANGED <<page, entered>> /\ Silent

\* checkFrame: the origin is asked first.
Frame(next) ==
  \/ site[page.doc] # site[0] /\ Says("origin_changed")
  \/ site[page.doc] = site[0] /\ page.doc # 0 /\ Says("identity_changed")
  \/ page.doc = 0 /\ Says(next)

CheckFrame == child = "frame" /\ Frame("field")

\* The node of document 0 is described by no other document.
CheckField ==
  /\ child = "field"
  /\ \/ (page.doc # 0 \/ page.field = "gone") /\ Says("element_absent")
     \/ page.doc = 0 /\ page.field = "other" /\ Says("field_mismatch")
     \/ page.doc = 0 /\ page.field = "wanted" /\ page.holds /\ Says("field_not_empty")
     \/ page.doc = 0 /\ page.field = "wanted" /\ ~page.holds /\ Says("again")

CheckAgain == child = "again" /\ Frame("focus")

\* Focus is asked for and read back.
Focus ==
  /\ child = "focus" /\ page.doc = 0 /\ page.field # "gone"
  /\ page' = [page EXCEPT !.focused = TRUE]
  /\ child' = "insert"
  /\ UNCHANGED entered /\ Silent

\* The text goes wherever the focus is by now.
Insert ==
  /\ child = "insert"
  /\ LET into == page.doc = 0 /\ page.focused IN
       /\ entered' = [doc |-> page.doc, item |-> named, field |-> into]
       /\ page' = IF into THEN [page EXCEPT !.holds = TRUE] ELSE page
  /\ child' \in {"after", "unverified"}
  /\ Silent

\* isExactDocument: the origin is not asked any more.
Exact == page.doc = 0

CheckAfter ==
  /\ child = "after"
  /\ \/ ~Exact /\ Says("superseded")
     \/ Exact /\ page.field # "gone" /\ Says(IF page.holds THEN "delivered" ELSE "empty")

\* A call that fails at any step.
Unverified == child \in Step /\ Says("unverified")

\* The child dies without a word.
ChildDies == child \in Step /\ Says("silent")

\* The wrapper's bound on time or output: the whole process group is killed, and
\* the close of its output awaited.
Bound == at = "child" /\ child \in Step \cup Answer /\ Says("cut")

-----------------------------------------------------------------------------
\* interpretDelivery and refuseLoginDelivery.
LeftAlone_Superseded ==
  {"cut", "reserved", "usage", "field_mismatch", "field_not_empty", "element_absent", "empty"}
LeftAlone ==
  {"cut", "reserved", "usage", "field_mismatch", "field_not_empty", "element_absent"}

Conclude ==
  /\ at = "child"
  /\ \/ child = "delivered" /\ Drops("delivered")
     \/ child \in {"identity_changed", "origin_changed"} /\ Drops("invalidated")
     \/ child \in LeftAlone /\ Unchanged
     \/ /\ child \in Answer \cup Endings
        /\ child \notin LeftAlone \cup {"delivered", "identity_changed", "origin_changed"}
        /\ Drops("acted")
  /\ UNCHANGED <<World, named, child, entered>>

-----------------------------------------------------------------------------
(* What happens beside the command.                                        *)

Aside == UNCHANGED <<site, at, named, child, entered, outcome, kept>>

\* The page navigates: another document has another node in the field's place.
PageMoves ==
  /\ page.doc < LastDoc
  /\ page' = [doc |-> page.doc + 1, field |-> "gone", holds |-> FALSE, focused |-> FALSE]
  /\ UNCHANGED <<items, edited>> /\ Aside

\* Scripts and people change the field and the focus.
FieldChanges ==
  /\ page.doc = 0 /\ page.field # "gone"
  /\ page' \in {[page EXCEPT !.field = "other"],
                [doc |-> 0, field |-> "gone", holds |-> page.holds, focused |-> FALSE],
                [page EXCEPT !.holds = ~page.holds], [page EXCEPT !.focused = FALSE]}
  /\ UNCHANGED <<items, edited>> /\ Aside

\* An item is edited between the two readings of the vault.  (What is edited later
\* nobody notices: the wrapper resolves the reference by item and field.)
ItemEdited ==
  /\ ~edited /\ at = "detail"
  /\ \E i \in Item, l \in Login : items' = [items EXCEPT ![i] = l]
  /\ edited' = TRUE
  /\ UNCHANGED page /\ Aside

DeliveryNext ==
  \/ ReadField \/ Approved \/ VaultConfigured \/ ChainTrusted \/ List \/ Detail \/ Spawn
  \/ CheckFrame \/ CheckField \/ CheckAgain \/ Focus \/ Insert \/ CheckAfter
  \/ Unverified \/ ChildDies \/ Bound \/ Conclude
  \/ PageMoves \/ FieldChanges \/ ItemEdited

DeliverySpec == DeliveryInit /\ [][DeliveryNext]_deliveryVars
-----------------------------------------------------------------------------
(* Properties.                                                             *)

\* An item of the configured vault that declares the exact origin, with one field
\* of the kind asked for; the only one to declare it, unless an item was edited
\* since the listing.
Proper(i) ==
  /\ items[i].home /\ site[0] \in items[i].origins /\ items[i].fields = 1
  /\ edited \/ \A j \in Item \ {i} : site[0] \notin items[j].origins

\* A field is reported delivered only when the value of such an item entered the
\* very document of the reference: whatever the page and the vault did in between.
\* A value that went anywhere else is reported as an act on the page that was not
\* proved, and the references are dropped (or the receipt could not be written,
\* and that is what is reported).
DeliveryExact ==
  /\ outcome = "delivered" => entered # Nothing /\ entered.doc = 0 /\ Proper(entered.item)
  /\ entered # Nothing /\ outcome # Nothing /\ child # "cut" =>
       outcome \in {"delivered", "acted", "state_unsafe"}

\* "Unknown is never reported as unchanged" (warm-browser.ts): the page is
\* reported as left alone only if nothing was entered into it.
UnchangedHonest == outcome = "unchanged" => entered = Nothing
=============================================================================
