------------------------------ MODULE KitPackage ------------------------------
(***************************************************************************)
(* `bun run package` (scripts/package-adapter.ts): it observes the commit  *)
(* to package and the Agent Plugin Kit that commit pins, provisions a      *)
(* checkout of the Kit, links it, hands the request to one Kit process and *)
(* judges what came of it.  Several invocations may run in one repository, *)
(* each with the checkout under .dev or with one the environment names;    *)
(* none takes a lock.                                                      *)
(*                                                                         *)
(* The Kit is not part of the repository.  What is assumed of it is what   *)
(* the adapter relies on: it admits a source whose HEAD is the requested   *)
(* commit and pins the very checkout it runs from, which must be clean; it *)
(* publishes the archive before the checksums and overwrites neither; and  *)
(* its exit code tells how far it came.  That a checkout has been edited   *)
(* is among the reasons why a step may refuse.                             *)
(***************************************************************************)
CONSTANTS
  Packager,   \* invocations
  Source,     \* commits of this repository
  Kit,        \* commits of the Kit
  None

VARIABLES
  pinned,     \* what the package.json of each commit pins
  head,       \* HEAD of this repository
  checkout,   \* the two checkouts of the Kit
  link,       \* what node_modules/agent-plugin-kit resolves to
  dist,       \* the artifacts of this version that are in dist/
  job         \* what each invocation knows

kitVars == <<pinned, head, checkout, link, dist, job>>

Place == {"provisioned", "explicit"}
Artifact == {"archive", "checksums"}

\* HEAD is None while a clone is under way, and nothing is checked out before the
\* first checkout.
Checkout == [head : Kit \cup {None}, filled : BOOLEAN]

Exit == {"ok", "garbled", "not-admitted", "refused", "continuation", "recovery", "retry",
         "failed", "killed"}
Outcome == {"packaged", "not-admitted", "refused", "partial", "recovery", "retry", "failed",
            "process-guard"}

KitJob == [place : Place \cup {None},     \* None once it is linked: the Kit goes by the link
           at : {"source", "pin", "look", "clone", "cloned", "checkout", "inspect", "verify",
                 "link", "relink", "invoke", "admitted", "told"},
           source : Source \cup {None},
           pin : Kit \cup {None},
           by : Kit \cup {None},          \* the Kit that runs
           published : SUBSET Artifact,   \* what its process has put into dist/
           told : Outcome \cup {None}]

KitTypeOK ==
  /\ pinned \in [Source -> Kit]
  /\ head \in Source
  /\ checkout \in [Place -> Checkout \cup {None}]
  /\ link \in Place \cup {None}
  /\ dist \subseteq Artifact
  /\ job \in [Packager -> KitJob \cup {None}]

KitInit ==
  /\ pinned \in [Source -> Kit]
  /\ head \in Source
  /\ checkout \in [Place -> {None} \cup [head : Kit, filled : {TRUE}]]
  /\ checkout["provisioned"] = None
  /\ link = None
  /\ dist = {}
  /\ job = [r \in Packager |-> None]
-----------------------------------------------------------------------------
Does(r, l) == job[r] # None /\ job[r].at = l
Becomes(r, j) == job' = [job EXCEPT ![r] = j]
Proceeds(r, l) == Becomes(r, [job[r] EXCEPT !.at = l])

\* It throws, which leaves nothing behind but what it has changed so far.
Refuses(r) == Becomes(r, None)

Own(r) == checkout[job[r].place]
Explicit(r) == job[r].place = "explicit"

Invoked(r) ==
  /\ job[r] = None
  /\ \E p \in Place :
       Becomes(r, [place |-> p, at |-> "source", source |-> None, pin |-> None, by |-> None,
                   published |-> {}, told |-> None])
  /\ UNCHANGED <<pinned, head, checkout, link, dist>>

\* A SOURCE_COMMIT or GITHUB_SHA that is not HEAD is refused.
ResolveSource(r) ==
  /\ Does(r, "source")
  /\ Refuses(r) \/ Becomes(r, [job[r] EXCEPT !.source = head, !.at = "pin"])
  /\ UNCHANGED <<pinned, head, checkout, link, dist>>

\* The pin is that of HEAD by now, which package.json must agree with.  One
\* that disagrees, or that is not canonical, is refused.
ReadPin(r) ==
  /\ Does(r, "pin")
  /\ \/ Refuses(r)
     \/ Becomes(r, [job[r] EXCEPT !.pin = pinned[head], !.at = "look"])
  /\ UNCHANGED <<pinned, head, checkout, link, dist>>

LookForCheckout(r) ==
  /\ Does(r, "look")
  /\ CASE Own(r) # None -> Proceeds(r, "inspect")
       [] Own(r) = None /\ Explicit(r) -> Refuses(r)
       [] OTHER -> Proceeds(r, "clone")
  /\ UNCHANGED <<pinned, head, checkout, link, dist>>

\* Git refuses to clone into a directory that is there by now.  Whatever a clone that
\* fails finds under its name is removed, be it another invocation's.
StartClone(r) ==
  /\ Does(r, "clone")
  /\ \/ /\ Own(r) = None
        /\ checkout' = [checkout EXCEPT ![job[r].place] = [head |-> None, filled |-> FALSE]]
        /\ Proceeds(r, "cloned")
     \/ checkout' = [checkout EXCEPT ![job[r].place] = None] /\ Refuses(r)
  /\ UNCHANGED <<pinned, head, link, dist>>

FinishClone(r) ==
  /\ Does(r, "cloned")
  /\ \/ /\ Own(r) # None
        /\ \E k \in Kit : checkout' = [checkout EXCEPT ![job[r].place].head = k]
        /\ Proceeds(r, "checkout")
     \/ checkout' = [checkout EXCEPT ![job[r].place] = None] /\ Refuses(r)
  /\ UNCHANGED <<pinned, head, link, dist>>

\* checkoutCommit: edits may stand in its way.
CheckoutCommit(r) ==
  /\ Does(r, "checkout")
  /\ \/ /\ Own(r) # None /\ Own(r).head # None
        /\ checkout' = [checkout EXCEPT ![job[r].place] = [head |-> job[r].pin, filled |-> TRUE]]
        /\ Proceeds(r, "inspect")
     \/ Refuses(r) /\ UNCHANGED checkout
  /\ UNCHANGED <<pinned, head, link, dist>>

\* A checkout the environment names is never moved.
Inspects(r) ==
  IF Own(r).head = job[r].pin THEN Proceeds(r, "verify")
  ELSE IF Explicit(r) THEN Refuses(r)
  ELSE Proceeds(r, "checkout")

InspectCheckout(r) ==
  /\ Does(r, "inspect")
  /\ IF Own(r) = None THEN Refuses(r)
     ELSE IF Own(r).head = None THEN Refuses(r)
     ELSE Inspects(r)
  /\ UNCHANGED <<pinned, head, checkout, link, dist>>

\* The frozen install, then the tree, which may have been edited, and the manifest at
\* HEAD.  A checkout that was killed before its tree was written is refused here, and
\* stays as it is.
VerifyCheckout(r) ==
  /\ Does(r, "verify")
  /\ \/ Refuses(r)
     \/ /\ Own(r) # None /\ Own(r).filled
        /\ Becomes(r, [job[r] EXCEPT !.pin = None, !.at = "link"])
  /\ UNCHANGED <<pinned, head, checkout, link, dist>>

Links(r) == Becomes(r, [job[r] EXCEPT !.place = None, !.at = "invoke"])

\* A link to elsewhere is removed, and another invocation may put its own there.
ReadLink(r) ==
  /\ Does(r, "link")
  /\ IF link = job[r].place THEN Links(r) /\ UNCHANGED link
     ELSE Proceeds(r, "relink") /\ link' = None
  /\ UNCHANGED <<pinned, head, checkout, dist>>

MakeLink(r) ==
  /\ Does(r, "relink")
  /\ IF link = None THEN link' = job[r].place /\ Links(r)
     ELSE Refuses(r) /\ UNCHANGED link
  /\ UNCHANGED <<pinned, head, checkout, dist>>
-----------------------------------------------------------------------------
(* The Kit process, and what is made of its exit.                          *)

\* classifySuccess: an exit code of 0 is a success only with a complete envelope.
ClassifySuccess_Code(e) == "packaged"
ClassifySuccess(e) == IF e = "ok" THEN "packaged" ELSE "failed"

OutcomeKind_Code20(e) ==
  CASE e \in {"not-admitted", "refused", "retry"} -> e
    [] e \in {"continuation", "recovery"} -> "partial"
    [] OTHER -> "failed"
OutcomeKind(e) ==
  CASE e \in {"not-admitted", "refused", "retry", "recovery"} -> e
    [] e = "continuation" -> "partial"
    [] OTHER -> "failed"

\* classifyKitOutcome.
ClassifyKitOutcome(e) ==
  CASE e = "killed" -> "process-guard"
    [] e \in {"ok", "garbled"} -> ClassifySuccess(e)
    [] OTHER -> OutcomeKind(e)

\* Only a success tells of a source and of a Kit.
Told(r, e) ==
  LET told == ClassifyKitOutcome(e)
      Tells(fact) == IF told = "packaged" THEN fact ELSE None
  IN [job[r] EXCEPT !.told = told, !.at = "told", !.source = Tells(@), !.by = Tells(@)]

\* Source Checkout Admission, at what the link resolves to.
Admits(r) ==
  /\ head = job[r].source
  /\ link # None /\ checkout[link] # None
  /\ checkout[link] = [head |-> pinned[head], filled |-> TRUE]

StartKit(r) ==
  /\ Does(r, "invoke")
  /\ \/ Becomes(r, Told(r, IF link = None THEN "failed" ELSE "not-admitted"))
     \/ /\ Admits(r)
        /\ Becomes(r, IF dist # {} THEN Told(r, "refused")
                      ELSE [job[r] EXCEPT !.by = checkout[link].head, !.at = "admitted"])
  /\ UNCHANGED <<pinned, head, checkout, link, dist>>

Publish(r) ==
  /\ Does(r, "admitted")
  /\ \E a \in Artifact :
       /\ a = "checksums" <=> "archive" \in job[r].published
       /\ a \notin dist \cup job[r].published
       /\ dist' = dist \cup {a}
       /\ Becomes(r, [job[r] EXCEPT !.published = @ \cup {a}])
  /\ UNCHANGED <<pinned, head, checkout, link>>

\* What it may exit with by what it has published; the guard kills it at any moment.
Exiting(r) ==
  {"garbled", "failed", "killed", "recovery"} \cup
  CASE job[r].published = {} -> {"refused", "retry"}
    [] job[r].published = {"archive"} -> {"continuation"}
    [] job[r].published = Artifact -> {"ok"}

ExitKit(r) ==
  /\ Does(r, "admitted")
  /\ \E e \in Exiting(r) : Becomes(r, Told(r, e))
  /\ UNCHANGED <<pinned, head, checkout, link, dist>>
\* An invocation is killed anywhere; another may follow one that is over.
Vanishes(r) ==
  /\ job[r] # None
  /\ job' = [job EXCEPT ![r] = None]
  /\ UNCHANGED <<pinned, head, checkout, link, dist>>

\* People commit, move the checkout they name, and clear dist/.
PeopleChange ==
  /\ \/ head' \in Source \ {head} /\ UNCHANGED <<checkout, dist>>
     \/ /\ checkout["explicit"] # None
        /\ \E k \in Kit : checkout' = [checkout EXCEPT !["explicit"].head = k]
        /\ UNCHANGED <<head, dist>>
     \/ dist # {} /\ dist' = {} /\ UNCHANGED <<head, checkout>>
  /\ UNCHANGED <<pinned, link, job>>

KitNext ==
  \/ \E r \in Packager :
       \/ Invoked(r) \/ ResolveSource(r) \/ ReadPin(r) \/ LookForCheckout(r)
       \/ StartClone(r) \/ FinishClone(r) \/ CheckoutCommit(r) \/ InspectCheckout(r)
       \/ VerifyCheckout(r) \/ ReadLink(r) \/ MakeLink(r) \/ StartKit(r) \/ Publish(r)
       \/ ExitKit(r) \/ Vanishes(r)
  \/ PeopleChange

KitSpec == KitInit /\ [][KitNext]_kitVars
-----------------------------------------------------------------------------
\* What an invocation tells is true of its own Kit process: `packaged` of two
\* artifacts that were made from the commit it observed by the Kit that commit pins;
\* `partial` of an archive without checksums; and where it says that the Kit refused
\* or may simply be run again, nothing was published.  The checkouts, the link and
\* HEAD may change under it, by people or another invocation, at any of its steps.
PackagedExact ==
  \A r \in Packager :
    Does(r, "told") =>
      LET j == job[r]
      IN /\ j.told = "packaged" => j.published = Artifact /\ j.by = pinned[j.source]
         /\ j.told = "partial" => j.published = {"archive"}
         /\ j.told \in {"not-admitted", "refused", "retry"} => j.published = {}
=============================================================================
