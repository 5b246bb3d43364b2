----------------------------- MODULE PluginBuild -----------------------------
(***************************************************************************)
(* `bun run build` (scripts/build.ts) and the receipt by which a later     *)
(* session judges the payload (scripts/build-receipt.ts).  The bundles are *)
(* made in private staging; they, the notices, the inventory and its shell *)
(* projection are then written into plugin/ one file at a time, and nothing*)
(* undoes what a build that fails or is killed has written.                *)
(*                                                                         *)
(* A bundle's name holds the digest of its contents, so a file is named by *)
(* its skill and the generation of the sources it was made from.  One      *)
(* build runs at a time, and nobody touches the payload between the        *)
(* validation of a build and its receipt.                                  *)
(***************************************************************************)
CONSTANTS
  Skill,
  Generation, \* what a workspace's sources may hold
  None,       \* not there
  Torn        \* a file cut short

VARIABLES
  source,     \* the sources, workspace by workspace
  payload,    \* what plugin/ holds
  receipt,    \* the build receipt, or None
  at,         \* the next step of the build
  made,       \* the artifacts in staging
  left        \* the artifacts yet to be written

buildVars == <<source, payload, receipt, at, made, left>>

Sources == [Skill -> Generation]
File == {"none", "whole", Torn}

\* What inventory, projection and notices were rendered from, torn, or not there.
Rendered == Sources \cup {Torn, None}
PluginPayload == [bundles : [Skill -> [Generation -> File]],
                  notices : Rendered, inventory : Rendered, projection : Rendered]
Receipt == [succeeded : BOOLEAN, digest : PluginPayload \cup {None}]

Step == {"idle", "check", "bundle", "clear", "write", "notices", "inventory",
         "projection", "validate", "succeeded", "failed"}

BuildTypeOK ==
  /\ source \in Sources
  /\ payload \in PluginPayload
  /\ receipt \in Receipt \cup {None}
  /\ at \in Step
  /\ made \in Sources
  /\ left \subseteq Skill

NoFiles == [s \in Skill |-> [g \in Generation |-> "none"]]

BuildInit ==
  /\ source \in Sources
  /\ payload = [bundles |-> NoFiles, notices |-> None, inventory |-> None,
                projection |-> None]
  /\ receipt = None
  /\ at = "idle" /\ made = source /\ left = {}
-----------------------------------------------------------------------------
\* validateBundleClosure: the files the inventory names are whole, no other managed
\* bundle is there, and projection and notices are those of the inventory.
Closed(p) ==
  /\ p.inventory \in Sources
  /\ \A s \in Skill, g \in Generation :
       p.bundles[s][g] = IF g = p.inventory[s] THEN "whole" ELSE "none"
  /\ p.projection = p.inventory
  /\ p.notices = p.inventory

BuildGoes(l) == at' = l /\ UNCHANGED <<source, receipt>>

Starts ==
  /\ at = "idle"
  /\ BuildGoes("check") /\ UNCHANGED <<payload, made, left>>

\* The generated files, the manifests' versions and the frozen install.
Check ==
  /\ at = "check"
  /\ (BuildGoes("failed") \/ BuildGoes("bundle"))
  /\ UNCHANGED <<payload, made, left>>

\* Admission, bundling and validation in staging touch nothing that is checked in.
Bundle ==
  /\ at = "bundle"
  /\ \/ BuildGoes("failed") /\ UNCHANGED <<made, left>>
     \/ made' = source /\ left' = Skill /\ BuildGoes("clear")
  /\ UNCHANGED payload

\* The managed bundles of other generations are removed; a build that dies or
\* fails at it has removed some of them.
Cleared(S) ==
  [payload EXCEPT !.bundles =
     [s \in Skill |-> [g \in Generation |-> IF s \in S /\ g # made[s] THEN "none"
                                           ELSE payload.bundles[s][g]]]]

Clear ==
  /\ at = "clear"
  /\ payload' = Cleared(Skill)
  /\ BuildGoes("write") /\ UNCHANGED <<made, left>>

Written(s, f) == [payload EXCEPT !.bundles[s][made[s]] = f]

WriteBundle(s) ==
  /\ at = "write" /\ s \in left
  /\ payload' = Written(s, "whole")
  /\ left' = left \ {s}
  /\ BuildGoes(IF left = {s} THEN "notices" ELSE "write")
  /\ UNCHANGED made

WriteNotices ==
  /\ at = "notices"
  /\ payload' = [payload EXCEPT !.notices = made]
  /\ BuildGoes("inventory") /\ UNCHANGED <<made, left>>

WriteInventory ==
  /\ at = "inventory"
  /\ payload' = [payload EXCEPT !.inventory = made]
  /\ BuildGoes("projection") /\ UNCHANGED <<made, left>>

WriteProjection ==
  /\ at = "projection"
  /\ payload' = [payload EXCEPT !.projection = made]
  /\ BuildGoes("validate") /\ UNCHANGED <<made, left>>

\* The closure is read back from the disk.
Validates_Inventory == payload.inventory = made
Validates == Closed(payload)

Validate ==
  /\ at = "validate"
  /\ BuildGoes(IF Validates THEN "succeeded" ELSE "failed")
  /\ UNCHANGED <<payload, made, left>>

\* writeBuildReceipt records the payload as it is by now, without a digest when it
\* cannot be inventoried (that of a failed build is never read).  When the receipt
\* cannot be written the old one stays.
Report ==
  /\ at \in {"succeeded", "failed"}
  /\ receipt' \in {receipt} \cup
                    {[succeeded |-> at = "succeeded", digest |-> d] :
                       d \in IF at = "succeeded" THEN {payload, None} ELSE {None}}
  /\ at' = "idle"
  /\ UNCHANGED <<source, payload, made, left>>

\* A write that is cut short leaves a torn file, or nothing but what was there.
CutShort ==
  CASE at = "clear" -> {Cleared(S) : S \in SUBSET Skill}
    [] at = "write" -> {payload} \cup {Written(s, Torn) : s \in left}
    [] at = "notices" -> {payload, [payload EXCEPT !.notices = Torn]}
    [] at = "inventory" -> {payload, [payload EXCEPT !.inventory = Torn]}
    [] at = "projection" -> {payload, [payload EXCEPT !.projection = Torn]}
    [] OTHER -> {payload}

\* It fails, which is reported, or is killed, which is not.
Interrupted ==
  /\ at \notin {"idle", "failed"}
  /\ payload' \in CutShort
  /\ \/ at # "succeeded" /\ BuildGoes("failed")
     \/ BuildGoes("idle")
  /\ UNCHANGED <<made, left>>
-----------------------------------------------------------------------------
(* People edit the sources, and the payload until it is validated.         *)

EditsSource ==
  /\ source' \in Sources
  /\ UNCHANGED <<payload, receipt, at, made, left>>

EditsPayload ==
  /\ at # "succeeded"
  /\ \/ payload' \in {[payload EXCEPT !.inventory = Torn], [payload EXCEPT !.notices = Torn]}
     \/ \E s \in Skill, g \in Generation, f \in File :
          payload' = [payload EXCEPT !.bundles[s][g] = f]
  /\ UNCHANGED <<source, receipt, at, made, left>>

BuildNext ==
  \/ Starts \/ Check \/ Bundle \/ Clear \/ (\E s \in Skill : WriteBundle(s))
  \/ WriteNotices \/ WriteInventory \/ WriteProjection \/ Validate \/ Report
  \/ Interrupted \/ EditsSource \/ EditsPayload

BuildSpec == BuildInit /\ [][BuildNext]_buildVars
-----------------------------------------------------------------------------
\* evaluateFreshness.
Freshness_Receipt ==
  IF receipt = None THEN "unproven"
  ELSE IF receipt.succeeded THEN "fresh" ELSE "build-failed"

Freshness ==
  IF receipt = None THEN "unproven"
  ELSE IF ~receipt.succeeded THEN "build-failed"
  ELSE IF receipt.digest = None THEN "unproven"
  ELSE IF receipt.digest # payload THEN "stale"
  ELSE "fresh"

\* A payload is reported fresh only while it is, file for file, what a build has
\* validated: the files the inventory names, whole and no others, the projection
\* and notices of that inventory; whichever write a later build was killed at,
\* whatever people edited since, and whether or not a receipt could be written.
FreshIsClosed == Freshness = "fresh" => Closed(payload)
=============================================================================
