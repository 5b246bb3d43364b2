---------------------------- MODULE CodexUpdate ----------------------------
(***************************************************************************)
(* The production update of Codex (scripts/codex-production-update.ts):    *)
(* replace the Marketplace and Plugin Installation of a Codex home by those *)
(* of another Release tag.  The target and the prior Release are fetched   *)
(* and proved first; then four native commands change the profile, and an  *)
(* update that fails among them tries once to bring the prior Release back.*)
(* Nothing is kept on disk: what is to be restored is fetched again from   *)
(* its tag, and tags may move.                                             *)
(***************************************************************************)
CONSTANTS
  Tag,          \* stable Release tags; a tag is its manifest's version
  Content,      \* what a payload may hold
  Rest,         \* what a commit may hold besides
  Gone,         \* not there
  UpdateFaults  \* what may go wrong, a subset of UpdateFaultKind

\* crash: the update is killed
\* fail:  a command fails, with or without its effect, or a proof does
\* stale: a native add succeeds and adds something else
\* moved: a tag comes to name another commit
UpdateFaultKind == {"crash", "fail", "stale", "moved"}

\* A commit that its tag admits: the manifest version is the tag's.
Commit == [tag : Tag, bytes : Content, rest : Rest]
Installed == [tag : Tag, bytes : Content, enabled : BOOLEAN]
Home == [market : Commit \cup {Gone}, plugin : Installed \cup {Gone}]
Remote == {r \in [Tag -> Commit] : \A t \in Tag : r[t].tag = t}

ASSUME HomeAssumption ==
  /\ Gone \notin Commit \cup Installed
  /\ UpdateFaults \subseteq UpdateFaultKind

VARIABLES
  remote,       \* the commit each tag names at the source
  market,       \* the commit the Marketplace has checked out, under its tag
  plugin,       \* the Plugin Installation
  target,       \* the commit of the target preflight, with the selected tag
  restoration,  \* the commit of the restoration preflight
  captured,     \* market and plugin as first inspected
  step,         \* the next step of the update
  ended,        \* how it ended, or the last one
  moved,        \* history: a tag moved since it began
  touched,      \* history: somebody else changed the profile since it was compared
  spoiled       \* history: a native command of its recovery did not do its work

home == <<market, plugin>>
preflight == <<target, restoration, captured>>
updateVars ==
  <<remote, home, preflight, step, ended, moved, touched, spoiled>>

MutationStep == {"unplug", "unmarket", "add", "check", "plug", "verify"}
RecoveryStep == {"undoplug", "undomarket", "readd", "replug", "reverify"}
Mutating == MutationStep \cup RecoveryStep
PreflightStep == {"target", "restoration", "payload", "bound", "revalidate"}
Ended == {"previewed", "no_op", "blocked", "updated", "restored", "unknown", "killed"}

Now == [market |-> market, plugin |-> plugin]
CopyOf(c) == [tag |-> c.tag, bytes |-> c.bytes, enabled |-> TRUE]

UpdateInit ==
  /\ remote \in Remote
  /\ market \in Commit \cup {Gone}
  /\ plugin \in Installed \cup {Gone}
  /\ target = Gone /\ restoration = Gone
  /\ captured = [market |-> Gone, plugin |-> Gone]
  /\ step = "idle" /\ ended = "blocked"
  /\ moved = FALSE /\ touched = TRUE /\ spoiled = FALSE
-----------------------------------------------------------------------------
NextStep(l) == step' = l /\ UNCHANGED <<ended, spoiled>>
EndAs(o) == step' = "idle" /\ ended' = o /\ UNCHANGED spoiled

\* A failure before anything was removed blocks; among the native commands it
\* starts the recovery; in the recovery nothing more is tried.
Stumbles ==
  \/ step \in PreflightStep /\ EndAs("blocked")
  \/ step \in MutationStep /\ NextStep("undoplug")
  \/ step \in RecoveryStep /\ step' = "idle" /\ ended' = "unknown" /\ spoiled' = TRUE

Preflight == UNCHANGED <<remote, home, moved>>
Change == UNCHANGED <<remote, preflight, moved, touched>>

\* Any step may also fail to do what it is there for; a native command may fail
\* with its effect.
StepFails ==
  /\ "fail" \in UpdateFaults
  /\ step \in PreflightStep \cup (Mutating \ {"undoplug", "undomarket"})
  /\ Stumbles
  /\ UNCHANGED <<remote, home, preflight, moved, touched>>

Codex(then) == NextStep(then) \/ ("fail" \in UpdateFaults /\ Stumbles)
-----------------------------------------------------------------------------
(* Preflight.                                                              *)
\* inspectCurrentState: a Marketplace at a tag, and an enabled installation.
Inspectable ==
  /\ market # Gone
  /\ IF plugin = Gone THEN FALSE ELSE plugin.enabled

Inspect ==
  /\ step = "idle"
  /\ captured' = Now /\ target' = Gone /\ restoration' = Gone
  /\ IF Inspectable THEN step' = "target" /\ UNCHANGED ended
                    ELSE step' = "idle" /\ ended' = "blocked"
  /\ moved' = FALSE /\ touched' = FALSE /\ spoiled' = FALSE
  /\ UNCHANGED <<remote, home>>

\* The tag is the one asked for, or the latest stable Release.
PreflightTarget ==
  /\ step = "target"
  /\ \E t \in Tag : target' = remote[t]
  /\ NextStep("restoration")
  /\ Preflight /\ UNCHANGED <<restoration, captured, touched>>

PreflightRestoration ==
  /\ step = "restoration"
  /\ restoration' = remote[captured.market.tag]
  /\ NextStep("payload")
  /\ Preflight /\ UNCHANGED <<target, captured, touched>>

\* The installed bytes are those of the prior Release, and those captured.
Proven ==
  IF plugin = Gone THEN FALSE
    ELSE /\ plugin.tag = captured.plugin.tag /\ plugin.bytes = captured.plugin.bytes
         /\ plugin.tag = restoration.tag /\ plugin.bytes = restoration.bytes

ProvePayload ==
  /\ step = "payload"
  /\ IF Proven THEN NextStep("bound") ELSE EndAs("blocked")
  /\ Preflight /\ UNCHANGED <<preflight, touched>>

WouldChange == captured.market # target

StillBound == remote[target.tag] = target

\* The functional proof, and the tag once more.  A preview ends here.
BindTag ==
  /\ step = "bound"
  /\ \/ ~StillBound /\ EndAs("blocked")
     \/ StillBound /\ EndAs("previewed")
     \/ StillBound /\ ~WouldChange /\ EndAs("no_op")
     \/ StillBound /\ WouldChange /\ NextStep("revalidate")
  /\ Preflight /\ UNCHANGED <<preflight, touched>>

Revalidate_Trusting ==
  /\ step = "revalidate"
  /\ IF Inspectable THEN NextStep("unplug") /\ touched' = FALSE
                    ELSE EndAs("blocked") /\ UNCHANGED touched
  /\ Preflight /\ UNCHANGED <<preflight>>

Revalidate ==
  /\ step = "revalidate"
  /\ IF Now = captured THEN NextStep("unplug") /\ touched' = FALSE
                       ELSE EndAs("blocked") /\ UNCHANGED touched
  /\ Preflight /\ UNCHANGED <<preflight>>
-----------------------------------------------------------------------------
(* The native commands.                                                    *)
RemovePlugin ==
  /\ step = "unplug"
  /\ plugin' = Gone /\ UNCHANGED market
  /\ Codex("unmarket") /\ Change

RemoveMarketplace ==
  /\ step = "unmarket"
  /\ market' = Gone /\ UNCHANGED plugin
  /\ Codex("add") /\ Change

\* What an add of a tag may check out, and what an install may copy.
Offered(t) == IF "stale" \in UpdateFaults THEN {remote[u] : u \in Tag} ELSE {remote[t]}
Copies(c) ==
  {CopyOf(c)} \cup
  (IF "stale" \in UpdateFaults
     THEN {[tag |-> c.tag, bytes |-> b, enabled |-> TRUE] : b \in Content} ELSE {})

AddTarget ==
  /\ step = "add"
  /\ market' \in Offered(target.tag) /\ UNCHANGED plugin
  /\ Codex("check") /\ Change

VerifySelectedMarketplace ==
  /\ step = "check"
  /\ IF market = target THEN NextStep("plug") ELSE Stumbles
  /\ UNCHANGED home /\ Change

InstallTarget ==
  /\ step = "plug"
  /\ plugin' \in Copies(market) /\ UNCHANGED market
  /\ Codex("verify") /\ Change

IsRelease(c) == market = c /\ plugin = CopyOf(c)

VerifyInstalled ==
  /\ step = "verify"
  /\ IF IsRelease(target) THEN EndAs("updated") ELSE Stumbles
  /\ UNCHANGED home /\ Change
-----------------------------------------------------------------------------
(* restorePriorRelease.                                                    *)
\* The two removals are attempts, and what comes of them is not looked at.
UndoPlugin ==
  /\ step = "undoplug"
  /\ \/ plugin' = Gone /\ UNCHANGED spoiled
     \/ "fail" \in UpdateFaults /\ plugin' = plugin /\ spoiled' = TRUE
  /\ step' = "undomarket" /\ UNCHANGED <<market, ended>>
  /\ Change

UndoMarketplace_Kept ==
  /\ step = "undomarket"
  /\ step' = "readd" /\ UNCHANGED <<market, plugin, ended, spoiled>>
  /\ Change

UndoMarketplace ==
  /\ step = "undomarket"
  /\ \/ market' = Gone /\ UNCHANGED spoiled
     \/ "fail" \in UpdateFaults /\ market' = market /\ spoiled' = TRUE
  /\ step' = "readd" /\ UNCHANGED <<plugin, ended>>
  /\ Change

\* A Marketplace that is still there is not replaced: the add says that it is
\* there already, or fails.
ReaddPrior ==
  /\ step = "readd"
  /\ IF market = Gone
       THEN \E c \in Offered(captured.market.tag) :
              /\ market' = c
              /\ \/ step' = "replug" /\ UNCHANGED ended
                      /\ spoiled' = (spoiled \/ c # remote[captured.market.tag])
                 \/ "fail" \in UpdateFaults /\ Stumbles
       ELSE UNCHANGED market /\ (NextStep("replug") \/ Stumbles)
  /\ UNCHANGED plugin /\ Change

ReinstallPrior ==
  /\ step = "replug"
  /\ \E p \in Copies(market) :
       /\ plugin' = p
       /\ \/ step' = "reverify" /\ UNCHANGED ended
               /\ spoiled' = (spoiled \/ p # CopyOf(market))
          \/ "fail" \in UpdateFaults /\ Stumbles
  /\ UNCHANGED market /\ Change

\* assertExactHarnessRecovery.
IsExact_ByBytes == plugin = captured.plugin
IsExact == Now = captured

VerifyPrior ==
  /\ step = "reverify"
  /\ IF IsRelease(restoration) /\ IsExact THEN EndAs("restored") ELSE EndAs("unknown")
  /\ UNCHANGED home /\ Change
-----------------------------------------------------------------------------
(* The world.                                                              *)
\* What an update knew ends with its process; nobody asks for it any more.
Forgets ==
  IF step = "idle"
    THEN /\ target' = Gone /\ restoration' = Gone
         /\ captured' = [market |-> Gone, plugin |-> Gone]
         /\ ended' = "blocked"
    ELSE UNCHANGED <<preflight, ended>>

\* People and Codex itself change the profile, but not among the native commands
\* of an update: a Codex home has no lock, and the update only looks before them.
SomebodyChanges ==
  /\ step \notin Mutating
  /\ \/ market' \in Commit \cup {Gone} /\ UNCHANGED plugin
     \/ plugin' \in Installed \cup {Gone} /\ UNCHANGED market
  /\ home' # home /\ touched' = TRUE
  /\ Forgets
  /\ UNCHANGED <<remote, step, moved, spoiled>>

TagMoves ==
  /\ "moved" \in UpdateFaults
  /\ \E c \in Commit \ {remote[t] : t \in Tag} : remote' = [remote EXCEPT ![c.tag] = c]
  /\ moved' = TRUE
  /\ Forgets
  /\ UNCHANGED <<home, step, touched, spoiled>>

Killed ==
  /\ "crash" \in UpdateFaults
  /\ step # "idle"
  /\ EndAs("killed")
  /\ UNCHANGED <<remote, home, preflight, moved, touched>>

PreflightNext ==
  \/ Inspect \/ PreflightTarget \/ PreflightRestoration \/ ProvePayload \/ BindTag \/ Revalidate
MutationNext ==
  \/ RemovePlugin \/ RemoveMarketplace \/ AddTarget \/ VerifySelectedMarketplace
  \/ InstallTarget \/ VerifyInstalled
RecoveryNext ==
  \/ UndoPlugin \/ UndoMarketplace \/ ReaddPrior \/ ReinstallPrior \/ VerifyPrior
WorldNext == SomebodyChanges \/ TagMoves \/ Killed \/ StepFails

UpdateNext == PreflightNext \/ MutationNext \/ RecoveryNext \/ WorldNext

UpdateSpec == UpdateInit /\ [][UpdateNext]_updateVars
-----------------------------------------------------------------------------
(* Properties.                                                             *)

\* The type of every variable, and that an update past its preflight has
\* captured a profile it could inspect.
UpdateTypeOK ==
  /\ remote \in Remote
  /\ market \in Commit \cup {Gone} /\ plugin \in Installed \cup {Gone}
  /\ target \in Commit \cup {Gone} /\ restoration \in Commit \cup {Gone}
  /\ captured \in Home
  /\ step \in {"idle"} \cup PreflightStep \cup Mutating
  /\ ended \in Ended
  /\ moved \in BOOLEAN /\ touched \in BOOLEAN /\ spoiled \in BOOLEAN
  /\ step # "idle" => captured.market # Gone /\ captured.plugin # Gone

\* transactionState is true: "updated" says that the profile is the target
\* Release, "restored" that it is exactly what was captured, "no_op" that the
\* installation was already what a fetch of the selected tag contains.
UpdateHonest ==
  step = "idle" /\ ~touched =>
    /\ ended = "updated" => market = target /\ plugin = CopyOf(target)
    /\ ended = "restored" => Now = captured
    /\ ended = "no_op" /\ ~moved => market = target /\ plugin = CopyOf(target)

\* Nothing is removed whose bytes were not just proved to come back with its
\* tag, and nothing that could not be enabled again.
RemovesOnlyProven ==
  [][step = "unplug" /\ plugin' # plugin => plugin = CopyOf(restoration)]_updateVars

\* "The command attempts one exact restoration and verifies it": wherever an
\* update failed, the prior profile is back, unless a command of the recovery
\* failed as well or the prior tag no longer names the captured commit.
RestorationExact ==
  step = "idle" /\ ended = "unknown" =>
    spoiled \/ moved \/ restoration # captured.market

\* "The command blocks before mutation for [...] unrestorable state"
\* (docs/installing.md:232): with tags that stay where they are, only a failing
\* recovery ends in "unknown".
UnrestorableBlocked ==
  step = "idle" /\ ended = "unknown" => spoiled \/ moved
=============================================================================
