------------------------ MODULE ClaudeInstallation ------------------------
(***************************************************************************)
(* The development installation of Claude Code (scripts/claude-development-*)
(* installation.ts): `install --apply` takes the production Marketplace    *)
(* and Plugin Installation out of a profile and links a checkout instead,  *)
(* `restore --apply` puts back what a snapshot in that checkout recorded.  *)
(* Every change is a native `claude plugin` command of its own, and there  *)
(* is no transaction around them: an invocation may be killed between any  *)
(* two, and a command may fail before or after it had its effect.          *)
(*                                                                         *)
(* Several checkouts share one profile.  One invocation runs at a time,    *)
(* and people use `claude plugin` themselves only while none does.         *)
(***************************************************************************)
CONSTANTS
  Checkout,  \* checkouts of the repository
  Source,    \* where a production Marketplace may come from
  Version,   \* the versions it may offer
  None,      \* not there
  Faults     \* what may go wrong, a subset of FaultKind

\* crash:   an invocation is killed
\* fail:    a native command fails, with or without its effect
\* moved:   the production Marketplace comes to offer another version
\* again:   somebody installs over what an earlier invocation left unfinished
FaultKind == {"crash", "fail", "moved", "again"}

Plugin == [version : Version, enabled : BOOLEAN]
Production == [market : Source \cup {None}, plugin : Plugin \cup {None}]
Whole(p) == p.plugin # None => p.market # None
Link == [linked : BOOLEAN, enabled : BOOLEAN]
Development == [market : Checkout \cup {None}, plugin : Link \cup {None}]
Absent == [market |-> None, plugin |-> None]
With(s, p) == [market |-> s.market, plugin |-> p]

ASSUME ProfileAssumption ==
  /\ None \notin Checkout \cup Source \cup Version \cup Plugin \cup Link \cup Production
  /\ Faults \subseteq FaultKind

VARIABLES
  production,  \* the production Marketplace and Plugin Installation
  development, \* the development ones; the Marketplace is its checkout's
  cache,       \* the checkout whose payload the development cache links to
  offered,     \* the version the production Marketplace offers
  snapshot,    \* what the restore-state file of each checkout records
  who, op,     \* the invocation at work, or the last one: checkout, operation
  pc,          \* its next step
  out,         \* how it ended
  disturbed,   \* history: something failed while it ran
  taken        \* history: what production was when an install first took from it

profile == <<production, development, cache, taken>>
invocation == <<who, op>>
vars == <<profile, offered, snapshot, invocation, pc, out, disturbed>>

InstallPc == {"unplug", "unmarket", "link", "plugin", "enable", "verify"}
RestorePc ==
  {"undev", "undevmarket", "remarket", "replug", "reversion", "reenable", "reverify"}
Outcome == {"installed", "restored", "no_op", "refused", "unknown", "killed"}

Init ==
  /\ production \in {p \in Production : Whole(p)}
  /\ development = Absent
  /\ cache \in Checkout \cup {None}
  /\ offered \in Version
  /\ snapshot = [c \in Checkout |-> None]
  /\ who \in Checkout
  /\ op = "restore"
  /\ pc = "idle"
  /\ out = "refused"
  /\ disturbed = TRUE
  /\ taken = None
-----------------------------------------------------------------------------
Goto(l) == pc' = l /\ UNCHANGED <<out, disturbed>>
End(o) == pc' = "idle" /\ out' = o /\ UNCHANGED disturbed

\* An install that fails restores at once from its own snapshot; a restoration
\* that fails leaves a state that is unknown.
Fails ==
  /\ disturbed' = TRUE
  /\ IF pc \in InstallPc THEN pc' = "undev" /\ UNCHANGED out
                         ELSE pc' = "idle" /\ out' = "unknown"

\* A native command with its effect, and the write of the snapshot's history
\* that follows it: either may fail, the command before or after the effect.
Native(effect, then) ==
  /\ UNCHANGED <<offered, snapshot, invocation>>
  /\ \/ effect /\ Goto(then)
     \/ "fail" \in Faults /\ Fails /\ (effect \/ UNCHANGED profile)

\* Nothing to do at this step; the inspection before it may fail.
Skip(then) == Native(UNCHANGED profile, then)

Takes(p) ==
  /\ production' = p
  /\ taken' = IF taken = None THEN production ELSE taken
  /\ UNCHANGED <<development, cache>>

Gives(p) ==
  /\ production' = p
  /\ taken' = IF p = taken THEN None ELSE taken
  /\ UNCHANGED <<development, cache>>

Develops(d) == development' = d /\ UNCHANGED <<production, taken>>
-----------------------------------------------------------------------------
(* Inspection. *)
Owned_Unasked(c) == TRUE
Owned(c) == development.market \in {None, c}

Paired == Whole(production) /\ Whole(development)

\* inspectState refuses a development Marketplace of another checkout, a plugin
\* without its Marketplace, an installation cut short, and two sources at once.
Coherent(c) ==
  /\ Owned(c)
  /\ Paired
  /\ development.plugin = None => development.market = None
  /\ production = Absent \/ development = Absent

\* inspectStateForRecovery tolerates the last two.
Recoverable_Strict(c) == Coherent(c)
Recoverable(c) == Owned(c) /\ Paired

\* A cache that outlived its registration, unless it still links to this checkout.
Orphaned(c) == development.plugin = None /\ cache \notin {None, c}

Begin(c, o) ==
  /\ pc = "idle"
  /\ (o = "install" /\ taken # None /\ development.plugin = None) => "again" \in Faults
  /\ who' = c /\ op' = o
  /\ pc' = "inspect"
  /\ out' = "refused"
  /\ disturbed' = FALSE
  /\ UNCHANGED <<profile, offered, snapshot>>

\* An inspection fails before anything was changed.
Unreadable ==
  /\ pc = "inspect" /\ "fail" \in Faults
  /\ pc' = "idle" /\ out' = "refused" /\ disturbed' = TRUE
  /\ UNCHANGED <<profile, offered, snapshot, invocation>>

Refuse ==
  /\ pc = "inspect"
  /\ \/ op = "install" /\ (~Coherent(who) \/ Orphaned(who))
     \/ op = "install" /\ development.plugin # None
          /\ (~development.plugin.linked \/ snapshot[who] = None)
     \/ op = "restore" /\ (~Recoverable(who) \/ snapshot[who] = None)
  /\ End("refused")
  /\ UNCHANGED <<profile, offered, snapshot, invocation>>

-----------------------------------------------------------------------------
(* install --apply *)
\* An installation this checkout made is enabled again; its snapshot stays.
InstallPresent_Recaptures ==
  /\ pc = "inspect" /\ op = "install"
  /\ Coherent(who)
  /\ development.plugin # None /\ development.plugin.linked /\ snapshot[who] # None
  /\ IF development.plugin.enabled THEN End("no_op") ELSE Goto("enable")
  /\ snapshot' = [snapshot EXCEPT ![who] = production]
  /\ UNCHANGED <<profile, offered, invocation>>

InstallPresent ==
  /\ pc = "inspect" /\ op = "install"
  /\ Coherent(who)
  /\ development.plugin # None /\ development.plugin.linked /\ snapshot[who] # None
  /\ IF development.plugin.enabled THEN End("no_op") ELSE Goto("enable")
  /\ UNCHANGED <<profile, offered, snapshot, invocation>>

Capture_PluginOnly ==
  /\ pc = "inspect" /\ op = "install"
  /\ Coherent(who) /\ ~Orphaned(who) /\ development.plugin = None
  /\ Goto("unplug")
  /\ snapshot' = [snapshot EXCEPT ![who] = [market |-> None, plugin |-> production.plugin]]
  /\ UNCHANGED <<profile, offered, invocation>>

Capture ==
  /\ pc = "inspect" /\ op = "install"
  /\ Coherent(who) /\ ~Orphaned(who) /\ development.plugin = None
  /\ Goto("unplug")
  /\ snapshot' = [snapshot EXCEPT ![who] = production]
  /\ UNCHANGED <<profile, offered, invocation>>

UninstallProduction ==
  /\ pc = "unplug"
  /\ IF snapshot[who].plugin = None
       THEN Goto("unmarket") /\ UNCHANGED <<profile, offered, snapshot, invocation>>
       ELSE Native(Takes(With(production, None)), "unmarket")

\* Claude removes what a Marketplace installed together with it.
RemoveProductionMarket ==
  /\ pc = "unmarket"
  /\ IF snapshot[who].market = None
       THEN Goto("link") /\ UNCHANGED <<profile, offered, snapshot, invocation>>
       ELSE Native(Takes(Absent), "link")

AddDevelopmentMarket ==
  /\ pc = "link"
  /\ Native(Develops([market |-> who, plugin |-> None]) /\ UNCHANGED cache, "plugin")

InstallDevelopment ==
  /\ pc = "plugin"
  /\ \E e \in BOOLEAN :
       Native(/\ Develops(With(development, [linked |-> TRUE, enabled |-> e]))
              /\ cache' = who,
              "enable")

EnableDevelopment ==
  /\ pc = "enable"
  /\ Native(/\ Develops(With(development,
                           [linked |-> development.plugin.linked, enabled |-> TRUE]))
            /\ UNCHANGED cache,
            "verify")

Ready ==
  IF development.plugin = None THEN FALSE
    ELSE development.plugin.enabled /\ development.plugin.linked

VerifyDevelopment ==
  /\ pc = "verify"
  /\ \/ Coherent(who) /\ Ready /\ End("installed")
     \/ ("fail" \in Faults \/ ~Coherent(who) \/ ~Ready) /\ Fails
  /\ UNCHANGED <<profile, offered, snapshot, invocation>>
-----------------------------------------------------------------------------
(* restore --apply, and the restoration an install that failed begins with *)
(* "undev".  Every step inspects the profile anew.                         *)
Restores(l) == pc = l /\ Recoverable(who)

RestorePresent ==
  /\ pc = "inspect" /\ op = "restore"
  /\ Recoverable(who) /\ snapshot[who] # None
  /\ IF development = Absent /\ production = snapshot[who] THEN End("no_op") ELSE Goto("undev")
  /\ UNCHANGED <<profile, offered, snapshot, invocation>>

\* The cache stays: the plugin is uninstalled with --keep-data.
UninstallDevelopment ==
  /\ Restores("undev")
  /\ IF development.plugin = None
       THEN Skip("undevmarket")
       ELSE Native(Develops(With(development, None)) /\ UNCHANGED cache, "undevmarket")

RemoveDevelopmentMarket ==
  /\ Restores("undevmarket")
  /\ IF development.market = None
       THEN Skip("remarket")
       ELSE Native(Develops(Absent) /\ UNCHANGED cache, "remarket")

MarketConflicts ==
  production.market # None /\ production.market # snapshot[who].market

RestoreMarket ==
  /\ Restores("remarket") /\ ~MarketConflicts
  /\ IF production.market = snapshot[who].market
       THEN Skip("replug")
       ELSE Native(Gives([market |-> snapshot[who].market, plugin |-> None]), "replug")

PluginConflicts ==
  /\ production.plugin # None
  /\ snapshot[who].plugin # None => production.plugin.version # snapshot[who].plugin.version

\* Whatever version the Marketplace offers is installed, and then compared.
RestorePlugin ==
  /\ Restores("replug") /\ ~PluginConflicts
  /\ IF snapshot[who].plugin = None \/ production.plugin # None
       THEN Skip("reenable")
       ELSE \E e \in BOOLEAN :
              Native(Gives(With(production, [version |-> offered, enabled |-> e])), "reversion")

CheckVersion ==
  /\ Restores("reversion")
  /\ production.plugin.version = snapshot[who].plugin.version
  /\ Skip("reenable")

RestoreEnabled ==
  /\ Restores("reenable")
  /\ IF snapshot[who].plugin = None \/ production.plugin = snapshot[who].plugin
       THEN Skip("reverify")
       ELSE Native(Gives(With(production, [version |-> production.plugin.version,
                                           enabled |-> snapshot[who].plugin.enabled])),
                   "reverify")

VerifyRestored ==
  /\ pc = "reverify"
  /\ Coherent(who) /\ development = Absent /\ production = snapshot[who]
  /\ \/ End("restored")
     \/ "fail" \in Faults /\ Fails
  /\ UNCHANGED <<profile, offered, snapshot, invocation>>

\* RESTORATION_STATE_CONFLICT, PRODUCTION_VERSION_UNAVAILABLE and
\* RESTORATION_VERIFICATION_FAILED.
StopRestoring ==
  /\ \/ pc \in RestorePc /\ ~Recoverable(who)
     \/ pc = "remarket" /\ MarketConflicts
     \/ pc = "replug" /\ PluginConflicts
     \/ pc = "reversion" /\ production.plugin.version # snapshot[who].plugin.version
     \/ pc = "reverify" /\ (development # Absent \/ production # snapshot[who])
  /\ End("unknown")
  /\ UNCHANGED <<profile, offered, snapshot, invocation>>
-----------------------------------------------------------------------------
(* The world. *)
Crash ==
  /\ "crash" \in Faults
  /\ pc # "idle"
  /\ End("killed")
  /\ UNCHANGED <<profile, offered, snapshot, invocation>>

\* People set up the production installation themselves.
PeopleInstall ==
  /\ pc = "idle"
  /\ production' \in {p \in Production : Whole(p)}
  /\ taken' = None
  /\ UNCHANGED <<development, cache, offered, snapshot, invocation, pc, out, disturbed>>

\* A new entry at the top of the payload is not among the links made before.
PayloadGrows ==
  /\ pc = "idle"
  /\ development.plugin # None
  /\ development' = With(development,
                         [linked |-> FALSE, enabled |-> development.plugin.enabled])
  /\ UNCHANGED <<production, taken, cache, offered, snapshot, invocation, pc, out, disturbed>>

\* "Remove the cache root", as the refusal of an orphaned one advises.
ClearCache ==
  /\ pc = "idle"
  /\ development.plugin = None
  /\ cache' = None
  /\ UNCHANGED <<production, development, taken, offered, snapshot, invocation, pc, out, disturbed>>

Move ==
  /\ "moved" \in Faults
  /\ offered' \in Version
  /\ disturbed' = TRUE
  /\ UNCHANGED <<profile, snapshot, invocation, pc, out>>

Install ==
  \/ InstallPresent \/ Capture \/ UninstallProduction \/ RemoveProductionMarket
  \/ AddDevelopmentMarket \/ InstallDevelopment \/ EnableDevelopment \/ VerifyDevelopment
Restore ==
  \/ RestorePresent \/ UninstallDevelopment \/ RemoveDevelopmentMarket \/ RestoreMarket
  \/ RestorePlugin \/ CheckVersion \/ RestoreEnabled \/ VerifyRestored \/ StopRestoring
People == PeopleInstall \/ PayloadGrows \/ ClearCache

Next ==
  \/ \E c \in Checkout, o \in {"install", "restore"} : Begin(c, o)
  \/ Unreadable \/ Refuse \/ Install \/ Restore \/ Crash \/ People \/ Move

Spec == Init /\ [][Next]_vars
-----------------------------------------------------------------------------
(* Properties.                                                             *)

\* The type of every variable.  A Plugin Installation is never without its
\* Marketplace, in the profile whatever died in between (inspectState refuses one
\* that is), nor in a snapshot (readSnapshot refuses one that is).
TypeOK ==
  /\ production \in Production /\ development \in Development
  /\ Paired
  /\ cache \in Checkout \cup {None}
  /\ offered \in Version
  /\ snapshot \in [Checkout -> Production \cup {None}]
  /\ \A c \in Checkout : snapshot[c] # None => Whole(snapshot[c])
  /\ who \in Checkout /\ op \in {"install", "restore"}
  /\ pc \in {"idle", "inspect"} \cup InstallPc \cup RestorePc
  /\ out \in Outcome
  /\ disturbed \in BOOLEAN
  /\ taken \in Production \cup {None}

\* "restore --apply puts that production state back" (installPreviewNextAction):
\* as long as what an install took away has not come back, a snapshot has it.
TakenIsCaptured == taken # None => \E c \in Checkout : snapshot[c] = taken

\* What a restoration may stop at: something else has since been put where the
\* captured production was, or the Marketplace no longer offers it.
Superseded(p) ==
  \/ production.market \notin {None, p.market}
  \/ production.plugin # None
       /\ (p.plugin # None => production.plugin.version # p.plugin.version)
  \/ p.plugin # None /\ offered # p.plugin.version

Unrecovered ==
  /\ pc = "idle" /\ op = "restore" /\ out # "killed" /\ ~disturbed
  /\ taken # None /\ snapshot[who] = taken /\ Owned(who)
  /\ ~Superseded(taken)

\* Wherever an install or a restoration died, a restore from that checkout that
\* meets no failure puts back exactly what was taken, unless that is superseded.
RestoreRecovers == [][pc # "idle" => ~Unrecovered']_vars

\* No invocation changes the development installation of another checkout.
OthersKept ==
  [][development.market # None /\ development' # development /\ pc # "idle"
       => who = development.market]_vars
=============================================================================
