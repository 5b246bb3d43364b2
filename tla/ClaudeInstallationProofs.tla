----------------------- MODULE ClaudeInstallationProofs -----------------------
(* Theorems about ClaudeInstallation, for every set of checkouts, Marketplace *)
(* sources and versions.                                                      *)
EXTENDS ClaudeInstallation, TLAPS

USE ProfileAssumption

\* What an invocation at work has behind it: a snapshot from the first native
\* command on, and whatever its next step works on.
Working ==
  /\ pc \notin {"idle", "inspect"} => snapshot[who] # None
  /\ pc = "plugin" => development.market # None
  /\ pc \in {"enable", "verify"} => development.plugin # None
  /\ pc = "replug" => production.market = snapshot[who].market
  /\ pc = "reversion" => production.plugin # None /\ snapshot[who].plugin # None
  /\ pc = "reenable" /\ snapshot[who].plugin # None => production.plugin # None

Typed == TypeOK /\ Working

-----------------------------------------------------------------------------
(* Records.                                                                  *)

LEMMA PluginType ==
  ASSUME NEW v \in Version, NEW e \in BOOLEAN
  PROVE  [version |-> v, enabled |-> e] \in Plugin
  BY DEF Plugin

LEMMA LinkType ==
  ASSUME NEW l \in BOOLEAN, NEW e \in BOOLEAN
  PROVE  [linked |-> l, enabled |-> e] \in Link
  BY DEF Link

\* A record is never the model value that stands for its absence.
LEMMA AbsentType ==
  Absent \in Production /\ Absent \in Development /\ Whole(Absent)
  BY DEF Absent, Production, Development, Whole

LEMMA WithProduction ==
  ASSUME NEW s \in Production, NEW p \in Plugin \cup {None},
         p # None => s.market # None
  PROVE  With(s, p) \in Production /\ Whole(With(s, p))
         /\ With(s, p).market = s.market /\ With(s, p).plugin = p
  BY DEF With, Production, Whole

LEMMA WithDevelopment ==
  ASSUME NEW s \in Development, NEW p \in Link \cup {None},
         p # None => s.market # None
  PROVE  With(s, p) \in Development /\ Whole(With(s, p))
         /\ With(s, p).market = s.market /\ With(s, p).plugin = p
  BY DEF With, Development, Whole

LEMMA InitTyped == Init => Typed
  BY AbsentType DEF Init, Typed, TypeOK, Working, Paired, Outcome

-----------------------------------------------------------------------------
(* Steps.                                                                    *)

LEMMA BeginTyped ==
  ASSUME Typed, NEW c \in Checkout, NEW o \in {"install", "restore"}, Begin(c, o)
  PROVE  Typed'
  BY DEF Begin, Typed, TypeOK, Working, Paired, Whole, profile, Outcome

LEMMA RestTyped ==
  ASSUME Typed, Unreadable \/ Refuse \/ Crash \/ Move
  PROVE  Typed'
<1>1. CASE Unreadable
  BY <1>1 DEF Unreadable, Typed, TypeOK, Working, Paired, Whole, profile, invocation, Outcome
<1>2. CASE Refuse
  BY <1>2 DEF Refuse, End, Typed, TypeOK, Working, Paired, Whole, profile, invocation, Outcome
<1>3. CASE Crash
  BY <1>3 DEF Crash, End, Typed, TypeOK, Working, Paired, Whole, profile, invocation, Outcome
<1>4. CASE Move
  BY <1>4 DEF Move, Typed, TypeOK, Working, Paired, Whole, profile, invocation
<1> QED BY <1>1, <1>2, <1>3, <1>4

LEMMA PeopleTyped ==
  ASSUME Typed, People
  PROVE  Typed'
<1>1. CASE PeopleInstall
  BY <1>1 DEF PeopleInstall, Typed, TypeOK, Working, Paired, invocation
<1>2. CASE PayloadGrows
  <2>1. development.plugin \in Link
    BY <1>2 DEF PayloadGrows, Typed, TypeOK, Development
  <2>2. [linked |-> FALSE, enabled |-> development.plugin.enabled] \in Link
    BY <2>1 DEF Link
  <2>3. development' \in Development /\ Whole(development')
    BY <1>2, <2>2, WithDevelopment DEF PayloadGrows, Typed, TypeOK, Paired, Whole
  <2> QED BY <1>2, <2>3 DEF PayloadGrows, Typed, TypeOK, Working, Paired, invocation
<1>3. CASE ClearCache
  BY <1>3 DEF ClearCache, Typed, TypeOK, Working, Paired, invocation
<1> QED BY <1>1, <1>2, <1>3 DEF People

LEMMA InstallTyped ==
  ASSUME Typed, Install
  PROVE  Typed'
<1> USE DEF Goto, End, Fails, InstallPc, RestorePc, Outcome
<1>1. CASE InstallPresent
  BY <1>1 DEF InstallPresent, Typed, TypeOK, Working, Paired, profile, invocation
<1>2. CASE Capture
  BY <1>2 DEF Capture, Typed, TypeOK, Working, Paired, profile, invocation
<1>3. CASE UninstallProduction
  <2>1. With(production, None) \in Production /\ Whole(With(production, None))
    BY WithProduction DEF Typed, TypeOK
  <2> QED BY <1>3, <2>1 DEF UninstallProduction, Native, Takes,
                Typed, TypeOK, Working, Paired, profile, invocation
<1>4. CASE RemoveProductionMarket
  BY <1>4, AbsentType DEF RemoveProductionMarket, Native, Takes,
                Typed, TypeOK, Working, Paired, profile, invocation
<1>5. CASE AddDevelopmentMarket
  <2> DEFINE d == [market |-> who, plugin |-> None]
  <2>1. d \in Development /\ Whole(d) /\ d.market # None
    BY DEF Typed, TypeOK, Development, Whole
  <2>2. pc = "link" /\ Native(Develops(d) /\ UNCHANGED cache, "plugin")
    BY <1>5 DEF AddDevelopmentMarket
  <2> HIDE DEF d
  <2> QED BY <2>1, <2>2 DEF Native, Develops,
                Typed, TypeOK, Working, Paired, profile, invocation
<1>6. CASE InstallDevelopment
  <2>1. PICK e \in BOOLEAN :
          Native(/\ Develops(With(development, [linked |-> TRUE, enabled |-> e]))
                 /\ cache' = who,
                 "enable")
    BY <1>6 DEF InstallDevelopment
  <2> DEFINE d == With(development, [linked |-> TRUE, enabled |-> e])
  <2>2. [linked |-> TRUE, enabled |-> e] \in Link
    BY LinkType
  <2>3. d \in Development /\ Whole(d) /\ d.plugin # None
    BY <1>6, <2>2, WithDevelopment DEF InstallDevelopment, Typed, TypeOK, Working
  <2> HIDE DEF d
  <2>4. pc = "plugin"
    BY <1>6 DEF InstallDevelopment
  <2> QED BY <2>1, <2>3, <2>4 DEF d, Native, Develops,
                Typed, TypeOK, Working, Paired, profile, invocation
<1>7. CASE EnableDevelopment
  <2> DEFINE l == [linked |-> development.plugin.linked, enabled |-> TRUE]
             d == With(development, l)
  <2>1. pc = "enable" /\ development.plugin \in Link /\ development.market # None
    BY <1>7 DEF EnableDevelopment, Typed, TypeOK, Working, Paired, Whole, Development
  <2>2. l \in Link
    BY <2>1 DEF Link
  <2> HIDE DEF l
  <2>3. d \in Development /\ Whole(d) /\ d.plugin # None
    BY <2>1, <2>2, WithDevelopment DEF Typed, TypeOK
  <2>4. Native(Develops(d) /\ UNCHANGED cache, "verify")
    BY <1>7 DEF EnableDevelopment, l
  <2> HIDE DEF d
  <2> QED BY <2>1, <2>3, <2>4 DEF Native, Develops,
                Typed, TypeOK, Working, Paired, profile, invocation
<1>8. CASE VerifyDevelopment
  BY <1>8 DEF VerifyDevelopment, Typed, TypeOK, Working, Paired, profile, invocation
<1> QED BY <1>1, <1>2, <1>3, <1>4, <1>5, <1>6, <1>7, <1>8 DEF Install

LEMMA RestoreTyped ==
  ASSUME Typed, Restore
  PROVE  Typed'
<1> USE DEF Goto, End, Fails, InstallPc, RestorePc, Outcome, Skip, Restores
<1>1. CASE RestorePresent
  BY <1>1 DEF RestorePresent, Typed, TypeOK, Working, Paired, profile, invocation
<1>2. CASE UninstallDevelopment
  <2>1. With(development, None) \in Development /\ Whole(With(development, None))
    BY WithDevelopment DEF Typed, TypeOK
  <2> QED BY <1>2, <2>1 DEF UninstallDevelopment, Native, Develops,
                Typed, TypeOK, Working, Paired, profile, invocation
<1>3. CASE RemoveDevelopmentMarket
  BY <1>3, AbsentType DEF RemoveDevelopmentMarket, Native, Develops,
                Typed, TypeOK, Working, Paired, profile, invocation
<1>4. CASE RestoreMarket
  <2> DEFINE s == [market |-> snapshot[who].market, plugin |-> None]
  <2>1. snapshot[who] \in Production /\ snapshot[who] # None
    BY <1>4 DEF RestoreMarket, Typed, TypeOK, Working
  <2>2. s \in Production /\ Whole(s) /\ s.market = snapshot[who].market
    BY <2>1 DEF Production, Whole
  <2>3. pc = "remarket"
        /\ (\/ production.market = snapshot[who].market /\ Native(UNCHANGED profile, "replug")
            \/ Native(Gives(s), "replug"))
    BY <1>4 DEF RestoreMarket
  <2> HIDE DEF s
  <2> QED BY <2>1, <2>2, <2>3 DEF Native, Gives,
                Typed, TypeOK, Working, Paired, profile, invocation
<1>5. CASE RestorePlugin
  <2>1. snapshot[who] \in Production /\ snapshot[who] # None /\ Whole(snapshot[who])
        /\ pc = "replug" /\ production.market = snapshot[who].market
    BY <1>5 DEF RestorePlugin, Typed, TypeOK, Working
  <2>2. CASE snapshot[who].plugin = None \/ production.plugin # None
    BY <1>5, <2>1, <2>2 DEF RestorePlugin, Native,
                Typed, TypeOK, Working, Paired, profile, invocation
  <2>3. CASE ~(snapshot[who].plugin = None \/ production.plugin # None)
    <3>1. PICK e \in BOOLEAN :
            Native(Gives(With(production, [version |-> offered, enabled |-> e])), "reversion")
      BY <1>5, <2>3 DEF RestorePlugin
    <3> DEFINE s == With(production, [version |-> offered, enabled |-> e])
    <3>2. [version |-> offered, enabled |-> e] \in Plugin
      BY PluginType DEF Typed, TypeOK
    <3>3. s \in Production /\ Whole(s) /\ s.plugin # None
      BY <2>1, <2>3, <3>2, WithProduction DEF Typed, TypeOK, Whole
    <3> HIDE DEF s
    <3>4. Native(Gives(s), "reversion")
      BY <3>1 DEF s
    <3> QED BY <2>1, <2>3, <3>3, <3>4 DEF Native, Gives,
                Typed, TypeOK, Working, Paired, profile, invocation
  <2> QED BY <2>2, <2>3
<1>6. CASE CheckVersion
  BY <1>6 DEF CheckVersion, Native, Typed, TypeOK, Working, Paired, profile, invocation
<1>7. CASE RestoreEnabled
  <2>1. snapshot[who] \in Production /\ snapshot[who] # None /\ pc = "reenable"
    BY <1>7 DEF RestoreEnabled, Typed, TypeOK, Working
  <2>2. CASE snapshot[who].plugin = None \/ production.plugin = snapshot[who].plugin
    BY <1>7, <2>1, <2>2 DEF RestoreEnabled, Native,
                Typed, TypeOK, Working, Paired, profile, invocation
  <2>3. CASE ~(snapshot[who].plugin = None \/ production.plugin = snapshot[who].plugin)
    <3> DEFINE p == [version |-> production.plugin.version,
                     enabled |-> snapshot[who].plugin.enabled]
               s == With(production, p)
    <3>1. /\ production \in Production /\ Whole(production)
          /\ production.plugin \in Plugin /\ snapshot[who].plugin \in Plugin
          /\ production.market # None
      BY <2>1, <2>3 DEF Typed, TypeOK, Working, Paired, Whole, Production
    <3>2. p \in Plugin
      BY <3>1 DEF Plugin
    <3> HIDE DEF p
    <3>3. s \in Production /\ Whole(s)
      BY <3>1, <3>2, WithProduction
    <3>4. Native(Gives(s), "reverify")
      BY <1>7, <2>3 DEF RestoreEnabled, p
    <3> HIDE DEF s
    <3> QED BY <2>1, <3>3, <3>4 DEF Native, Gives,
                Typed, TypeOK, Working, Paired, profile, invocation
  <2> QED BY <2>2, <2>3
<1>8. CASE VerifyRestored
  BY <1>8 DEF VerifyRestored, Typed, TypeOK, Working, Paired, profile, invocation
<1>9. CASE StopRestoring
  BY <1>9 DEF StopRestoring, Typed, TypeOK, Working, Paired, profile, invocation
<1> QED BY <1>1, <1>2, <1>3, <1>4, <1>5, <1>6, <1>7, <1>8, <1>9 DEF Restore

LEMMA NextTyped == Typed /\ [Next]_vars => Typed'
<1> SUFFICES ASSUME Typed, [Next]_vars PROVE Typed'
  OBVIOUS
<1>1. CASE UNCHANGED vars
  BY <1>1 DEF vars, Typed, TypeOK, Working, Paired, profile, invocation
<1>2. CASE Next
  BY <1>2, BeginTyped, RestTyped, PeopleTyped, InstallTyped, RestoreTyped DEF Next
<1> QED BY <1>1, <1>2

\* The profile, the snapshots and the invocation at work keep their types, and
\* neither the profile nor a snapshot ever has a plugin without its Marketplace,
\* whatever is killed or fails (inspectState, readSnapshot).
THEOREM InstallationTypeCorrect == Spec => []TypeOK
<1>1. Init => Typed
  BY InitTyped
<1>2. Typed /\ [Next]_vars => Typed'
  BY NextTyped
<1>3. Typed => TypeOK
  BY DEF Typed
<1> QED BY <1>1, <1>2, <1>3, PTL DEF Spec

-----------------------------------------------------------------------------
(* What was taken is captured.                                               *)

\* As long as nobody installs over what an install left unfinished, a capture
\* finds nothing taken, and what is taken is what was just captured.
Captured ==
  /\ TakenIsCaptured
  /\ pc = "inspect" /\ op = "install" => taken = None \/ development.plugin # None
  /\ pc = "unplug" => taken = None /\ snapshot[who] = production
  /\ pc = "unmarket" =>
       \/ taken = None /\ snapshot[who] = production
       \/ taken # None /\ taken = snapshot[who]

LEMMA InitCaptured == Init => Captured
  BY DEF Init, Captured, TakenIsCaptured

LEMMA NextCaptured ==
  ASSUME Typed, Captured, [Next]_vars, "again" \notin Faults
  PROVE  Captured'
<1> USE DEF Captured, TakenIsCaptured
<1> USE DEF Goto, End, Fails, InstallPc, RestorePc
<1>1. CASE UNCHANGED vars
  BY <1>1 DEF vars, profile, invocation
<1>2. ASSUME NEW c \in Checkout, NEW o \in {"install", "restore"}, Begin(c, o)
      PROVE  Captured'
  BY <1>2 DEF Begin, profile
<1>3. CASE Unreadable \/ Refuse \/ Crash \/ Move
  BY <1>3 DEF Unreadable, Refuse, Crash, Move, profile, invocation
<1>4. CASE People
  BY <1>4 DEF People, PeopleInstall, PayloadGrows, ClearCache, invocation
<1>5. CASE Install
  <2>1. CASE InstallPresent
    BY <1>5, <2>1 DEF InstallPresent, profile, invocation
  <2>2. CASE Capture
    BY <1>5, <2>2 DEF Capture, Typed, TypeOK, profile, invocation
  <2>3. CASE UninstallProduction
    <3>1. CASE snapshot[who].plugin = None
      BY <2>3, <3>1 DEF UninstallProduction, profile, invocation
    <3>2. CASE snapshot[who].plugin # None
      <4>1. taken = None /\ snapshot[who] = production /\ production # None /\ who \in Checkout
        BY <2>3 DEF UninstallProduction, Typed, TypeOK, Working
      <4> QED BY <2>3, <3>2, <4>1 DEF UninstallProduction, Native, Takes, profile, invocation
    <3> QED BY <3>1, <3>2
  <2>4. CASE RemoveProductionMarket
    <3>1. snapshot[who] # None /\ who \in Checkout /\ pc = "unmarket"
      BY <2>4 DEF RemoveProductionMarket, Typed, TypeOK, Working
    <3> QED BY <2>4, <3>1 DEF RemoveProductionMarket, Native, Takes, profile, invocation
  <2>5. CASE AddDevelopmentMarket
    BY <2>5 DEF AddDevelopmentMarket, Native, Develops, profile, invocation
  <2>6. CASE InstallDevelopment
    BY <2>6 DEF InstallDevelopment, Native, Develops, profile, invocation
  <2>7. CASE EnableDevelopment
    BY <2>7 DEF EnableDevelopment, Native, Develops, profile, invocation
  <2>8. CASE VerifyDevelopment
    BY <2>8 DEF VerifyDevelopment, profile, invocation
  <2> QED BY <1>5, <2>1, <2>2, <2>3, <2>4, <2>5, <2>6, <2>7, <2>8 DEF Install
<1>6. CASE Restore
  <2> USE DEF Skip, Restores, Native
  <2>1. CASE RestorePresent \/ VerifyRestored \/ StopRestoring \/ CheckVersion
    BY <2>1 DEF RestorePresent, VerifyRestored, StopRestoring, CheckVersion, profile, invocation
  <2>2. CASE UninstallDevelopment \/ RemoveDevelopmentMarket
    BY <2>2 DEF UninstallDevelopment, RemoveDevelopmentMarket, Develops, profile, invocation
  <2>3. CASE RestoreMarket
    BY <2>3 DEF RestoreMarket, Gives, profile, invocation
  <2>4. CASE RestorePlugin
    BY <2>4 DEF RestorePlugin, Gives, profile, invocation
  <2>5. CASE RestoreEnabled
    BY <2>5 DEF RestoreEnabled, Gives, profile, invocation
  <2> QED BY <1>6, <2>1, <2>2, <2>3, <2>4, <2>5 DEF Restore
<1> QED BY <1>1, <1>2, <1>3, <1>4, <1>5, <1>6 DEF Next

\* Whatever is killed or fails and wherever, what an install took from production
\* and nothing has put back is in a checkout's snapshot, so that `restore --apply`
\* can put it back (installPreviewNextAction), unless somebody installed over an
\* unfinished install.
THEOREM NothingLost == Spec /\ "again" \notin Faults => []TakenIsCaptured
<1>1. Init => Typed /\ Captured
  BY InitTyped, InitCaptured
<1>2. Typed /\ Captured /\ "again" \notin Faults /\ [Next]_vars => (Typed /\ Captured)'
  BY NextTyped, NextCaptured
<1>3. Captured => TakenIsCaptured
  BY DEF Captured
<1>4. CASE "again" \notin Faults
  <2>1. Typed /\ Captured /\ [Next]_vars => (Typed /\ Captured)'
    BY <1>2, <1>4
  <2> QED BY <1>1, <2>1, <1>3, PTL DEF Spec
<1>5. CASE "again" \in Faults
  BY <1>5
<1> QED BY <1>4, <1>5

-----------------------------------------------------------------------------
(* Checkouts do not disturb each other.                                      *)

\* An install under way finds nothing developed, and then develops its own.
Placed ==
  /\ pc \in {"unplug", "unmarket", "link"} => development.market = None
  /\ pc \in {"plugin", "enable", "verify"} => development.market = who

\* The step that OthersKept asks of every step.
KeepsOthers ==
  development.market # None /\ development' # development /\ pc # "idle"
    => who = development.market

LEMMA NextPlaced ==
  ASSUME Typed, Placed, [Next]_vars
  PROVE  Placed' /\ KeepsOthers
<1> USE DEF Placed, KeepsOthers, Goto, End, Fails, InstallPc, RestorePc
<1>1. CASE UNCHANGED vars
  BY <1>1 DEF vars, profile, invocation
<1>2. ASSUME NEW c \in Checkout, NEW o \in {"install", "restore"}, Begin(c, o)
      PROVE  Placed' /\ KeepsOthers
  BY <1>2 DEF Begin, profile
<1>3. CASE Unreadable \/ Refuse \/ Crash \/ Move
  BY <1>3 DEF Unreadable, Refuse, Crash, Move, profile, invocation
<1>4. CASE People
  BY <1>4 DEF People, PeopleInstall, PayloadGrows, ClearCache, invocation
<1>5. CASE Install
  <2>1. CASE InstallPresent
    <3>1. development.market = who
      BY <2>1 DEF InstallPresent, Coherent, Owned, Paired, Whole
    <3> QED BY <2>1, <3>1 DEF InstallPresent, profile, invocation
  <2>2. CASE Capture
    BY <2>2 DEF Capture, Coherent, profile, invocation
  <2>3. CASE UninstallProduction \/ RemoveProductionMarket
    BY <2>3 DEF UninstallProduction, RemoveProductionMarket, Native, Takes, profile, invocation
  <2>4. CASE AddDevelopmentMarket
    BY <2>4 DEF AddDevelopmentMarket, Native, Develops, profile, invocation
  <2>5. CASE InstallDevelopment
    BY <2>5 DEF InstallDevelopment, Native, Develops, With, profile, invocation
  <2>6. CASE EnableDevelopment
    BY <2>6 DEF EnableDevelopment, Native, Develops, With, profile, invocation
  <2>7. CASE VerifyDevelopment
    BY <2>7 DEF VerifyDevelopment, profile, invocation
  <2> QED BY <1>5, <2>1, <2>2, <2>3, <2>4, <2>5, <2>6, <2>7 DEF Install
<1>6. CASE Restore
  <2> USE DEF Skip, Native
  <2>1. CASE RestorePresent \/ VerifyRestored \/ StopRestoring \/ CheckVersion
    BY <2>1 DEF RestorePresent, VerifyRestored, StopRestoring, CheckVersion, Restores,
                profile, invocation
  <2>2. CASE UninstallDevelopment \/ RemoveDevelopmentMarket
    BY <2>2 DEF UninstallDevelopment, RemoveDevelopmentMarket, Restores, Recoverable, Owned,
                Develops, profile, invocation
  <2>3. CASE RestoreMarket \/ RestorePlugin \/ RestoreEnabled
    BY <2>3 DEF RestoreMarket, RestorePlugin, RestoreEnabled, Restores, Gives,
                profile, invocation
  <2> QED BY <1>6, <2>1, <2>2, <2>3 DEF Restore
<1> QED BY <1>1, <1>2, <1>3, <1>4, <1>5, <1>6 DEF Next

\* However many checkouts share a profile and whatever dies in between, an install
\* or a restore of one of them never touches what another has installed
\* (DEVELOPMENT_MARKETPLACE_MISMATCH in inspectState).
THEOREM OthersUndisturbed == Spec => OthersKept
<1>1. Init => Typed /\ Placed
  BY InitTyped DEF Init, Placed
<1>2. Typed /\ Placed /\ [Next]_vars => (Typed /\ Placed)'
  BY NextTyped, NextPlaced
<1>3. Typed /\ Placed /\ [Next]_vars => [KeepsOthers]_vars
  BY NextPlaced
<1>4. [][KeepsOthers]_vars <=> OthersKept
  BY DEF OthersKept, KeepsOthers
<1> QED BY <1>1, <1>2, <1>3, <1>4, PTL DEF Spec

-----------------------------------------------------------------------------
(* A restoration that is not disturbed gets there.                           *)

\* How far a restoration has come at each of its steps; an install has its own.
Progress ==
  /\ pc = "undevmarket" => development.plugin = None
  /\ pc \in {"remarket", "replug", "reversion", "reenable", "reverify"} => development = Absent
  /\ pc \in {"replug", "reversion", "reenable"} => production.market = snapshot[who].market
  /\ pc = "reenable" =>
       /\ snapshot[who].plugin = None => production.plugin = None
       /\ snapshot[who].plugin # None => production.plugin.version = snapshot[who].plugin.version
  /\ pc = "reverify" => production = snapshot[who]
  /\ pc \in InstallPc => op = "install"
  /\ taken # None => production # taken

Known == Typed /\ Captured /\ Progress

\* Records with the same fields are the same.
LEMMA SameProduction ==
  ASSUME NEW s \in Production, NEW t \in Production, s.market = t.market, s.plugin = t.plugin
  PROVE  s = t
  BY DEF Production

LEMMA SamePlugin ==
  ASSUME NEW s \in Plugin, NEW t \in Plugin, s.version = t.version, s.enabled = t.enabled
  PROVE  s = t
  BY DEF Plugin

LEMMA NextProgress ==
  ASSUME Known, [Next]_vars, "again" \notin Faults
  PROVE  Progress'
<1> USE DEF Progress, Goto, End, Fails, InstallPc, RestorePc
<1> USE DEF Known
<1>1. CASE UNCHANGED vars
  BY <1>1 DEF vars, profile, invocation
<1>2. ASSUME NEW c \in Checkout, NEW o \in {"install", "restore"}, Begin(c, o)
      PROVE  Progress'
  BY <1>2 DEF Begin, profile
<1>3. CASE Unreadable \/ Refuse \/ Crash \/ Move
  BY <1>3 DEF Unreadable, Refuse, Crash, Move, profile, invocation
<1>4. CASE People
  BY <1>4 DEF People, PeopleInstall, PayloadGrows, ClearCache, invocation
<1>5. CASE Install
  <2>1. CASE InstallPresent \/ Capture \/ VerifyDevelopment
    BY <2>1 DEF InstallPresent, Capture, VerifyDevelopment, profile, invocation
  <2>2. CASE UninstallProduction
    <3>1. CASE snapshot[who].plugin = None
      BY <2>2, <3>1 DEF UninstallProduction, profile, invocation
    <3>2. CASE snapshot[who].plugin # None
      <4>1. taken = None /\ snapshot[who] = production
        BY <2>2 DEF UninstallProduction, Captured
      <4>2. With(production, None).plugin = None
        BY DEF With
      <4> QED BY <2>2, <3>2, <4>1, <4>2 DEF UninstallProduction, Native, Takes, profile, invocation
    <3> QED BY <3>1, <3>2
  <2>3. CASE RemoveProductionMarket
    <3>1. \/ taken = None /\ snapshot[who] = production
          \/ taken # None /\ taken = snapshot[who]
      BY <2>3 DEF RemoveProductionMarket, Captured
    <3>2. Absent.market = None
      BY DEF Absent
    <3> QED BY <2>3, <3>1, <3>2 DEF RemoveProductionMarket, Native, Takes, profile, invocation
  <2>4. CASE AddDevelopmentMarket \/ InstallDevelopment \/ EnableDevelopment
    BY <2>4 DEF AddDevelopmentMarket, InstallDevelopment, EnableDevelopment, Native, Develops,
                profile, invocation
  <2> QED BY <1>5, <2>1, <2>2, <2>3, <2>4 DEF Install
<1>6. CASE Restore
  <2> USE DEF Skip, Native, Restores
  <2>1. CASE RestorePresent \/ VerifyRestored \/ StopRestoring
    BY <2>1 DEF RestorePresent, VerifyRestored, StopRestoring, profile, invocation
  <2>2. CASE UninstallDevelopment
    <3>1. With(development, None).plugin = None
      BY DEF With
    <3> QED BY <2>2, <3>1 DEF UninstallDevelopment, Develops, profile, invocation
  <2>3. CASE RemoveDevelopmentMarket
    <3>1. development.market = None => development = Absent
      BY <2>3 DEF RemoveDevelopmentMarket, Typed, TypeOK, Development, Absent
    <3> QED BY <2>3, <3>1 DEF RemoveDevelopmentMarket, Develops, profile, invocation
  <2>4. CASE RestoreMarket
    BY <2>4 DEF RestoreMarket, Gives, profile, invocation
  <2>5. CASE RestorePlugin
    <3>1. pc = "replug" /\ ~PluginConflicts
      BY <2>5 DEF RestorePlugin
    <3>2. CASE snapshot[who].plugin = None \/ production.plugin # None
      BY <2>5, <3>1, <3>2 DEF RestorePlugin, PluginConflicts, profile, invocation
    <3>3. CASE ~(snapshot[who].plugin = None \/ production.plugin # None)
      <4>1. PICK e \in BOOLEAN :
              Native(Gives(With(production, [version |-> offered, enabled |-> e])), "reversion")
        BY <2>5, <3>3 DEF RestorePlugin
      <4> DEFINE s == With(production, [version |-> offered, enabled |-> e])
      <4>2. s.market = production.market
        BY DEF With
      <4> HIDE DEF s
      <4>3. Native(Gives(s), "reversion")
        BY <4>1 DEF s
      <4> QED BY <3>1, <4>2, <4>3 DEF Gives, profile, invocation
    <3> QED BY <3>2, <3>3
  <2>6. CASE CheckVersion
    BY <2>6 DEF CheckVersion, Typed, Working, profile, invocation
  <2>7. CASE RestoreEnabled
    <3>1. /\ production \in Production /\ snapshot[who] \in Production
          /\ pc = "reenable" /\ production.market = snapshot[who].market
      BY <2>7 DEF RestoreEnabled, Typed, TypeOK, Working
    <3>2. CASE snapshot[who].plugin = None \/ production.plugin = snapshot[who].plugin
      <4>1. production.plugin = snapshot[who].plugin
        BY <3>1, <3>2
      <4>2. production = snapshot[who]
        BY <3>1, <4>1, SameProduction
      <4> QED BY <2>7, <3>1, <3>2, <4>2 DEF RestoreEnabled, profile, invocation
    <3>3. CASE ~(snapshot[who].plugin = None \/ production.plugin = snapshot[who].plugin)
      <4> DEFINE q == [version |-> production.plugin.version,
                       enabled |-> snapshot[who].plugin.enabled]
                 s == With(production, q)
      <4>1. production.plugin \in Plugin /\ snapshot[who].plugin \in Plugin
        BY <3>1, <3>3 DEF Typed, Working, Production
      <4>2. q \in Plugin /\ q.version = snapshot[who].plugin.version
            /\ q.enabled = snapshot[who].plugin.enabled
        BY <3>1, <3>3, <4>1 DEF Plugin
      <4> HIDE DEF q
      <4>3. q = snapshot[who].plugin
        BY <4>1, <4>2, SamePlugin
      <4>4. s = snapshot[who]
        BY <3>1, <4>3 DEF With, Production
      <4>5. Native(Gives(s), "reverify")
        BY <2>7, <3>3 DEF RestoreEnabled, q
      <4> HIDE DEF s
      <4> QED BY <3>1, <4>4, <4>5 DEF Gives, profile, invocation
    <3> QED BY <3>2, <3>3
  <2> QED BY <1>6, <2>1, <2>2, <2>3, <2>4, <2>5, <2>6, <2>7 DEF Restore
<1> QED BY <1>1, <1>2, <1>3, <1>4, <1>5, <1>6 DEF Next

\* The step that RestoreRecovers asks of every step.
Recovers == pc # "idle" => ~Unrecovered'

LEMMA NextRecovers ==
  ASSUME Known, [Next]_vars, "again" \notin Faults
  PROVE  [Recovers]_vars
<1> SUFFICES ASSUME Next, pc # "idle", Unrecovered'
             PROVE  FALSE
  BY DEF Recovers
<1>0. /\ pc' = "idle" /\ op' = "restore" /\ out' # "killed" /\ ~disturbed'
      /\ taken' # None /\ (snapshot[who] = taken)' /\ Owned(who)' /\ ~Superseded(taken)'
  BY DEF Unrecovered
<1> USE DEF Goto, End, Fails, InstallPc, RestorePc
<1>1. ASSUME NEW c \in Checkout, NEW o \in {"install", "restore"}, Begin(c, o)
      PROVE  FALSE
  BY <1>1, <1>0 DEF Begin
<1>2. CASE Unreadable \/ Crash \/ Move
  BY <1>2, <1>0 DEF Unreadable, Crash, Move, profile, invocation
<1>3. CASE Refuse
  BY <1>3, <1>0 DEF Refuse, Recoverable, Owned, profile, invocation, Known, Typed, TypeOK
<1>4. CASE People
  BY <1>4 DEF People, PeopleInstall, PayloadGrows, ClearCache
<1>5. CASE Install
  <2>1. CASE InstallPresent \/ Capture \/ VerifyDevelopment
    BY <2>1, <1>0 DEF InstallPresent, Capture, VerifyDevelopment, invocation, Known, Progress
  <2>2. CASE UninstallProduction \/ RemoveProductionMarket
    BY <2>2, <1>0 DEF UninstallProduction, RemoveProductionMarket, Native, invocation
  <2>3. CASE AddDevelopmentMarket \/ InstallDevelopment \/ EnableDevelopment
    BY <2>3, <1>0 DEF AddDevelopmentMarket, InstallDevelopment, EnableDevelopment, Native,
         invocation
  <2> QED BY <1>5, <2>1, <2>2, <2>3 DEF Install
<1>6. CASE Restore
  <2>1. CASE RestorePresent
    BY <2>1, <1>0 DEF RestorePresent, profile, invocation, Known, Progress
  <2>2. CASE UninstallDevelopment \/ RemoveDevelopmentMarket \/ RestoreMarket
    BY <2>2, <1>0 DEF UninstallDevelopment, RemoveDevelopmentMarket, RestoreMarket, Skip, Native,
         Restores
  <2>3. CASE RestorePlugin \/ CheckVersion \/ RestoreEnabled
    BY <2>3, <1>0 DEF RestorePlugin, CheckVersion, RestoreEnabled, Skip, Native, Restores
  <2>4. CASE VerifyRestored
    BY <2>4, <1>0 DEF VerifyRestored, profile, invocation, Known, Progress
  <2>5. CASE StopRestoring
    <3>1. Recoverable(who) /\ UNCHANGED <<profile, offered, snapshot, invocation>>
      BY <2>5, <1>0 DEF StopRestoring, Recoverable, Owned, profile, invocation,
           Known, Typed, TypeOK
    <3>2. ~Superseded(snapshot[who]) /\ snapshot[who] # None
      BY <3>1, <1>0 DEF Superseded, profile, invocation
    <3>3. CASE pc = "remarket" /\ MarketConflicts
      BY <3>2, <3>3 DEF MarketConflicts, Superseded
    <3>4. CASE pc = "replug" /\ PluginConflicts
      BY <3>2, <3>4 DEF PluginConflicts, Superseded
    <3>5. CASE pc = "reversion" /\ production.plugin.version # snapshot[who].plugin.version
      BY <3>2, <3>5 DEF Superseded, Known, Typed, Working
    <3>6. CASE pc = "reverify" /\ (development # Absent \/ production # snapshot[who])
      BY <3>6 DEF Known, Progress
    <3> QED BY <2>5, <3>1, <3>3, <3>4, <3>5, <3>6 DEF StopRestoring
  <2> QED BY <1>6, <2>1, <2>2, <2>3, <2>4, <2>5 DEF Restore
<1> QED BY <1>1, <1>2, <1>3, <1>4, <1>5, <1>6 DEF Next

\* Whatever an install or a restoration died of and wherever, a restore from the
\* checkout whose snapshot has what was taken, if nothing fails while it runs,
\* puts exactly that back, unless it is superseded (restoreFromSnapshot).
THEOREM RestoreBringsBack == Spec /\ "again" \notin Faults => RestoreRecovers
<1>1. Init => Known
  BY InitTyped, InitCaptured DEF Init, Known, Progress, InstallPc
<1>2. CASE "again" \notin Faults
  <2>1. Known /\ [Next]_vars => Known'
    BY <1>2, NextTyped, NextCaptured, NextProgress DEF Known
  <2>2. Known /\ [Next]_vars => [Recovers]_vars
    BY <1>2, NextRecovers
  <2>3. [][Recovers]_vars <=> RestoreRecovers
    BY DEF RestoreRecovers, Recovers
  <2> QED BY <1>1, <2>1, <2>2, <2>3, PTL DEF Spec
<1>3. CASE "again" \in Faults
  BY <1>3
<1> QED BY <1>2, <1>3
=============================================================================
