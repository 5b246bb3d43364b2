----------------------------- MODULE CodexProofs -----------------------------
(***************************************************************************)
(* Theorems about the two installers of the Codex plugin: CodexUpdate, for *)
(* every set of tags and contents, and CodexInstallation, for any number of*)
(* checkouts that share one profile.                                       *)
(***************************************************************************)
EXTENDS CodexUpdate, CodexInstallation, TLAPS

USE HomeAssumption

\* What an update has found out by each of its steps.
Found ==
  /\ step \notin {"idle", "target"} => target # Gone
  /\ step \notin {"idle", "target", "restoration"} => restoration # Gone
  /\ step = "plug" \/ step = "replug" => market # Gone

\* What it knows of the profile: the captured installation was enabled, is the
\* prior Release's from its proof on, and is there when the removals begin.
KnownOfProfile ==
  /\ step # "idle" => captured.plugin.enabled = TRUE
  /\ step \in PreflightStep /\ ~touched => market = captured.market /\ plugin = captured.plugin
  /\ step \in {"bound", "revalidate"} \cup Mutating => captured.plugin = CopyOf(restoration)
  /\ step \in {"payload", "bound", "revalidate"} \cup Mutating /\ ~moved =>
       restoration = remote[captured.market.tag]
  /\ step = "unplug" => plugin = captured.plugin

\* How far a recovery in which nothing failed has come.
Recovering ==
  /\ step = "readd" /\ ~spoiled => market = Gone
  /\ step \in {"replug", "reverify"} /\ ~spoiled /\ ~moved => market = restoration
  /\ step = "reverify" /\ ~spoiled /\ ~moved => plugin = CopyOf(restoration)

Inductive == UpdateTypeOK /\ Found /\ KnownOfProfile /\ Recovering /\ UpdateHonest /\ RestorationExact

-----------------------------------------------------------------------------
(* Records.                                                                  *)

LEMMA CopyType ==
  ASSUME NEW c \in Commit
  PROVE  /\ CopyOf(c) \in Installed
         /\ CopyOf(c).tag = c.tag /\ CopyOf(c).bytes = c.bytes /\ CopyOf(c).enabled = TRUE
  BY DEF CopyOf, Commit, Installed

LEMMA CopiesType ==
  ASSUME NEW c \in Commit
  PROVE  Copies(c) \subseteq Installed
<1>1. CopyOf(c) \in Installed
  BY CopyType
<1>2. ASSUME NEW b \in Content
      PROVE  [tag |-> c.tag, bytes |-> b, enabled |-> TRUE] \in Installed
  BY DEF Commit, Installed
<1> QED BY <1>1, <1>2 DEF Copies

LEMMA OfferedType ==
  ASSUME remote \in Remote, NEW t \in Tag
  PROVE  Offered(t) \subseteq Commit
  BY DEF Offered, Remote

\* An installation with the fields of a copy is one.
LEMMA SameCopy ==
  ASSUME NEW p \in Installed, NEW c \in Commit,
         p.tag = c.tag, p.bytes = c.bytes, p.enabled = TRUE
  PROVE  p = CopyOf(c)
  BY DEF CopyOf, Commit, Installed

LEMMA NowIs ==
  ASSUME market \in Commit \cup {Gone}, plugin \in Installed \cup {Gone}
  PROVE  /\ Now \in Home /\ Now.market = market /\ Now.plugin = plugin
  BY DEF Now, Home

LEMMA SameHome ==
  ASSUME NEW h \in Home, NEW g \in Home, h.market = g.market, h.plugin = g.plugin
  PROVE  h = g
  BY DEF Home

LEMMA InitInductive == UpdateInit => Inductive
<1> SUFFICES ASSUME UpdateInit PROVE Inductive
  OBVIOUS
<1>1. [market |-> Gone, plugin |-> Gone] \in Home
  BY DEF Home
<1> QED BY <1>1 DEF UpdateInit, Inductive, UpdateTypeOK, Found, KnownOfProfile, Recovering,
             UpdateHonest, RestorationExact, Ended, PreflightStep, Mutating,
             MutationStep, RecoveryStep

-----------------------------------------------------------------------------
(* Steps.                                                                    *)

LEMMA PreflightKept ==
  ASSUME Inductive, PreflightNext
  PROVE  Inductive'
<1> USE DEF NextStep, EndAs, Ended, PreflightStep, Mutating, MutationStep, RecoveryStep, home, preflight
<1>1. CASE Inspect
  <2>1. Now \in Home /\ Now.market = market /\ Now.plugin = plugin
    BY NowIs DEF Inductive, UpdateTypeOK
  <2>2. Inspectable => market # Gone /\ plugin # Gone /\ plugin \in Installed /\ plugin.enabled
    BY DEF Inspectable, Inductive, UpdateTypeOK
  <2>3. Inspectable => plugin.enabled = TRUE
    BY <2>2 DEF Installed
  <2> HIDE DEF Now
  <2> QED BY <1>1, <2>1, <2>2, <2>3 DEF Inspect, Inductive, UpdateTypeOK, Found, KnownOfProfile,
             Recovering,
               UpdateHonest, RestorationExact
<1>2. CASE PreflightTarget
  BY <1>2 DEF PreflightTarget, Preflight, Remote, Inductive, UpdateTypeOK, Found, KnownOfProfile,
     Recovering,
              UpdateHonest, RestorationExact
<1>3. CASE PreflightRestoration
  <2>1. captured.market \in Commit
    BY <1>3 DEF PreflightRestoration, Inductive, UpdateTypeOK, Home
  <2>2. remote[captured.market.tag] \in Commit
    BY <2>1 DEF Commit, Remote, Inductive, UpdateTypeOK
  <2> QED BY <1>3, <2>1, <2>2 DEF PreflightRestoration, Preflight, Inductive, UpdateTypeOK, Found,
               KnownOfProfile, Recovering, UpdateHonest, RestorationExact
<1>4. CASE ProvePayload
  <2>1. Proven => captured.plugin = CopyOf(restoration)
    <3> SUFFICES ASSUME Proven PROVE captured.plugin = CopyOf(restoration)
      OBVIOUS
    <3>1. captured.plugin \in Installed /\ restoration \in Commit /\ captured.plugin.enabled = TRUE
      BY <1>4 DEF ProvePayload, Inductive, UpdateTypeOK, Found, KnownOfProfile, Home
    <3>2. captured.plugin.tag = restoration.tag /\ captured.plugin.bytes = restoration.bytes
      BY DEF Proven
    <3> QED BY <3>1, <3>2, SameCopy
  <2> HIDE DEF Proven, CopyOf
  <2> QED BY <1>4, <2>1 DEF ProvePayload, Preflight, Inductive, UpdateTypeOK, Found, KnownOfProfile,
               Recovering, UpdateHonest, RestorationExact
<1>5. CASE BindTag
  <2>1. ASSUME ended' = "no_op", ~touched, ~moved, step' = "idle"
        PROVE  market = target /\ plugin = CopyOf(target)
    <3>1. captured.market = target /\ StillBound
      BY <1>5, <2>1 DEF BindTag, WouldChange, Inductive, UpdateTypeOK
    <3>2. restoration = target
      BY <1>5, <2>1, <3>1 DEF BindTag, StillBound, Inductive, KnownOfProfile
    <3> QED BY <1>5, <2>1, <3>1, <3>2 DEF BindTag, Inductive, KnownOfProfile
  <2> QED BY <1>5, <2>1 DEF BindTag, Preflight, Inductive, UpdateTypeOK, Found, KnownOfProfile,
               Recovering, UpdateHonest, RestorationExact
<1>6. CASE Revalidate
  <2>1. Now.market = market /\ Now.plugin = plugin
    BY NowIs DEF Inductive, UpdateTypeOK
  <2> HIDE DEF Now
  <2> QED BY <1>6, <2>1 DEF Revalidate, Preflight, Inductive, UpdateTypeOK, Found, KnownOfProfile,
               Recovering, UpdateHonest, RestorationExact
<1> QED BY <1>1, <1>2, <1>3, <1>4, <1>5, <1>6 DEF PreflightNext

LEMMA MutationKept ==
  ASSUME Inductive, MutationNext
  PROVE  Inductive'
<1> USE DEF NextStep, EndAs, Stumbles, Codex, Change, Ended, PreflightStep, Mutating,
            MutationStep, RecoveryStep, home, preflight
<1>1. CASE RemovePlugin
  BY <1>1 DEF RemovePlugin, Inductive, UpdateTypeOK, Found, KnownOfProfile, Recovering,
              UpdateHonest, RestorationExact
<1>2. CASE RemoveMarketplace
  BY <1>2 DEF RemoveMarketplace, Inductive, UpdateTypeOK, Found, KnownOfProfile, Recovering,
              UpdateHonest, RestorationExact
<1>3. CASE AddTarget
  <2>1. target \in Commit
    BY <1>3 DEF AddTarget, Inductive, UpdateTypeOK, Found
  <2>2. Offered(target.tag) \subseteq Commit
    BY <2>1, OfferedType DEF Commit, Inductive, UpdateTypeOK
  <2> QED BY <1>3, <2>1, <2>2 DEF AddTarget, Inductive, UpdateTypeOK, Found, KnownOfProfile,
             Recovering,
               UpdateHonest, RestorationExact
<1>4. CASE VerifySelectedMarketplace
  BY <1>4 DEF VerifySelectedMarketplace, Inductive, UpdateTypeOK, Found, KnownOfProfile, Recovering,
              UpdateHonest, RestorationExact
<1>5. CASE InstallTarget
  <2>1. Copies(market) \subseteq Installed
    BY <1>5, CopiesType DEF InstallTarget, Inductive, UpdateTypeOK, Found
  <2> QED BY <1>5, <2>1 DEF InstallTarget, Inductive, UpdateTypeOK, Found, KnownOfProfile,
             Recovering,
               UpdateHonest, RestorationExact
<1>6. CASE VerifyInstalled
  BY <1>6 DEF VerifyInstalled, IsRelease, Inductive, UpdateTypeOK, Found, KnownOfProfile,
     Recovering,
              UpdateHonest, RestorationExact
<1> QED BY <1>1, <1>2, <1>3, <1>4, <1>5, <1>6 DEF MutationNext

LEMMA RecoveryKept ==
  ASSUME Inductive, RecoveryNext
  PROVE  Inductive'
<1> USE DEF NextStep, EndAs, Stumbles, Change, Ended, PreflightStep, Mutating,
            MutationStep, RecoveryStep, home, preflight
<1>1. CASE UndoPlugin
  BY <1>1 DEF UndoPlugin, Inductive, UpdateTypeOK, Found, KnownOfProfile, Recovering,
              UpdateHonest, RestorationExact
<1>2. CASE UndoMarketplace
  BY <1>2 DEF UndoMarketplace, Inductive, UpdateTypeOK, Found, KnownOfProfile, Recovering,
              UpdateHonest, RestorationExact
<1>3. CASE ReaddPrior
  <2>1. captured.market \in Commit
    BY <1>3 DEF ReaddPrior, Inductive, UpdateTypeOK, Home
  <2>2. Offered(captured.market.tag) \subseteq Commit
    BY <2>1, OfferedType DEF Commit, Inductive, UpdateTypeOK
  <2> QED BY ZenonT(60), <1>3, <2>1, <2>2 DEF ReaddPrior, Inductive, UpdateTypeOK, Found,
             KnownOfProfile, Recovering,
               UpdateHonest, RestorationExact
<1>4. CASE ReinstallPrior
  <2>1. Copies(market) \subseteq Installed
    BY <1>4, CopiesType DEF ReinstallPrior, Inductive, UpdateTypeOK, Found
  <2> QED BY <1>4, <2>1 DEF ReinstallPrior, Inductive, UpdateTypeOK, Found, KnownOfProfile,
             Recovering,
               UpdateHonest, RestorationExact
<1>5. CASE VerifyPrior
  <2>1. ASSUME market = captured.market, plugin = captured.plugin
        PROVE  Now = captured
    BY <2>1, NowIs, SameHome DEF Inductive, UpdateTypeOK
  <2>2. ASSUME ~spoiled, ~moved, restoration = captured.market
        PROVE  IsRelease(restoration) /\ IsExact
    BY <1>5, <2>1, <2>2 DEF VerifyPrior, IsRelease, IsExact, Inductive, KnownOfProfile, Recovering
  <2> HIDE DEF IsRelease
  <2> QED BY <1>5, <2>2 DEF VerifyPrior, IsExact, Now, Inductive, UpdateTypeOK, Found,
             KnownOfProfile,
               Recovering, UpdateHonest, RestorationExact
<1> QED BY <1>1, <1>2, <1>3, <1>4, <1>5 DEF RecoveryNext

LEMMA WorldKept ==
  ASSUME Inductive, WorldNext
  PROVE  Inductive'
<1> USE DEF NextStep, EndAs, Stumbles, Ended, PreflightStep, Mutating,
            MutationStep, RecoveryStep, home, preflight
<1>1. [market |-> Gone, plugin |-> Gone] \in Home
  BY DEF Home
<1>2. CASE SomebodyChanges
  BY <1>1, <1>2 DEF SomebodyChanges, Forgets, Inductive, UpdateTypeOK, Found, KnownOfProfile,
     Recovering,
              UpdateHonest, RestorationExact
<1>3. CASE TagMoves
  <2>1. remote' \in Remote
    BY <1>3 DEF TagMoves, Commit, Remote, Inductive, UpdateTypeOK
  <2> QED BY <1>1, <1>3, <2>1 DEF TagMoves, Forgets, Inductive, UpdateTypeOK, Found, KnownOfProfile,
               Recovering, UpdateHonest, RestorationExact
<1>4. CASE Killed
  BY <1>4 DEF Killed, Inductive, UpdateTypeOK, Found, KnownOfProfile, Recovering,
              UpdateHonest, RestorationExact
<1>5. CASE StepFails
  <2>1. /\ UNCHANGED <<remote, home, preflight, moved, touched>>
        /\ step \in PreflightStep \cup MutationStep \cup RecoveryStep
        /\ Stumbles
    BY <1>5 DEF StepFails
  <2>2. CASE step \in PreflightStep
    BY <2>1, <2>2 DEF Inductive, UpdateTypeOK, Found, KnownOfProfile, Recovering,
                UpdateHonest, RestorationExact
  <2>3. CASE step \in MutationStep
    BY <2>1, <2>3 DEF Inductive, UpdateTypeOK, Found, KnownOfProfile, Recovering,
                UpdateHonest, RestorationExact
  <2>4. CASE step \in RecoveryStep
    BY <2>1, <2>4 DEF Inductive, UpdateTypeOK, Found, KnownOfProfile, Recovering,
                UpdateHonest, RestorationExact
  <2> QED BY <2>1, <2>2, <2>3, <2>4
<1> QED BY <1>2, <1>3, <1>4, <1>5 DEF WorldNext

LEMMA StepKept == Inductive /\ [UpdateNext]_updateVars => Inductive'
<1> SUFFICES ASSUME Inductive, [UpdateNext]_updateVars PROVE Inductive'
  OBVIOUS
<1>1. CASE UpdateNext
  BY <1>1, PreflightKept, MutationKept, RecoveryKept, WorldKept DEF UpdateNext
<1>2. CASE UNCHANGED updateVars
  BY <1>2 DEF updateVars, home, preflight, Inductive, UpdateTypeOK, Found, KnownOfProfile,
     Recovering,
              UpdateHonest, RestorationExact, Now
<1> QED BY <1>1, <1>2

\* The inductive invariant.
THEOREM UpdateInductive == UpdateSpec => []Inductive
  BY InitInductive, StepKept, PTL DEF UpdateSpec

-----------------------------------------------------------------------------
(* What follows.                                                             *)

\* UpdateTypeOK: the type of every variable.
THEOREM UpdateTypeCorrect == UpdateSpec => []UpdateTypeOK
<1>1. Inductive => UpdateTypeOK
  BY DEF Inductive
<1> QED BY <1>1, UpdateInductive, PTL

\* UpdateHonest: what an update reports about the profile is so.
THEOREM ReportsTruly == UpdateSpec => []UpdateHonest
<1>1. Inductive => UpdateHonest
  BY DEF Inductive
<1> QED BY <1>1, UpdateInductive, PTL

\* RestorationExact: an update that failed brings the prior profile back exactly,
\* unless its recovery failed too or the prior tag names another commit.
THEOREM RestoresExactly == UpdateSpec => []RestorationExact
<1>1. Inductive => RestorationExact
  BY DEF Inductive
<1> QED BY <1>1, UpdateInductive, PTL

\* The step that RemovesOnlyProven asks of every step.
RemovesProven == step = "unplug" /\ plugin' # plugin => plugin = CopyOf(restoration)

\* RemovesOnlyProven: what is removed was proved to come back with its tag.
THEOREM RemovalProven == UpdateSpec => RemovesOnlyProven
<1>1. Inductive /\ [UpdateNext]_updateVars => [RemovesProven]_updateVars
  BY DEF Inductive, KnownOfProfile, RemovesProven, Mutating, MutationStep
<1>2. [][RemovesProven]_updateVars <=> RemovesOnlyProven
  BY DEF RemovesOnlyProven, RemovesProven
<1> QED BY <1>1, <1>2, UpdateInductive, PTL DEF UpdateSpec

-----------------------------------------------------------------------------
DevOutcome == {"none", "previewed", "no_op", "blocked", "installed", "unknown"}
Quiet == {"previewed", "no_op", "blocked"}

-----------------------------------------------------------------------------
(* Functions with one value replaced.                                      *)

LEMMA BooleanReplaced ==
  ASSUME NEW f \in [Worktree -> BOOLEAN], NEW c \in Worktree, NEW b \in BOOLEAN
  PROVE  /\ [f EXCEPT ![c] = b] \in [Worktree -> BOOLEAN]
         /\ [f EXCEPT ![c] = b][c] = b
         /\ \A d \in Worktree \ {c} : [f EXCEPT ![c] = b][d] = f[d]
BY Zenon

LEMMA Replaced ==
  ASSUME NEW T, NEW f \in [Worktree -> T], NEW c \in Worktree, NEW b \in T
  PROVE  /\ [f EXCEPT ![c] = b] \in [Worktree -> T]
         /\ [f EXCEPT ![c] = b][c] = b
         /\ \A d \in Worktree \ {c} : [f EXCEPT ![c] = b][d] = f[d]
OBVIOUS

\* What happens to an invocation that ends, and to the others.
LEMMA Ends ==
  ASSUME DevTypeOK, NEW c \in Worktree, NEW o \in DevOutcome, DevEnd(c, o)
  PROVE  /\ devAt' \in [Worktree -> DevStep] /\ devAt'[c] = "idle"
         /\ devOut' \in [Worktree -> DevOutcome] /\ devOut'[c] = o
         /\ apply' \in [Worktree -> BOOLEAN]
         /\ seen' \in [Worktree -> Worktree \cup {Nil}]
         /\ plan' \in [Worktree -> SUBSET Operation]
         /\ \A d \in Worktree \ {c} :
              /\ devAt'[d] = devAt[d] /\ devOut'[d] = devOut[d] /\ apply'[d] = apply[d]
              /\ plan'[d] = plan[d]
<1>1. devAt \in [Worktree -> DevStep] /\ "idle" \in DevStep
      /\ devOut \in [Worktree -> DevOutcome] /\ apply \in [Worktree -> BOOLEAN]
      /\ seen \in [Worktree -> Worktree \cup {Nil}] /\ plan \in [Worktree -> SUBSET Operation]
  BY DEF DevTypeOK, DevStep, DevOutcome
<1>2. /\ devAt' = [devAt EXCEPT ![c] = "idle"] /\ devOut' = [devOut EXCEPT ![c] = o]
      /\ apply' = [apply EXCEPT ![c] = FALSE] /\ seen' = [seen EXCEPT ![c] = Nil]
      /\ plan' = [plan EXCEPT ![c] = {}]
  BY DEF DevEnd
<1>3. apply' \in [Worktree -> BOOLEAN] /\ \A d \in Worktree \ {c} : apply'[d] = apply[d]
  BY <1>1, <1>2, BooleanReplaced
<1> QED BY <1>1, <1>2, <1>3

LEMMA Goes ==
  ASSUME DevTypeOK, NEW c \in Worktree, NEW l \in DevStep, devAt' = [devAt EXCEPT ![c] = l]
  PROVE  /\ devAt' \in [Worktree -> DevStep] /\ devAt'[c] = l
         /\ \A d \in Worktree \ {c} : devAt'[d] = devAt[d]
BY DEF DevTypeOK

-----------------------------------------------------------------------------
(* The invariant.                                                          *)

\* From its staging on, an invocation has something staged; while it executes a plan,
\* that plan and what is staged are what was approved; and before that it has had no
\* effect.
InvocationAt(c) ==
  /\ devAt[c] \notin {"idle", "stage"} => staged[c] \in Bytes
  /\ devAt[c] \in Executing => apply[c] /\ approved[c] = [bytes |-> staged[c], plan |-> plan[c]]
  /\ devAt[c] \in {"stage", "markets", "plugins"} => ~effect[c]
  /\ devAt[c] = "idle" /\ devOut[c] \in Quiet => ~effect[c]

DevInv == DevTypeOK /\ \A c \in Worktree : InvocationAt(c)

\* The step of one invocation leaves the others where they are.
LEMMA OthersAt ==
  ASSUME DevInv, NEW d \in Worktree,
         devAt'[d] = devAt[d], devOut'[d] = devOut[d], apply'[d] = apply[d],
         approved'[d] = approved[d], plan'[d] = plan[d], staged'[d] = staged[d],
         effect'[d] = effect[d]
  PROVE  InvocationAt(d)'
BY DEF DevInv, InvocationAt

\* An invocation that ends without having had an effect, or saying that it may have.
LEMMA EndInv ==
  ASSUME DevInv, NEW c \in Worktree, NEW o \in DevOutcome, DevEnd(c, o),
         o \in Quiet => ~effect'[c],
         effect' \in [Worktree -> BOOLEAN], \A d \in Worktree \ {c} : effect'[d] = effect[d],
         staged' \in [Worktree -> Bytes \cup {Nil}],
         \A d \in Worktree \ {c} : staged'[d] = staged[d],
         approved' \in [Worktree -> Candidate \cup {Nil}],
         \A d \in Worktree \ {c} : approved'[d] = approved[d],
         root' \in Worktree \cup {Nil}, plug' \in Plug \cup {Nil}, old' \in BOOLEAN
  PROVE  DevInv'
<1>1. InvocationAt(c)'
  BY Ends DEF InvocationAt, DevInv, Executing
<1>2. \A d \in Worktree \ {c} : InvocationAt(d)'
  BY Ends, OthersAt DEF DevInv
<1>3. DevTypeOK'
  BY Ends DEF DevInv, DevTypeOK, DevOutcome
<1> QED BY <1>1, <1>2, <1>3 DEF DevInv

LEMMA BeginInv == ASSUME DevInv, NEW c \in Worktree, DevBegin(c) PROVE DevInv'
<1>1. PICK a \in BOOLEAN : apply' = [apply EXCEPT ![c] = a]
  BY DEF DevBegin
<1>2. apply' \in [Worktree -> BOOLEAN] /\ \A d \in Worktree \ {c} : apply'[d] = apply[d]
  BY <1>1, BooleanReplaced DEF DevInv, DevTypeOK
<1>3. effect' \in [Worktree -> BOOLEAN] /\ effect'[c] = FALSE
      /\ \A d \in Worktree \ {c} : effect'[d] = effect[d]
  BY BooleanReplaced DEF DevInv, DevTypeOK, DevBegin
<1>4. devAt' \in [Worktree -> DevStep] /\ devAt'[c] = "stage"
      /\ \A d \in Worktree \ {c} : devAt'[d] = devAt[d]
  BY Goes DEF DevInv, DevBegin, DevStep
<1>5. devOut' \in [Worktree -> DevOutcome] /\ \A d \in Worktree \ {c} : devOut'[d] = devOut[d]
  BY DEF DevInv, DevTypeOK, DevBegin, DevOutcome
<1>6. UNCHANGED <<staged, root, plug, old, approved, seen, plan>>
  BY DEF DevBegin, devProfile
<1>7. InvocationAt(c)'
  BY <1>3, <1>4 DEF InvocationAt, Executing
<1>8. \A d \in Worktree \ {c} : InvocationAt(d)'
  BY <1>2, <1>3, <1>4, <1>5, <1>6, OthersAt
<1> QED BY <1>2, <1>3, <1>4, <1>5, <1>6, <1>7, <1>8 DEF DevInv, DevTypeOK, DevOutcome

LEMMA StageInv == ASSUME DevInv, NEW c \in Worktree, Stage(c) PROVE DevInv'
<1>1. UNCHANGED <<root, plug, old, approved, effect>> /\ devAt[c] = "stage"
  BY DEF Stage, devProfile
<1>2. CASE (\E x \in Bytes : staged' = [staged EXCEPT ![c] = x]) /\ DevGoto(c, "markets")
  <2>1. /\ staged' \in [Worktree -> Bytes \cup {Nil}] /\ staged'[c] \in Bytes
        /\ \A d \in Worktree \ {c} : staged'[d] = staged[d]
    BY <1>2 DEF DevInv, DevTypeOK
  <2>2. /\ devAt' \in [Worktree -> DevStep] /\ devAt'[c] = "markets"
        /\ \A d \in Worktree \ {c} : devAt'[d] = devAt[d]
    BY <1>2, Goes DEF DevInv, DevGoto, DevStep
  <2>3. UNCHANGED <<devOut, apply, seen, plan>>
    BY <1>2 DEF DevGoto
  <2>4. InvocationAt(c)'
    BY <1>1, <2>1, <2>2 DEF DevInv, InvocationAt, Executing
  <2>5. \A d \in Worktree \ {c} : InvocationAt(d)'
    BY <1>1, <2>1, <2>2, <2>3, OthersAt
  <2> QED BY <1>1, <2>1, <2>2, <2>3, <2>4, <2>5 DEF DevInv, DevTypeOK
<1>3. CASE staged' \in {staged, [staged EXCEPT ![c] = Nil]} /\ Blocked(c)
  <2>1. /\ staged' \in [Worktree -> Bytes \cup {Nil}]
        /\ \A d \in Worktree \ {c} : staged'[d] = staged[d]
    BY <1>3 DEF DevInv, DevTypeOK
  <2>2. "blocked" \in DevOutcome /\ DevEnd(c, "blocked") /\ ~effect'[c]
    BY <1>1, <1>3 DEF Blocked, DevOutcome, DevInv, InvocationAt
  <2> QED BY <1>1, <2>1, <2>2, EndInv DEF DevInv, DevTypeOK
<1> QED BY <1>2, <1>3 DEF Stage

LEMMA ReadInv ==
  ASSUME DevInv, NEW c \in Worktree, NEW now, NEW then, ReadMarkets(c, now, then),
         \/ now = "markets" /\ then = "plugins"
         \/ now = "remarkets" /\ then = "replugins"
  PROVE  DevInv'
<1>1. (now = "markets" /\ then = "plugins") \/ (now = "remarkets" /\ then = "replugins")
  OBVIOUS
<1>2. /\ devAt[c] = now /\ devAt' \in [Worktree -> DevStep] /\ devAt'[c] = then
      /\ \A d \in Worktree \ {c} : devAt'[d] = devAt[d]
  BY <1>1, Goes DEF DevInv, ReadMarkets, DevStep
<1>3. UNCHANGED <<staged, root, plug, old, apply, approved, plan, devOut, effect>>
  BY DEF ReadMarkets, devProfile
<1>4. seen' \in [Worktree -> Worktree \cup {Nil}]
  BY DEF ReadMarkets, DevInv, DevTypeOK
<1>5. InvocationAt(c)'
  BY <1>1, <1>2, <1>3 DEF DevInv, InvocationAt, Executing
<1>6. \A d \in Worktree \ {c} : InvocationAt(d)'
  BY <1>2, <1>3, OthersAt
<1> QED BY <1>2, <1>3, <1>4, <1>5, <1>6 DEF DevInv, DevTypeOK

LEMMA PlanTyped ==
  ASSUME NEW c \in Worktree, staged[c] \in Bytes
  PROVE  operationPlan(c) \in SUBSET Operation /\ Hashed(c) \in Candidate
BY DEF operationPlan, Operation, Hashed, Candidate

LEMMA PluginsInv == ASSUME DevInv, NEW c \in Worktree, Plugins(c) PROVE DevInv'
<1>1. /\ UNCHANGED <<staged, root, plug, old, effect>> /\ devAt[c] = "plugins"
      /\ staged[c] \in Bytes /\ ~effect[c]
  BY DEF Plugins, devProfile, DevInv, InvocationAt
<1>2. CASE UNCHANGED approved /\ \E o \in Quiet : DevEnd(c, o)
  BY <1>1, <1>2, EndInv DEF Quiet, DevOutcome, DevInv, DevTypeOK
<1>3. CASE DevEnd(c, "previewed") /\ approved' = [approved EXCEPT ![c] = Hashed(c)]
  <2>1. /\ approved' \in [Worktree -> Candidate \cup {Nil}]
        /\ \A d \in Worktree \ {c} : approved'[d] = approved[d]
    BY <1>1, <1>3, PlanTyped DEF DevInv, DevTypeOK
  <2>2. "previewed" \in DevOutcome
    BY DEF DevOutcome
  <2> QED BY <1>1, <1>3, <2>1, <2>2, EndInv DEF DevInv, DevTypeOK
<1>4. CASE /\ apply[c] /\ AsApproved(c)
           /\ devAt' = [devAt EXCEPT ![c] = First(operationPlan(c))]
           /\ plan' = [plan EXCEPT ![c] = operationPlan(c)]
           /\ UNCHANGED <<apply, approved, seen, devOut>>
  <2> DEFINE l == First(operationPlan(c))
             p == operationPlan(c)
  <2>1. l \in {"market", "plugin"} /\ l \in DevStep /\ l \in Executing
    BY DEF First, DevStep, Executing
  <2>2. p \in SUBSET Operation /\ approved[c] = [bytes |-> staged[c], plan |-> p]
    BY <1>1, <1>4, PlanTyped DEF AsApproved, Hashed
  <2> HIDE DEF l, p
  <2>3. /\ devAt' \in [Worktree -> DevStep] /\ devAt'[c] = l
        /\ \A d \in Worktree \ {c} : devAt'[d] = devAt[d]
    BY <1>4, <2>1, Goes DEF DevInv, l
  <2>4. /\ plan' \in [Worktree -> SUBSET Operation] /\ plan'[c] = p
        /\ \A d \in Worktree \ {c} : plan'[d] = plan[d]
    BY <1>4, <2>2 DEF DevInv, DevTypeOK, p
  <2>5. InvocationAt(c)'
    BY <1>1, <1>4, <2>1, <2>2, <2>3, <2>4 DEF InvocationAt
  <2>6. \A d \in Worktree \ {c} : InvocationAt(d)'
    BY <1>1, <1>4, <2>3, <2>4, OthersAt
  <2> QED BY <1>1, <1>4, <2>3, <2>4, <2>5, <2>6 DEF DevInv, DevTypeOK
<1> QED BY <1>2, <1>3, <1>4 DEF Plugins, Blocked, Quiet

\* A command that is part of an approved plan.
LEMMA NativeInv ==
  ASSUME DevInv, NEW c \in Worktree, devAt[c] \in Executing,
         NEW then \in Executing, NEW change, NativeCommand(c, change, then),
         change => root' \in Worktree \cup {Nil} /\ plug' \in Plug \cup {Nil} /\ old' \in BOOLEAN
  PROVE  DevInv'
<1>1. /\ UNCHANGED <<staged, approved>>
      /\ root' \in Worktree \cup {Nil} /\ plug' \in Plug \cup {Nil} /\ old' \in BOOLEAN
  BY DEF NativeCommand, devProfile, DevInv, DevTypeOK
<1>2. effect' \in [Worktree -> BOOLEAN] /\ \A d \in Worktree \ {c} : effect'[d] = effect[d]
  <2>1. effect' = effect \/ effect' = [effect EXCEPT ![c] = TRUE]
    BY DEF NativeCommand
  <2>2. effect \in [Worktree -> BOOLEAN]
    BY DEF DevInv, DevTypeOK
  <2>3. CASE effect' = effect
    BY <2>2, <2>3
  <2>4. CASE effect' = [effect EXCEPT ![c] = TRUE]
    BY <2>2, <2>4, BooleanReplaced
  <2> QED BY <2>1, <2>3, <2>4
<1>3. CASE DevGoto(c, then)
  <2>1. /\ then \in DevStep /\ devAt' \in [Worktree -> DevStep] /\ devAt'[c] = then
        /\ \A d \in Worktree \ {c} : devAt'[d] = devAt[d]
    BY <1>3, Goes DEF DevInv, DevGoto, DevStep, Executing
  <2>2. UNCHANGED <<devOut, apply, seen, plan>>
    BY <1>3 DEF DevGoto
  <2>3. InvocationAt(c)'
    BY <1>1, <2>1, <2>2 DEF DevInv, InvocationAt, Executing
  <2>4. \A d \in Worktree \ {c} : InvocationAt(d)'
    BY <1>1, <1>2, <2>1, <2>2, OthersAt
  <2> QED BY <1>1, <1>2, <2>1, <2>2, <2>3, <2>4 DEF DevInv, DevTypeOK
<1>4. CASE DevEnd(c, FailedAs(c))
  <2>1. FailedAs(c) \in DevOutcome /\ FailedAs(c) \notin Quiet
    BY DEF FailedAs, DevOutcome, Quiet
  <2> QED BY <1>1, <1>2, <1>4, <2>1, EndInv DEF DevInv, DevTypeOK
<1> QED BY <1>3, <1>4 DEF NativeCommand

LEMMA ExecuteInv ==
  ASSUME DevInv, NEW c \in Worktree, AddMarket(c) \/ AddPlugin(c) \/ DropSuperseded(c)
  PROVE  DevInv'
<1>1. CASE AddMarket(c)
  <2> DEFINE change == root' \in {c, IF root = Nil THEN c ELSE root} /\ UNCHANGED <<plug, old>>
  <2>1. devAt[c] \in Executing /\ "plugin" \in Executing /\ NativeCommand(c, change, "plugin")
    BY <1>1 DEF AddMarket, Executing
  <2>2. change => root' \in Worktree \cup {Nil} /\ plug' \in Plug \cup {Nil} /\ old' \in BOOLEAN
    BY DEF DevInv, DevTypeOK
  <2> QED BY <2>1, <2>2, NativeInv
<1>2. CASE AddPlugin(c)
  <2> DEFINE change == root # Nil /\ staged[root] # Nil /\ plug' = Copied
                         /\ UNCHANGED <<root, old>>
             then == IF "drop" \in plan[c] THEN "drop" ELSE "remarkets"
  <2>1. devAt[c] \in Executing /\ then \in Executing /\ NativeCommand(c, change, then)
    BY <1>2 DEF AddPlugin, Executing
  <2>2. change => root' \in Worktree \cup {Nil} /\ plug' \in Plug \cup {Nil} /\ old' \in BOOLEAN
    BY DEF DevInv, DevTypeOK, Copied, Plug
  <2> HIDE DEF then, change
  <2> QED BY <2>1, <2>2, NativeInv
<1>3. CASE DropSuperseded(c)
  <2> DEFINE change == old' = FALSE /\ UNCHANGED <<root, plug>>
  <2>1. devAt[c] \in Executing /\ "remarkets" \in Executing /\ NativeCommand(c, change, "remarkets")
    BY <1>3 DEF DropSuperseded, Executing
  <2>2. change => root' \in Worktree \cup {Nil} /\ plug' \in Plug \cup {Nil} /\ old' \in BOOLEAN
    BY DEF DevInv, DevTypeOK
  <2> QED BY <2>1, <2>2, NativeInv
<1> QED BY <1>1, <1>2, <1>3

LEMMA FinishInv == ASSUME DevInv, NEW c \in Worktree, Verify(c) \/ Dies(c) PROVE DevInv'
<1>1. UNCHANGED <<staged, root, plug, old, approved, effect>>
  BY DEF Verify, Dies, devProfile
<1>2. PICK o \in {"installed", "unknown", "none"} : DevEnd(c, o)
  BY DEF Verify, Dies
<1>3. o \in DevOutcome /\ o \notin Quiet
  BY DEF DevOutcome, Quiet
<1> QED BY <1>1, <1>2, <1>3, EndInv DEF DevInv, DevTypeOK

LEMMA PeopleInv == ASSUME DevInv, PeopleChange PROVE DevInv'
<1>1. /\ UNCHANGED <<staged, approved, old, devAt, apply, seen, plan, devOut, effect>>
      /\ root' \in Worktree \cup {Nil}
  BY DEF PeopleChange, devInvocation, DevInv, DevTypeOK
<1>2. plug' \in Plug \cup {Nil}
  <2>1. CASE plug # Nil /\ plug' = [plug EXCEPT !.enabled = FALSE]
    <3>1. plug \in Plug
      BY <2>1 DEF DevInv, DevTypeOK
    <3> QED BY <2>1, <3>1 DEF Plug
  <2> QED BY <2>1 DEF PeopleChange
<1>3. \A d \in Worktree : InvocationAt(d)'
  BY <1>1, OthersAt
<1> QED BY <1>1, <1>2, <1>3 DEF DevInv, DevTypeOK

LEMMA DevInductive == DevInv /\ [DevNext]_devVars => DevInv'
<1> SUFFICES ASSUME DevInv, [DevNext]_devVars
             PROVE  DevInv'
  OBVIOUS
<1>1. ASSUME NEW c \in Worktree, DevBegin(c) PROVE DevInv'  BY <1>1, BeginInv
<1>2. ASSUME NEW c \in Worktree, Stage(c) PROVE DevInv'     BY <1>2, StageInv
<1>3. ASSUME NEW c \in Worktree, Markets(c) \/ Remarkets(c) PROVE DevInv'
  BY <1>3, ReadInv DEF Markets, Remarkets
<1>4. ASSUME NEW c \in Worktree, Plugins(c) PROVE DevInv'   BY <1>4, PluginsInv
<1>5. ASSUME NEW c \in Worktree, AddMarket(c) \/ AddPlugin(c) \/ DropSuperseded(c) PROVE DevInv'
  BY <1>5, ExecuteInv
<1>6. ASSUME NEW c \in Worktree, Verify(c) \/ Dies(c) PROVE DevInv'
  BY <1>6, FinishInv
<1>7. CASE PeopleChange  BY <1>7, PeopleInv
<1>8. CASE UNCHANGED devVars
  <2>1. UNCHANGED <<staged, root, plug, old, approved, devAt, apply, seen, plan, devOut, effect>>
    BY <1>8 DEF devVars, devProfile, devInvocation
  <2>2. \A d \in Worktree : InvocationAt(d)'
    BY <2>1, OthersAt
  <2> QED BY <2>1, <2>2 DEF DevInv, DevTypeOK
<1> QED BY <1>1, <1>2, <1>3, <1>4, <1>5, <1>6, <1>7, <1>8 DEF DevNext

LEMMA DevInitInv == DevInit => DevInv
BY DEF DevInit, DevInv, DevTypeOK, DevStep, InvocationAt, Executing, Quiet

LEMMA DevInvHolds == DevSpec => []DevInv
  BY DevInitInv, DevInductive, PTL DEF DevSpec

\* Every variable keeps its type, for any number of checkouts.
THEOREM DevTypeCorrect == DevSpec => []DevTypeOK
<1>1. DevInv => DevTypeOK
  BY DEF DevInv
<1> QED BY <1>1, DevInvHolds, PTL

\* An invocation that says it was blocked, previewed or had nothing to do has
\* changed nothing in the profile: for any number of checkouts that share it.
THEOREM BlockedIsUnchanged == DevSpec => []BlockedUnchanged
<1>1. DevInv => BlockedUnchanged
  BY DEF DevInv, InvocationAt, BlockedUnchanged, Quiet
<1> QED BY <1>1, DevInvHolds, PTL

\* "installed" is only reported of the payload and the plan that a preview of this
\* checkout showed, when the profile has exactly that: whatever other checkouts and
\* people did between the commands.
THEOREM InstalledIsPreviewed == DevSpec => DevInstalledExact
<1>1. DevInv /\ [DevNext]_devVars => [AsPreviewed]_devVars
  <2> SUFFICES ASSUME DevInv, DevNext, NEW c \in Worktree, ReportsInstalled(c)
               PROVE  /\ approved[c] # Nil /\ apply[c]
                      /\ plug = [from |-> c, bytes |-> approved[c].bytes, enabled |-> TRUE]
                      /\ ~old
    BY DEF AsPreviewed
  <2>1. devAt[c] # "idle" /\ devOut'[c] = "installed" /\ devAt'[c] = "idle"
    BY DEF ReportsInstalled
  <2>2. devAt[c] = "replugins" /\ CandidateCurrent(c) /\ ~old
    <3>1. ASSUME NEW d \in Worktree, NEW o \in DevOutcome \ {"installed"}, DevEnd(d, o) PROVE FALSE
      BY <2>1, <3>1, Ends DEF DevInv
    <3>2. ASSUME NEW d \in Worktree, NEW l \in DevStep \ {"idle"}, devAt' = [devAt EXCEPT ![d] = l]
          PROVE  FALSE
      BY <2>1, <3>2, Goes DEF DevInv
    <3>3. devAt' # devAt
      BY <2>1
    <3>4. ASSUME NEW d \in Worktree, NEW change, NEW then \in DevStep \ {"idle"},
                 NativeCommand(d, change, then)
          PROVE  FALSE
      BY <3>1, <3>2, <3>4 DEF NativeCommand, DevGoto, FailedAs, DevOutcome
    <3>5. ASSUME NEW d \in Worktree,
                 DevBegin(d) \/ Stage(d) \/ Markets(d) \/ Plugins(d) \/ AddMarket(d)
                   \/ AddPlugin(d) \/ DropSuperseded(d) \/ Remarkets(d) \/ Dies(d)
          PROVE  FALSE
      <4>1. ~DevBegin(d)
        BY <3>2 DEF DevBegin, DevStep
      <4>2. ~Stage(d)
        BY <3>1, <3>2 DEF Stage, DevGoto, Blocked, DevStep, DevOutcome
      <4>3. ~Markets(d) /\ ~Remarkets(d)
        BY <3>2 DEF Markets, Remarkets, ReadMarkets, DevStep
      <4>4. ~Plugins(d)
        BY <3>1, <3>2 DEF Plugins, Blocked, First, DevStep, DevOutcome
      <4>5. ~AddMarket(d) /\ ~AddPlugin(d) /\ ~DropSuperseded(d)
        <5>1. "plugin" \in DevStep \ {"idle"} /\ "remarkets" \in DevStep \ {"idle"}
              /\ (IF "drop" \in plan[d] THEN "drop" ELSE "remarkets") \in DevStep \ {"idle"}
          BY DEF DevStep
        <5> QED BY <3>4, <5>1 DEF AddMarket, AddPlugin, DropSuperseded
      <4>6. ~Dies(d)
        BY <3>1 DEF Dies, DevOutcome
      <4> QED BY <3>5, <4>1, <4>2, <4>3, <4>4, <4>5, <4>6
    <3>6. ~PeopleChange
      BY <3>3 DEF PeopleChange, devInvocation
    <3>7. PICK d \in Worktree : Verify(d)
      BY <3>5, <3>6 DEF DevNext
    <3>8. ~DevEnd(d, "unknown")
      BY <3>1 DEF DevOutcome
    <3>9. DevEnd(d, "installed") /\ devAt[d] = "replugins" /\ CandidateCurrent(d) /\ ~old
      BY <3>7, <3>8 DEF Verify
    <3>10. d = c
      BY <2>1, <3>9, Ends DEF DevInv, DevOutcome
    <3> QED BY <3>9, <3>10
  <2>3. staged[c] \in Bytes /\ apply[c] /\ approved[c] = [bytes |-> staged[c], plan |-> plan[c]]
    BY <2>2 DEF DevInv, InvocationAt, Executing
  <2>4. approved[c] # Nil
    BY <2>3, NilAssumption DEF DevInv, DevTypeOK, Candidate
  <2>5. plug = [from |-> c, bytes |-> staged[c], enabled |-> TRUE]
    BY <2>2 DEF CandidateCurrent, DevInv, DevTypeOK, Plug
  <2> QED BY <2>2, <2>3, <2>4, <2>5
<1> QED BY <1>1, DevInvHolds, PTL DEF DevSpec, DevInstalledExact
=============================================================================
