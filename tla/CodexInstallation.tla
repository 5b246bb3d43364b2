------------------------- MODULE CodexInstallation -------------------------
(***************************************************************************)
(* The development installation of Codex (scripts/codex-development-       *)
(* installation.ts): `check` and `install` build the payload of a checkout,*)
(* stage it as a Marketplace in that checkout and compare the Codex profile*)
(* with it; `install --apply` runs a plan of native commands, but only the *)
(* one whose candidate hash a preview gave.                                *)
(*                                                                         *)
(* Several checkouts share one profile and take no lock: their invocations *)
(* interleave, command by command.  Each checkout runs one at a time.      *)
(***************************************************************************)
CONSTANTS
  Worktree,  \* checkouts of the repository
  Bytes,     \* what their payloads may hold; it determines the version
  Nil        \* not there

VARIABLES
  staged,     \* what is staged in each checkout, or Nil
  root,       \* the checkout whose development Marketplace the profile names
  plug,       \* the development Plugin Installation
  old,        \* the one under the superseded identity is there
  devAt,      \* the next step of each checkout's invocation
  apply,      \* it was asked to apply
  approved,   \* the candidate of its last preview: a payload and a plan
  seen,       \* the Marketplace it read
  plan,       \* the operations it found necessary
  devOut,     \* how it ended, or the last one
  effect      \* history: one of its native commands had an effect

devProfile == <<root, plug, old>>
devInvocation == <<devAt, apply, seen, plan, devOut, effect>>
devVars == <<staged, devProfile, approved, devInvocation>>

Operation == {"market", "plugin", "drop"}
Plug == [from : Worktree, bytes : Bytes, enabled : BOOLEAN]
Candidate == [bytes : Bytes, plan : SUBSET Operation]

ASSUME NilAssumption == Nil \notin Worktree \cup Bytes \cup Plug \cup Candidate

DevStep == {"idle", "stage", "markets", "plugins", "market", "plugin", "drop",
            "remarkets", "replugins"}
Executing == {"market", "plugin", "drop", "remarkets", "replugins"}

DevTypeOK ==
  /\ staged \in [Worktree -> Bytes \cup {Nil}]
  /\ root \in Worktree \cup {Nil}
  /\ plug \in Plug \cup {Nil}
  /\ old \in BOOLEAN
  /\ devAt \in [Worktree -> DevStep]
  /\ apply \in [Worktree -> BOOLEAN]
  /\ approved \in [Worktree -> Candidate \cup {Nil}]
  /\ seen \in [Worktree -> Worktree \cup {Nil}]
  /\ plan \in [Worktree -> SUBSET Operation]
  /\ devOut \in [Worktree -> {"none", "previewed", "no_op", "blocked", "installed", "unknown"}]
  /\ effect \in [Worktree -> BOOLEAN]

DevInit ==
  /\ staged = [c \in Worktree |-> Nil]
  /\ root = Nil /\ plug = Nil /\ old \in BOOLEAN
  /\ devAt = [c \in Worktree |-> "idle"]
  /\ apply = [c \in Worktree |-> FALSE]
  /\ approved = [c \in Worktree |-> Nil]
  /\ seen = [c \in Worktree |-> Nil]
  /\ plan = [c \in Worktree |-> {}]
  /\ devOut = [c \in Worktree |-> "none"]
  /\ effect = [c \in Worktree |-> FALSE]
-----------------------------------------------------------------------------
DevGoto(c, l) == devAt' = [devAt EXCEPT ![c] = l] /\ UNCHANGED <<devOut, apply, seen, plan>>
DevEnd(c, o) ==
  /\ devAt' = [devAt EXCEPT ![c] = "idle"]
  /\ devOut' = [devOut EXCEPT ![c] = o]
  /\ apply' = [apply EXCEPT ![c] = FALSE]
  /\ seen' = [seen EXCEPT ![c] = Nil]
  /\ plan' = [plan EXCEPT ![c] = {}]

\* A failure of the invocation: what changed is unknown once a command has run.
Blocked(c) == DevEnd(c, "blocked")

DevBegin(c) ==
  /\ devAt[c] = "idle"
  /\ \E a \in BOOLEAN : apply' = [apply EXCEPT ![c] = a]
  /\ devAt' = [devAt EXCEPT ![c] = "stage"]
  /\ devOut' = [devOut EXCEPT ![c] = "none"]
  /\ effect' = [effect EXCEPT ![c] = FALSE]
  /\ UNCHANGED <<staged, devProfile, approved, seen, plan>>

\* build and prepareCandidate: what was staged before is removed first.  The
\* checkout may have been edited at any time, so the build makes any payload.
Stage(c) ==
  /\ devAt[c] = "stage"
  /\ \/ (\E x \in Bytes : staged' = [staged EXCEPT ![c] = x]) /\ DevGoto(c, "markets")
     \/ staged' \in {staged, [staged EXCEPT ![c] = Nil]} /\ Blocked(c)
  /\ UNCHANGED <<devProfile, approved, effect>>

\* inspect reads the Marketplaces with one native command ...
ReadMarkets(c, now, then) ==
  /\ devAt[c] = now
  /\ seen' = [seen EXCEPT ![c] = root]
  /\ devAt' = [devAt EXCEPT ![c] = then]
  /\ UNCHANGED <<staged, devProfile, apply, approved, plan, devOut, effect>>

Markets(c) == ReadMarkets(c, "markets", "plugins")

\* ... and the Plugin Installations with the next.
Contradictory(c) == seen[c] \notin {c, Nil} \/ (plug # Nil /\ seen[c] = Nil)

CandidateCurrent_Elsewhere(c) == plug # Nil /\ plug.enabled /\ plug.bytes = staged[c]
CandidateCurrent(c) ==
  plug # Nil /\ seen[c] = c /\ plug.enabled /\ plug.bytes = staged[c] /\ plug.from = c

operationPlan(c) ==
  IF CandidateCurrent(c) /\ ~old THEN {}
  ELSE {"plugin"} \cup (IF seen[c] = Nil THEN {"market"} ELSE {})
                  \cup (IF old THEN {"drop"} ELSE {})

Hashed(c) == [bytes |-> staged[c], plan |-> operationPlan(c)]

AsApproved_Plan(c) == approved[c] # Nil /\ approved[c].plan = operationPlan(c)
AsApproved(c) == approved[c] = Hashed(c)

First(p) == IF "market" \in p THEN "market" ELSE "plugin"

Plugins(c) ==
  /\ devAt[c] = "plugins"
  /\ \/ Blocked(c) /\ UNCHANGED approved
     \/ /\ ~Contradictory(c)
        /\ \/ /\ operationPlan(c) = {} /\ DevEnd(c, "no_op") /\ UNCHANGED approved
           \/ /\ operationPlan(c) # {} /\ ~apply[c] /\ DevEnd(c, "previewed")
              /\ approved' = [approved EXCEPT ![c] = Hashed(c)]
           \/ /\ operationPlan(c) # {} /\ apply[c] /\ AsApproved(c)
              /\ devAt' = [devAt EXCEPT ![c] = First(operationPlan(c))]
              /\ plan' = [plan EXCEPT ![c] = operationPlan(c)]
              /\ UNCHANGED <<apply, approved, seen, devOut>>
  /\ UNCHANGED <<staged, devProfile, effect>>
-----------------------------------------------------------------------------
(* executePlan.                                                            *)

FailedAs_Blocked(c) == "blocked"
FailedAs(c) == "unknown"

\* A native command that was not refused succeeds, or fails with or without its
\* effect.
NativeCommand(c, change, then) ==
  /\ UNCHANGED <<staged, approved>>
  /\ \/ change /\ effect' = [effect EXCEPT ![c] = TRUE] /\ DevGoto(c, then)
     \/ change /\ effect' = [effect EXCEPT ![c] = TRUE] /\ DevEnd(c, FailedAs(c))
     \/ UNCHANGED <<devProfile, effect>> /\ DevEnd(c, FailedAs(c))

\* Another checkout may have registered the name meanwhile: it is kept or replaced.
AddMarket(c) ==
  /\ devAt[c] = "market"
  /\ NativeCommand(c, root' \in {c, IF root = Nil THEN c ELSE root} /\ UNCHANGED <<plug, old>>,
       "plugin")

\* Codex copies what is staged at the Marketplace it has, whoever registered that.
Copied == [from |-> root, bytes |-> staged[root], enabled |-> TRUE]

AddPlugin(c) ==
  /\ devAt[c] = "plugin"
  /\ NativeCommand(c,
       root # Nil /\ staged[root] # Nil /\ plug' = Copied /\ UNCHANGED <<root, old>>,
            IF "drop" \in plan[c] THEN "drop" ELSE "remarkets")

DropSuperseded(c) ==
  /\ devAt[c] = "drop"
  /\ NativeCommand(c, old' = FALSE /\ UNCHANGED <<root, plug>>, "remarkets")

Remarkets(c) == ReadMarkets(c, "remarkets", "replugins")

\* The second inspection; whatever it finds, the profile was changed.
Verify(c) ==
  /\ devAt[c] = "replugins"
  /\ \/ ~Contradictory(c) /\ CandidateCurrent(c) /\ ~old /\ DevEnd(c, "installed")
     \/ DevEnd(c, "unknown")
  /\ UNCHANGED <<staged, devProfile, approved, effect>>

\* The process is killed; nothing is reported.  (Before it executes its plan, that
\* leaves no more than being blocked.)
Dies(c) ==
  /\ devAt[c] \in Executing
  /\ DevEnd(c, "none")
  /\ UNCHANGED <<staged, devProfile, approved, effect>>
-----------------------------------------------------------------------------
(* What people do beside.                                                  *)

PeopleChange ==
  /\ \/ root' = Nil /\ plug' = Nil
     \/ plug # Nil /\ plug' = [plug EXCEPT !.enabled = FALSE] /\ UNCHANGED root
  /\ UNCHANGED <<old, staged, approved, devInvocation>>

DevNext ==
  \/ \E c \in Worktree :
       \/ DevBegin(c) \/ Stage(c) \/ Markets(c) \/ Plugins(c) \/ AddMarket(c) \/ AddPlugin(c)
       \/ DropSuperseded(c) \/ Remarkets(c) \/ Verify(c) \/ Dies(c)
  \/ PeopleChange

DevSpec == DevInit /\ [][DevNext]_devVars
-----------------------------------------------------------------------------
(* Properties.                                                             *)

\* "installed" is only reported when the profile has, enabled, exactly the
\* payload and plan that a preview of this checkout showed and nothing under the
\* superseded identity: whatever the other checkouts, which register the same
\* Marketplace name, and people did between its commands.
ReportsInstalled(c) == devAt[c] # "idle" /\ devOut'[c] = "installed" /\ devAt'[c] = "idle"
AsPreviewed ==
  \A c \in Worktree : ReportsInstalled(c) =>
    /\ approved[c] # Nil /\ apply[c]
    /\ plug = [from |-> c, bytes |-> approved[c].bytes, enabled |-> TRUE]
    /\ ~old

DevInstalledExact == [][AsPreviewed]_devVars

\* What is reported as blocked, and safe to run again, changed nothing in the
\* profile; and a preview or no-op changed nothing either.
BlockedUnchanged ==
  \A c \in Worktree :
    devAt[c] = "idle" /\ devOut[c] \in {"previewed", "no_op", "blocked"} => ~effect[c]
=============================================================================
