---------------------------- MODULE RuntimeLaunch ----------------------------
(***************************************************************************)
(* `runtime-exec run <skill>` beside the repairs of RuntimeStore: a launch *)
(* takes no lock, so the store may change between its assessment of the    *)
(* runtime, the version probe and the exec, and so may the plugin payload  *)
(* between the check of the skill's bundle and the exec.                   *)
(***************************************************************************)
EXTENDS RuntimeStore

CONSTANTS
  Run,     \* the launches
  Payload  \* the plugin payloads that an update may put in place

VARIABLES
  payload,  \* the payload on disk
  altered,  \* its bundle file no longer has the bytes the inventory records
  at,       \* the next operation of each launch
  sourced,  \* the payload whose projections the launch has sourced
  sawBad    \* the runtime or payload was damaged since the launch looked at it

launchVars == <<payload, altered, at, sourced, sawBad>>

At == {"start", "bundle", "assess", "probe", "exec", "launched", "refused"}
Looking == {"assess", "probe", "exec"}

LaunchTypeOK ==
  /\ holder \in Proc \cup {None}
  /\ blob \in BlobState
  /\ payload \in Payload
  /\ altered \in BOOLEAN
  /\ at \in [Run -> At]
  /\ sourced \in [Run -> Payload]
  /\ sawBad \in [Run -> BOOLEAN]

LaunchInit ==
  /\ Init
  /\ payload \in Payload
  /\ altered \in BOOLEAN
  /\ at = [r \in Run |-> "start"]
  /\ sourced \in [Run -> {payload}]
  /\ sawBad = [r \in Run |-> FALSE]

GoTo(r, a) == at' = [at EXCEPT ![r] = a]

(* load_projections: lock, catalog and inventory are sourced from the payload. *)
LoadProjections(r) ==
  /\ at[r] = "start"
  /\ sourced' = [sourced EXCEPT ![r] = payload]
  /\ GoTo(r, "bundle")
  /\ UNCHANGED <<holder, blob, payload, altered, sawBad>>

(* The bundle's name carries a digest of its bytes: the file the inventory of *)
(* another payload names is not there.                                        *)
BundlePresent(r) == payload = sourced[r]

CheckBundle_Unhashed(r) ==
  /\ at[r] = "bundle"
  /\ GoTo(r, IF BundlePresent(r) THEN "assess" ELSE "refused")
  /\ UNCHANGED <<holder, blob, payload, altered, sourced, sawBad>>

CheckBundle(r) ==
  /\ at[r] = "bundle"
  /\ GoTo(r, IF BundlePresent(r) /\ ~altered THEN "assess" ELSE "refused")
  /\ UNCHANGED <<holder, blob, payload, altered, sourced, sawBad>>

(* assess_blob: BUN_MISSING and REPAIR_REQUIRED end the launch; run never repairs. *)
AssessRuntime(r) ==
  /\ at[r] = "assess"
  /\ GoTo(r, IF blob = "valid" THEN "probe" ELSE "refused")
  /\ UNCHANGED <<holder, blob, payload, altered, sourced, sawBad>>

(* --version under an empty configuration; damaged bytes may still answer. *)
ProbeVersion(r) ==
  /\ at[r] = "probe"
  /\ \/ blob \in {"valid", "corrupt"} /\ GoTo(r, "exec")
     \/ blob # "valid" /\ GoTo(r, "refused")
  /\ UNCHANGED <<holder, blob, payload, altered, sourced, sawBad>>

(* exec replaces the shell: without an executable or a bundle nothing runs. *)
Exec(r) ==
  /\ at[r] = "exec"
  /\ GoTo(r, IF blob \in {"valid", "corrupt"} /\ BundlePresent(r)
               THEN "launched" ELSE "refused")
  /\ UNCHANGED <<holder, blob, payload, altered, sourced, sawBad>>

Launch(r) ==
  LoadProjections(r) \/ CheckBundle(r) \/ AssessRuntime(r) \/ ProbeVersion(r) \/ Exec(r)

\* Every launch that has begun to look is aware of damage done from then on.
Notice == sawBad' = [r \in Run |-> sawBad[r] \/ at[r] \in Looking]

(* Another payload takes the place of this one, intact. *)
UpdatePayload ==
  /\ payload' \in Payload \ {payload}
  /\ altered' = FALSE
  /\ UNCHANGED <<holder, blob, at, sourced, sawBad>>

\* Something outside custody changes the bytes of the bundle.
AlterBundle ==
  /\ "tamper" \in Faults
  /\ altered' = TRUE
  /\ Notice
  /\ UNCHANGED <<holder, blob, payload, at, sourced>>

DamageRuntime == Damage /\ Notice /\ UNCHANGED <<payload, altered, at, sourced>>

RepairStep ==
  /\ \E p \in Proc : Acquire(p) \/ Release(p) \/ Publish(p) \/ Discard(p)
  /\ UNCHANGED launchVars

LaunchNext ==
  \/ \E r \in Run : Launch(r)
  \/ RepairStep \/ DamageRuntime \/ UpdatePayload \/ AlterBundle

LaunchSpec ==
  /\ LaunchInit
  /\ [][LaunchNext]_<<holder, blob, launchVars>>

-----------------------------------------------------------------------------
\* A skill starts only on a verified runtime and with the bundle its inventory
\* records, unless something outside custody changed them after they had been
\* looked at: no repair and no payload update in flight makes a launch run
\* anything else, although run takes no lock.
LaunchesVerified ==
  \A r \in Run : at[r] # "launched" /\ at'[r] = "launched" =>
    \/ sawBad[r]
    \/ blob = "valid" /\ ~altered /\ payload = sourced[r]

LaunchedVerified == [][LaunchesVerified]_<<holder, blob, launchVars>>
=============================================================================
