------------------------------- MODULE MCHost -------------------------------
(***************************************************************************)
(* Instances for TLC of the parts that act in a user's profile or machine  *)
(* and share nothing with each other: ClaudeInstallation, CodexUpdate,     *)
(* RuntimeLaunch, PrivateDelivery, CodexInstallation and HarnessProof.     *)
(* One run checks them all: `part` says which of them moves, the others    *)
(* stay as they are.  The parts use the same model values for their several*)
(* sets, so that one symmetry set serves all of them.                      *)
(***************************************************************************)
EXTENDS ClaudeInstallation, CodexUpdate, CodexInstallation, PrivateDelivery, TLC

CONSTANTS
  Proc, Run, Payload, LaunchFaults,
  Lies

VARIABLES
  part,
  holder, blob, payload, altered, launchAt, sourced, sawBad,
  client, line, proofCache, last, data, prior, told

Host == INSTANCE RuntimeLaunch WITH Faults <- LaunchFaults, at <- launchAt
Proof == INSTANCE HarnessProof WITH cache <- proofCache

hostVars == <<holder, blob, payload, altered, launchAt, sourced, sawBad>>
proofVars == <<client, line, proofCache, last, data, prior, told>>

HostInit ==
  /\ part \in {"claude", "codex", "launch", "login", "dev", "proof"}
  /\ IF part = "claude" THEN Init
     ELSE /\ production = Absent /\ development = Absent /\ cache = None /\ offered = None
          /\ snapshot = None /\ who = None /\ op = None /\ pc = "idle" /\ out = None
          /\ disturbed = None /\ taken = None
  /\ IF part = "codex" THEN UpdateInit
     ELSE /\ remote = Gone /\ market = Gone /\ plugin = Gone /\ target = Gone
          /\ restoration = Gone /\ captured = Gone /\ step = "idle" /\ ended = Gone
          /\ moved = Gone /\ touched = TRUE /\ spoiled = Gone
  /\ IF part = "launch" THEN Host!LaunchInit
     ELSE /\ holder = None /\ blob = None /\ payload = None /\ altered = None
          /\ launchAt = None /\ sourced = None /\ sawBad = None
  /\ IF part = "login" THEN DeliveryInit
     ELSE /\ site = None /\ page = None /\ items = None /\ edited = None /\ at = None
          /\ named = None /\ child = None /\ entered = None /\ outcome = None /\ kept = None
  /\ DevInit /\ (part # "dev" => old = FALSE)
  /\ IF part = "proof" THEN Proof!HarnessInit
     ELSE /\ client = None /\ line = None /\ proofCache = None /\ last = None /\ data = None
          /\ prior = None /\ told = None

HostNext ==
  \/ /\ part = "claude" /\ Next
     /\ UNCHANGED <<part, updateVars, hostVars, deliveryVars, devVars, proofVars>>
  \/ /\ part = "codex" /\ UpdateNext
     /\ UNCHANGED <<part, vars, hostVars, deliveryVars, devVars, proofVars>>
  \/ /\ part = "launch" /\ Host!LaunchNext
     /\ UNCHANGED <<part, vars, updateVars, deliveryVars, devVars, proofVars>>
  \/ /\ part = "login" /\ DeliveryNext
     /\ UNCHANGED <<part, vars, updateVars, hostVars, devVars, proofVars>>
  \/ /\ part = "dev" /\ DevNext
     /\ UNCHANGED <<part, vars, updateVars, hostVars, deliveryVars, proofVars>>
  \/ /\ part = "proof" /\ Proof!HarnessNext
     /\ UNCHANGED <<part, vars, updateVars, hostVars, deliveryVars, devVars>>

HostSpec ==
  HostInit
  /\ [][HostNext]_<<part, vars, updateVars, hostVars, deliveryVars, devVars, proofVars>>

\* The type invariants of the parts.
HostTypeOK ==
  /\ part = "claude" => TypeOK
  /\ part = "codex" => UpdateTypeOK
  /\ part = "launch" => Host!LaunchTypeOK
  /\ part = "login" => DeliveryTypeOK
  /\ DevTypeOK
  /\ part = "proof" => Proof!HarnessTypeOK

LaunchedVerified == [][part = "launch" => Host!LaunchesVerified]_hostVars
ProofSound == part = "proof" => Proof!ProofSound

Symmetric ==
  UNION {Permutations(S) : S \in {Checkout, Source, Version, Content}}
=============================================================================
