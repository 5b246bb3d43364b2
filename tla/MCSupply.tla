------------------------------ MODULE MCSupply ------------------------------
(***************************************************************************)
(* Instances for TLC of the parts that lead from the sources to what users *)
(* install: DependencyClosure, PluginBuild, KitPackage, ReleasePublication,*)
(* HostedCanary and ReviewGate.  They share no state.  One run checks them *)
(* all: `part` says which of them moves, the others stay as they are.  They*)
(* use the same model values for their several sets, so that one symmetry  *)
(* set serves all of them.                                                 *)
(***************************************************************************)
EXTENDS DependencyClosure, HostedCanary, TLC

CONSTANTS
  Skill, Generation, Torn,
  Packager, Revision, Kit,
  Candidate, Job, Toolchain,
  Commit, Task, MaxFindings

VARIABLES
  part,
  source, payload, receipt, at, made, left,
  pinned, head, checkout, link, dist, invocation,
  tag, records, release, labels, tool, run, group,
  tip, pushed, status, receipts, findings, task

Build == INSTANCE PluginBuild
Kits == INSTANCE KitPackage WITH Source <- Revision, job <- invocation
Publication == INSTANCE ReleasePublication
Gate == INSTANCE ReviewGate

\* None is none of the things it stands for the absence of.
ASSUME NoneIsNothing ==
  /\ None \notin Kits!Place \cup Job \cup Candidate
  /\ None \notin Publication!Tagged \cup Publication!Release \cup Publication!Distribution

buildVars == <<source, payload, receipt, at, made, left>>
kitVars == <<pinned, head, checkout, link, dist, invocation>>
releaseVars == <<tag, records, release, labels, tool, run, group>>
gateVars == <<tip, pushed, status, receipts, findings, task>>

SupplyInit ==
  /\ part \in {"closure", "build", "kit", "release", "canary", "gate"}
  /\ IF part = "closure" THEN ClosureInit
     ELSE /\ needs = None /\ peers = None /\ impure = None /\ root = None
          /\ pending = None /\ graph = None /\ phase = None
  /\ IF part = "build" THEN Build!BuildInit
     ELSE /\ source = None /\ payload = None /\ receipt = None /\ at = None /\ made = None
          /\ left = None
  /\ IF part = "kit" THEN Kits!KitInit
     ELSE /\ pinned = None /\ head = None /\ checkout = None /\ link = None /\ dist = None
          /\ invocation = None
  /\ IF part = "release" THEN Publication!PublicationInit
     ELSE /\ tag = None /\ records = None /\ release = None /\ labels = None
          /\ tool = None /\ run = None /\ group = None
  /\ CanaryInit /\ (part # "canary" => derived /\ repo = [t \in Target |-> "absent"])
  /\ IF part = "gate" THEN Gate!GateInit
     ELSE /\ tip = None /\ pushed = None /\ status = None /\ receipts = None
          /\ findings = None /\ task = None

SupplyNext ==
  \/ /\ part = "closure" /\ ClosureNext
     /\ UNCHANGED <<part, buildVars, kitVars, releaseVars, canaryVars, gateVars>>
  \/ /\ part = "build" /\ Build!BuildNext
     /\ UNCHANGED <<part, closureVars, kitVars, releaseVars, canaryVars, gateVars>>
  \/ /\ part = "kit" /\ Kits!KitNext
     /\ UNCHANGED <<part, closureVars, buildVars, releaseVars, canaryVars, gateVars>>
  \/ /\ part = "release" /\ Publication!PublicationNext
     /\ UNCHANGED <<part, closureVars, buildVars, kitVars, canaryVars, gateVars>>
  \/ /\ part = "canary" /\ CanaryNext
     /\ UNCHANGED <<part, closureVars, buildVars, kitVars, releaseVars, gateVars>>
  \/ /\ part = "gate" /\ Gate!GateNext
     /\ UNCHANGED <<part, closureVars, buildVars, kitVars, releaseVars, canaryVars>>

SupplySpec ==
  SupplyInit
  /\ [][SupplyNext]_<<part, closureVars, buildVars, kitVars, releaseVars, canaryVars, gateVars>>

\* The type invariants of the parts.
SupplyTypeOK ==
  /\ part = "closure" => ClosureTypeOK
  /\ part = "build" => Build!BuildTypeOK
  /\ part = "kit" => Kits!KitTypeOK
  /\ part = "release" => Publication!PublicationTypeOK
  /\ CanaryTypeOK
  /\ part = "gate" => Gate!GateTypeOK

\* What is called fresh, packaged, published or reviewed is exactly that.
ArtifactsExact ==
  /\ part = "build" => Build!FreshIsClosed
  /\ part = "kit" => Kits!PackagedExact
  /\ part = "release" => Publication!PublishedExact
  /\ part = "gate" => Gate!AttestedClean

Symmetric ==
  UNION {Permutations(S) : S \in {Candidate, Job, Toolchain}}
=============================================================================
