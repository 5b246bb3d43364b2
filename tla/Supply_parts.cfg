CONSTANTS
  None = None
  Workspace = {c1, c2}
  Named = {c1, c2}
  Package = {z}
  MaxNeeds = 2
  Skill = {z}
  Generation = {x, y}
  Torn = Torn
  Packager = {c1, c2}
  Revision = {s1, s2}
  Kit = {x, y}
  Candidate = {c1, c2}
  Job = {s1, s2}
  Toolchain = {x, y}
  Qualification = {c1, c2}
  Commit = {c1, c2}
  Task = {s1, s2}
  MaxFindings = 2
SYMMETRY Symmetric
SPECIFICATION SupplySpec
INVARIANTS SupplyTypeOK ClosureExact QualifiedProven ArtifactsExact
PROPERTIES HistoryKept
CHECK_DEADLOCK FALSE
