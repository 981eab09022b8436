SPECIFICATION Spec
CONSTANTS
  RunIds = {"r1", "r2"}
  Sigs = {"s1", "s2"}
  MinOccurrences = 2
  MinRuns = 1
  MaxRefs = 4
  MaxEvidence = 2
  Generators = {"g1", "g2"}
  NameGiven = TRUE
INVARIANT EvidenceSound
INVARIANT ReplayCoversCalls
INVARIANT CandidateAccounted
INVARIANT AuditComplete
PROPERTY TargetKept
CHECK_DEADLOCK FALSE
