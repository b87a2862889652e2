\* A persisted DONE report that the consistency rules refuse.
SPECIFICATION Spec
CONSTANTS
  Tiers = {"TIER0"}
  Budgets <- OnlyShipped
  ImpactLimit <- ShippedImpact
  MaxRepairs = 2
  ScoreValues = {80}
  MaxDocs = 1
  MaxNotes = 0
  DraftDefects = {}
INVARIANTS
  PersistedReportConsistent
CHECK_DEADLOCK FALSE
