\* A run that a failing dependency ends without any report.
SPECIFICATION Spec
CONSTANTS
  Tiers = {"TIER0"}
  Budgets <- OnlyShipped
  ImpactLimit <- ShippedImpact
  MaxRepairs = 2
  ScoreValues = {80}
  MaxDocs = 1
  MaxNotes = 0
  DraftDefects = {}
INVARIANTS
  DependencyFailureStillReports
CHECK_DEADLOCK FALSE
