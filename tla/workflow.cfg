\* Budgets that run out at every stage and the shipped ones, BUY and AVOID scores,
\* a provider whose drafts may be defective.
SPECIFICATION FairSpec
CONSTANTS
  Tiers = {"TIER0", "TIER1", "TIER2"}
  Budgets <- MCBudgets
  ImpactLimit <- ShippedImpact
  MaxRepairs = 1
  ScoreValues = {30, 80}
  MaxDocs = 1
  MaxNotes = 0
  DraftDefects = {"graph"}
INVARIANTS
  BuyOnlyFromHealthyRun
  BuyIsReviewed
  BudgetOvershootBounded
  PersistedQualityCoversMatrix
  StatusIsTruthful
PROPERTIES
  DegradedBudgetStopsCalls
  DecisionNeverRaised
  ImplementsContract
  RunEnds
CHECK_DEADLOCK FALSE
