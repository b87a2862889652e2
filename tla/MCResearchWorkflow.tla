------------------------ MODULE MCResearchWorkflow ------------------------
(* Values of the constants of ResearchWorkflow, and its refinement, for TLC. *)
EXTENDS WorkflowRefinement

\* Budgets that run out at every stage of a run, and the shipped one.
MCBudgets ==
  [t \in Tiers |-> {ShippedBudget[t]} \union
     (IF t = "TIER0" THEN 0..12 ELSE {n \in 0..24 : n % 4 = 0})]
OnlyShipped == [t \in Tiers |-> {ShippedBudget[t]}]

\* graph.impact_top_entities of _default_tier_policy
ShippedImpact == [t \in Tiers |-> IF t = "TIER0" THEN 0 ELSE IF t = "TIER1" THEN 3 ELSE 6]
=============================================================================
