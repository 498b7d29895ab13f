SPECIFICATION Spec
CONSTANTS
  Steps = {s1, s2, s3}
  Roles = {"extent", "sub_condition", "condition", "support", "measure"}
  Ghost = Ghost
SYMMETRY StepSymmetry
INVARIANTS
  CitedStepsHaveRun
  MeasuresEndThePlan
