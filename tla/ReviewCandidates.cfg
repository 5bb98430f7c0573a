CONSTANTS
  a = a
  b = b
  x = x
  Pin = Pin
  Stray = Stray
  Leftover = Leftover
  Absent = Absent
  Torn = Torn
  Candidates = {a, b, x}
  OutOfScope = {x}
  Provider = TRUE
  Assessments <- MCAssessments
  Sizes = {1, 3}
  MaxTokens = 3
  Proposals <- MCProposals
SPECIFICATION Spec
SYMMETRY Symmetry
INVARIANTS TypeOK OneCandidatePerPatch BudgetsHold ReviewedIsTested OutcomeIsExplained
