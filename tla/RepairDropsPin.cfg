CONSTANTS
  a = a
  b = b
  x = x
  Pin = Pin
  Stray = Stray
  Leftover = Leftover
  Absent = Absent
  Torn = Torn
  Candidates = {a, b, x}
  OutOfScope = {x}
  Provider = TRUE
  Assessments <- MCAssessments
  Sizes = {1}
  MaxTokens = 3
  Proposals <- MCProposals
SPECIFICATION Spec
INVARIANTS RepairKeepsPin
