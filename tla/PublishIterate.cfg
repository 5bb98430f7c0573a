CONSTANTS
  a = a
  b = b
  Pin = Pin
  Stray = Stray
  Leftover = Leftover
  Absent = Absent
  Torn = Torn
  Candidates = {a, b}
  OutOfScope = {}
  Provider = FALSE
  Assessments <- MCAssessments
  Sizes = {1}
  MaxTokens = 3
  ApprovalLabel = "agent-approved"
  ExceptionLabel = "agent-multi-route-approved"
  MaxEditions = 2
SPECIFICATION Spec
SYMMETRY Symmetry
INVARIANTS IteratesWhatWasPublished ApprovedAfterEvidence
