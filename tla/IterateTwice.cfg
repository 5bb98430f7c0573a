CONSTANTS
  x = x
  y = y
  n = n
  base = base
  v = v
  w = w
  git = git
  own = own
  Null = Null
  Files = {x, y, n}
  NewFiles = {n}
  Contents = {base, v, w}
  Base = base
  Original <- MCOriginal
  Wordings = {git, own}
  Verbatim = {git}
  Replacements <- MCChoice
  ForeignTrees = {}
  MaxForeign = 0
  MaxComments <- MCOneIssue
  MaxCommands = 2
SPECIFICATION Spec
INVARIANTS PublishedIsApproved
CHECK_DEADLOCK FALSE
