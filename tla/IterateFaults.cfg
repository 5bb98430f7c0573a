CONSTANTS
  x = x
  y = y
  n = n
  base = base
  v = v
  w = w
  git = git
  own = own
  Null = Null
  Files = {x, y, n}
  NewFiles = {n}
  Contents = {base, v, w}
  Base = base
  Original <- MCOriginal
  Wordings = {git, own}
  Verbatim = {git}
  Replacements <- MCWorded
  ForeignTrees <- MCForeign
  MaxForeign = 1
  MaxComments <- MCOneEach
  MaxCommands = 2
SPECIFICATION Spec
INVARIANTS TypeOK OneCommitPerCommand OneReplyPerRepair CompletionIsTrue NoFeedbackSkipped FirstRepairIsApproved
PROPERTIES RefusalLeavesClean ImplementsEffects
CHECK_DEADLOCK FALSE
