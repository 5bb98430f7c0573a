CONSTANTS
  x = x
  y = y
  n = n
  base = base
  v = v
  w = w
  git = git
  own = own
  Null = Null
  Files = {x, y, n}
  NewFiles = {n}
  Contents = {base, v, w}
  Base = base
  Original <- MCOriginal
  Wordings = {git, own}
  Verbatim = {git}
  Replacements <- MCSure
  ForeignTrees = {}
  MaxForeign = 0
  MaxComments <- MCOneEach
  MaxCommands = 1
SPECIFICATION FairSpec
PROPERTIES PushedConverges StartedCompletes
CHECK_DEADLOCK FALSE
