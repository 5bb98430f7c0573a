CONSTANTS
  c1 = c1
  c2 = c2
  k1 = k1
  k2 = k2
  r1 = r1
  r2 = r2
  i1 = i1
  i2 = i2
  s1 = s1
  s2 = s2
  b1 = b1
  Null = Null
  Clients = {c1, c2}
  Runs = {r1, r2}
  Keys = {k1, k2}
  Intents = {i1, i2}
  Statuses = {s1, s2}
  Branches = {b1}
  Calls <- MCContest
  Engine = "mysql"
SPECIFICATION FairSpec
PROPERTIES ImplementsLedger EveryCallReturns
