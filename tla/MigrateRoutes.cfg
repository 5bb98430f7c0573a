CONSTANTS
  create = create
  get = get
  list = list
  listOpts = listOpts
  url = url
  setup = setup
  requests = requests
  results = results
  Absent = Absent
  Decls <- CallsDecls
  Ops <- CallsOps
  Legacy = {requests, results}
  Refs <- CallsRefs
  Begins <- CallsBegins
  Order <- CallsOrder
  Layouts <- CallsApart
  WholePlan = TRUE
  MaxFaults = 2
SPECIFICATION FairSpec
INVARIANTS TypeOK RefusalRestores SplitPassesChecks NothingLostByRoute
PROPERTIES MigratedStaysInPlace EveryOperationMigrates
CHECK_DEADLOCK FALSE
