CONSTANTS
  k1 = k1
  k2 = k2
  b1 = b1
  p1 = p1
  Null = Null
  Stages = {"implement", "publish"}
  LastStage = "publish"
  Attempts <- MCAttempts
  Keys = {k1, k2}
  Branches = {b1}
  Creations <- MCCreations
  Recordings <- MCRecordings
  Resumers = {p1}
  MaxRecords = 3
SPECIFICATION Spec
SYMMETRY Symmetry
INVARIANTS TypeOK StoresAreOfOneMoment
PROPERTIES ContinuesWhatItResumed ResumesFromLastVerified
CONSTRAINT InUse
CHECK_DEADLOCK FALSE
