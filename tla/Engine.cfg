SPECIFICATION FairSpec
CONSTANTS
  j1 = j1
  j2 = j2
  Jobs <- TwoJobs
  Hosts <- AllHosts
  NoSandbox = NoSandbox
  NoConverter = NoConverter
  Refused = Refused
  Free = Free
INVARIANTS
  NoBareHelperBesideSandbox
  OneProcessPerHelper
  NoProcessOutlivesEngine
PROPERTIES
  ImplementsShared
  EveryJobEnds
CHECK_DEADLOCK FALSE
