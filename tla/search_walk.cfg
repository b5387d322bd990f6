SPECIFICATION Spec
CONSTANTS
  broad1 = broad1
  broad2 = broad2
  site1 = site1
  variant1 = variant1
  site2 = site2
  keyless = keyless
  compact = compact
  prompt = prompt
  host1 = host1
  host2 = host2
  NoQuery = NoQuery
  NoHost = NoHost
  Queries <- AllQueries
  Site <- SiteQueries
  HostOf <- Host
  KeyOf <- Key
  GroupOf <- Clue
  CoreGroups <- Clues
  Variants <- Variant
  Normal <- Rewritten
  Prompt <- prompt
  Wrapped <- Pages
  TaskSet <- BothTasks
  Given <- AskedFor
  Built <- Rewrites
  Fallbacks = {0, 2}
  MaxCalls = 3
INVARIANTS TypeOK SearchedOnce SiteStaysScoped BroadBounded NoBlankTurn SourceSurfaced
PROPERTY CallEnds
CHECK_DEADLOCK FALSE
