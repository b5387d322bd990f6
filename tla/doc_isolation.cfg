SPECIFICATION Spec
CONSTANTS
  Tools <- CoreTools
  ToolNames <- AllNames
  Queries = {q1}
  Urls = {u1}
  Answers = {a1}
  NoAnswer = NoAnswer
  NoArgs = NoArgs
  Blanks = {listed}
  None = None
  Retry = Retry
  NoGroup = NoGroup
  blended = blended
  again = again
  site = site
  named = named
  TextOf <- OwnText
  GroupOf <- NoClue
  Keyless = {}
  Tables = {"none"}
  SiteScoped = {}
  CandidateScoped = {}
  Overbroad = {}
  Driver = "any"
  Uttered <- CoreCalls
  Answerer = FALSE
  RequestSet <- CoreRequests
  MaxSteps = 3
  TimeLimit = None
  Reserve = 1
  ToolTimeout = None
  MaxAttempts = 1
  MinAttempts <- NoMinimum
  MaxDuplicates = 2
  ControllerLatency = 0
  ToolLatency = 0
INVARIANT ExceptionsIsolated
CHECK_DEADLOCK FALSE
