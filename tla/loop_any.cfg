SPECIFICATION Spec
CONSTANTS
  Tools <- CoreTools
  ToolNames <- AllNames
  Queries = {q1}
  Urls = {u1}
  Answers = {a1}
  NoAnswer = NoAnswer
  NoArgs = NoArgs
  Blanks = {listed}
  None = None
  Retry = Retry
  NoGroup = NoGroup
  blended = blended
  again = again
  site = site
  named = named
  TextOf <- OwnText
  GroupOf <- NoClue
  Keyless = {}
  Tables = {"none"}
  SiteScoped = {}
  CandidateScoped = {}
  Overbroad = {}
  Driver = "any"
  Uttered <- CoreCalls
  Answerer = FALSE
  RequestSet <- CoreRequests
  MaxSteps = 4
  TimeLimit = None
  Reserve = 1
  ToolTimeout = 0
  MaxAttempts = 1
  MinAttempts <- TwiceExternal
  MaxDuplicates = 2
  ControllerLatency = 0
  ToolLatency = 0
INVARIANTS TypeOK BudgetKept NoExternalRepeat CapsHold CheckedFinal ResearchedStop RowsBounded
PROPERTY RunIsBounded
CHECK_DEADLOCK FALSE
