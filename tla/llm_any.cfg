SPECIFICATION Spec
CONSTANTS
  blended = blended
  again = again
  site = site
  named = named
  Tools <- LLMTools
  ToolNames <- AllNames
  Queries <- LLMQueries
  Urls = {u1}
  Answers = {a1}
  NoAnswer = NoAnswer
  NoArgs = NoArgs
  Blanks = {listed}
  Retry = Retry
  None = None
  NoGroup = NoGroup
  TextOf <- LLMText
  GroupOf <- LLMGroup
  Keyless = {}
  Tables = {"none", "open", "mixed"}
  SiteScoped <- Sites
  CandidateScoped <- Named
  Overbroad <- Blends
  Driver = "llm"
  Uttered <- LLMCalls
  Answerer = TRUE
  RequestSet <- LLMRequests
  MaxSteps = 4
  TimeLimit = None
  Reserve = 1
  ToolTimeout = 0
  MaxAttempts = 2
  MinAttempts <- FewAttempts
  MaxDuplicates = 2
  ControllerLatency = 0
  ToolLatency = 0
INVARIANTS OpenCommitJudged NoEarlySurrender CheckedBetween
CHECK_DEADLOCK FALSE
