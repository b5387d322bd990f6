SPECIFICATION Spec
CONSTANTS
  Tools <- RuleTools
  ToolNames <- AllNames
  Queries = {q1}
  Urls = {u1}
  Answers = {a1, a2}
  NoAnswer = NoAnswer
  NoArgs = NoArgs
  Blanks = {listed}
  None = None
  Retry = Retry
  NoGroup = NoGroup
  blended = blended
  again = again
  site = site
  named = named
  TextOf <- OwnText
  GroupOf <- NoClue
  Keyless = {}
  Tables = {"none"}
  SiteScoped = {}
  CandidateScoped = {}
  Overbroad = {}
  Driver = "rule"
  Uttered = {}
  Answerer = TRUE
  RequestSet <- RuleRequests
  MaxSteps = 4
  TimeLimit = None
  Reserve = 1
  ToolTimeout = 0
  MaxAttempts = 2
  MinAttempts <- FewAttempts
  MaxDuplicates = 2
  ControllerLatency = 0
  ToolLatency = 0
INVARIANT SelfSufficientCommits
CHECK_DEADLOCK FALSE
