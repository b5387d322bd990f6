SPECIFICATION Spec
CONSTANTS
  Tools <- RuleTools
  ToolNames <- AllNames
  Queries = {q1}
  Urls = {u1}
  Answers = {a1, a2}
  NoAnswer = NoAnswer
  NoArgs = NoArgs
  Blanks = {listed}
  None = None
  Retry = Retry
  NoGroup = NoGroup
  blended = blended
  again = again
  site = site
  named = named
  TextOf <- OwnText
  GroupOf <- NoClue
  Keyless = {q1}
  Tables = {"none"}
  SiteScoped = {}
  CandidateScoped = {}
  Overbroad = {}
  Driver = "rule"
  Uttered = {}
  Answerer = TRUE
  RequestSet <- RuleRequests
  MaxSteps = 6
  TimeLimit = 3
  Reserve = 1
  ToolTimeout = None
  MaxAttempts = 3
  MinAttempts <- FewAttempts
  MaxDuplicates = 2
  ControllerLatency = 1
  ToolLatency = 1
INVARIANTS JudgedCommit RepeatsInVain OverrunBounded
CHECK_DEADLOCK FALSE
