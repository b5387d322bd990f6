SPECIFICATION Spec
CONSTANTS
  name = name
  number = number
  excuse = excuse
  snippet = snippet
  commit = commit
  token = token
  refusal = refusal
  redaction = redaction
  noEvidence = noEvidence
  noContext = noContext
  NoText = NoText
  Texts <- AllTexts
  Structured = {commit}
  NonAnswer = {excuse, noEvidence}
  Raw = {snippet}
  Secret = {token}
  Repeats <- Restated
  Excerpt <- Whole
  Refusal <- refusal
  Redaction <- redaction
  NoEvidence <- noEvidence
  NoContext <- noContext
  ToolTurns <- Recorded
  Levels = {0, 5, 100}
  Low = 5
  MaxTurns = 2
INVARIANT VerifierAlwaysEnds
CHECK_DEADLOCK FALSE
