SPECIFICATION Spec
CONSTANTS
  t1 = t1
  t2 = t2
  m1 = m1
  None = None
  Talks <- TwoTalks
  Messages <- ThreeMessages
  Debug = TRUE
  Offered = {"shell", "broken", "plain"}
INVARIANTS OneAgentPerContext EndsOnce JoinedOnlyLive ContinuedBySame ResetForgets
PROPERTY AllServed
CHECK_DEADLOCK FALSE
