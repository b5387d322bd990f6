SPECIFICATION Spec
CONSTANTS
  o1 = o1
  o2 = o2
  o3 = o3
  Outputs <- ThreeOutputs
  Tasks <- SomeTasks
  MaxReply = 3
  MaxRows = 2
  MaxQueries = 2
INVARIANTS ReadersAgree NothingPassedOver GuardsWin
CHECK_DEADLOCK FALSE
