SPECIFICATION Spec
CONSTANTS
  PerPage = 2
  MaxPages = 4
  PagesAsked <- FirstAndLater
  NotANumber = NotANumber
  Longest = 9
INVARIANTS NoGap FirstFound CountTrue
CHECK_DEADLOCK FALSE
