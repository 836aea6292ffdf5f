SPECIFICATION Spec
CONSTANTS
  Items <- MCItems
  Parts = {1}
  Links = {1, 2}
  MaxLines = 1
  MaxExtra = 1
  MaxInFlight = 2
  Advisors = {sa}
  Customers = {cu}
  PartsDesk = {pd}
PROPERTIES NotStuckInParts AnswersStand HandedOverIsAnswered
CHECK_DEADLOCK FALSE
