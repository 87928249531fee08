SPECIFICATION Spec
CONSTANTS
  SecondLength = 1
  Times = {0, 1, 3}
  MaxEvents = 5
  Logs <- MCLogs
INVARIANTS TotalsCountStretches
CHECK_DEADLOCK FALSE
