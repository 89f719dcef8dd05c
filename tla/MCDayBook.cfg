SPECIFICATION DaySpec
CONSTANTS
  o1 = o1
  o2 = o2
  o3 = o3
  Null = Null
  Orders = {o1, o2}
  Settlements = {}
  Customer = Null
  Amounts = {0, 1}
  DayLength = 2
  Horizon = 3
SYMMETRY MCSymmetry
INVARIANTS DayInv NumberDrift NumbersAreDistinct ReportInv ReportAddsUp
CHECK_DEADLOCK FALSE
