SPECIFICATION Spec
CONSTANTS
  o1 = o1
  o2 = o2
  s1 = s1
  s2 = s2
  s3 = s3
  c1 = c1
  c2 = c2
  Null = Null
  Orders <- MCOrders
  Settlements <- MCSettlements
  Customer <- MCCustomer
  Amounts = {0, 1}
SYMMETRY MCSymmetry
INVARIANTS TypeOK IInv LinksAreLive OneOpenTab SettledKeepsOrders
PROPERTIES StatusOnlyAdvances ClosedBooks ExactWhenTouched SettlePaysOrders
CHECK_DEADLOCK FALSE
