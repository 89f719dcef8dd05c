SPECIFICATION TxSpec
CONSTANTS
  o1 = o1
  o2 = o2
  s1 = s1
  s2 = s2
  c1 = c1
  c2 = c2
  r1 = r1
  r2 = r2
  Null = Null
  Free = Free
  Requests = {r1, r2}
  Orders = {o1}
  Settlements = {s1}
  Customer <- MCOneTab
  Amounts = {0, 1}
  Ops = {"CreateOrder", "UpdateOrder", "UpdateOrderStatus", "CreateSettlement", "AddOrder"}
INVARIANTS TxTypeOK TxInv OrderNeverEmpty
PROPERTIES TotalNamesItsLines OthersColumnsSurvive
CHECK_DEADLOCK FALSE
SYMMETRY MCSymmetry
