SPECIFICATION TxSpec
CONSTANTS
  o1 = o1
  o2 = o2
  s1 = s1
  s2 = s2
  c1 = c1
  c2 = c2
  r1 = r1
  r2 = r2
  Null = Null
  Free = Free
  Requests = {r1}
  Orders = {o1, o2}
  Settlements = {s1, s2}
  Customer <- MCSameCustomer
  Amounts = {0, 1}
  Ops = {"CreateOrder", "UpdateOrder", "UpdateOrderStatus", "CreateSettlement", "AddOrder", "RemoveOrder", "Settle", "DeleteSettlement"}
INVARIANTS SerialInv
PROPERTIES ImplementsHandlers
CHECK_DEADLOCK FALSE
SYMMETRY MCTabSymmetry
