SPECIFICATION FairTxSpec
CONSTANTS
  o1 = o1
  o2 = o2
  s1 = s1
  s2 = s2
  c1 = c1
  c2 = c2
  r1 = r1
  r2 = r2
  Null = Null
  Free = Free
  Requests = {r1, r2}
  Orders = {o1, o2}
  Settlements = {s1}
  Customer <- MCOneTab
  Amounts = {0}
  Ops = {"CreateOrder", "UpdateOrder", "CreateSettlement", "AddOrder", "RemoveOrder", "Settle", "DeleteSettlement"}
INVARIANTS TxInv DeadlockNeedsSettleOrTwoDeletes
PROPERTIES TabNeverReopens OthersColumnsSurvive EveryRequestEnds
CHECK_DEADLOCK FALSE
