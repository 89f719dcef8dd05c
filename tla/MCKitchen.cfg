SPECIFICATION FairSpec
CONSTANTS
  a = a
  b = b
  r1 = r1
  r2 = r2
  r3 = r3
  o1 = o1
  Orders = {o1}
  Requests = {r1, r2, r3}
  Dishes = {a, b}
  MaxQuantity = 2
  Null = Null
  Bills <- MCBills
INVARIANTS IInv KitchenInStep
PROPERTIES KitchenCatchesUp
CHECK_DEADLOCK FALSE
