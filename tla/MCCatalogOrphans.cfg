SPECIFICATION Spec
CONSTANTS
  r1 = r1
  r2 = r2
  c1 = c1
  c2 = c2
  g1 = g1
  g2 = g2
  i1 = i1
  i2 = i2
  k1 = k1
  k2 = k2
  m1 = m1
  m2 = m2
  t1 = t1
  t2 = t2
  n1 = n1
  n2 = n2
  Null = Null
  Requests = {r1, r2}
  Ops = {"CreateMenuCategory", "CreateMenu", "UpdateMenu", "DeleteMenu"}
  Categories = {c1}
  Groups = {g1}
  Items = {i1}
  Templates = {k1}
  Menus = {m1}
  Types = {t1}
  Names = {n1}
  Prices = {0, 1}
  Lists <- MCFewLists
INVARIANTS NoOrphans
