--------------------------- MODULE DayBookProofs ---------------------------
(***************************************************************************)
(* Pick-up numbers, for any number of orders and days: DayInv is inductive *)
(* and bounds how far a number that was called out can be from the one the *)
(* order has now.                                                          *)
(*                                                                         *)
(* The set of orders counted up to an order only changes by the commit of  *)
(* an order that has its id already; whatever begins later draws a higher  *)
(* id, and no handler of OrderBook lets an order disappear.                *)
(***************************************************************************)
EXTENDS DayBook, OrderBookProofs, Sums

\* What is counted up to o depends on which orders can be seen and on their entries.
LEMMA CountedOfSame ==
  ASSUME entry' = entry, \A p \in Orders : Exists(p)' <=> Exists(p), NEW o \in Orders
  PROVE  Counted(o)' = Counted(o)
BY DEF Counted, OrdersOf, Within

LEMMA InFlightOfSame ==
  ASSUME entry' = entry, NEW o \in Orders
  PROVE  InFlightBefore(o)' = InFlightBefore(o)
BY DEF InFlightBefore, Within

\* An order is never taken back.
LEMMA OrdersStay ==
  ASSUME TypeOK, Next, NEW o \in Orders, Exists(o)
  PROVE  Exists(o)'
<1>1. StatusStep(o)
  BY NextStatus
<1>2. order[o].status \in OrderStatuses /\ order[o].status # "NONE"
  BY DEF TypeOK, OrderRow, Exists
<1>3. \A target \in ApiStatuses : "NONE" \notin StatusAfter(order[o].status, target)
  BY DEF StatusAfter, ResolveTrigger, Fire, TriggerTable, Permitted
<1> QED
  BY <1>1, <1>2, <1>3 DEF StatusStep, Exists

\* A step that leaves the entries alone, and which orders can be seen, keeps what DayInv
\* says of ids and looks, if it looks at no number.
LEMMA SameEntries ==
  ASSUME DayInv, entry' = entry, drawn' = drawn, shown' = shown,
         \A p \in Orders : Exists(p)' <=> Exists(p)
  PROVE  SeenWhenCommitted' /\ IdsAreUnique' /\ LooksAge'
<1>1. SeenWhenCommitted'
  BY DEF DayInv, SeenWhenCommitted
<1>2. IdsAreUnique'
  BY DEF DayInv, IdsAreUnique
<1>3. LooksAge'
  BY CountedOfSame, InFlightOfSame DEF DayInv, LooksAge
<1> QED
  BY <1>1, <1>2, <1>3

LEMMA InitDayInv == DayInit => DayInv
<1> SUFFICES ASSUME DayInit PROVE DayInv
  OBVIOUS
<1>1. TypeOK
  BY InitTypeOK DEF DayInit
<1>2. DayTypeOK
  BY TimeAssumption DEF DayInit, DayTypeOK, Entry, Look
<1>3. SeenWhenCommitted /\ IdsAreUnique /\ LooksAge
  BY DEF DayInit, Init, NewOrder, Exists, SeenWhenCommitted, IdsAreUnique, LooksAge
<1> QED
  BY <1>1, <1>2, <1>3 DEF DayInv

-----------------------------------------------------------------------------
(* The steps of a creation *)

LEMMA StampDayInv ==
  ASSUME DayInv, NEW o \in Orders, StampOrder(o)
  PROVE  DayInv'
<1>1. entry[o] \in Entry /\ entry[o].stage = "none" /\ ~Exists(o)
  BY DEF DayInv, DayTypeOK, StampOrder, SeenWhenCommitted
<1>2. entry' \in [Orders -> Entry]
  BY <1>1 DEF DayInv, DayTypeOK, StampOrder, Entry
<1>3. TypeOK' /\ DayTypeOK'
  BY <1>2 DEF DayInv, TypeOK, DayTypeOK, StampOrder
<1>4. /\ \A p \in Orders : p # o => entry'[p] = entry[p]
      /\ entry'[o].stage = "stamped" /\ entry'[o].id = entry[o].id
      /\ \A p \in Orders : entry'[p].id = entry[p].id
      /\ \A p \in Orders : Exists(p)' <=> Exists(p)
  BY DEF DayInv, DayTypeOK, StampOrder, Entry, Exists
<1>5. SeenWhenCommitted' /\ IdsAreUnique'
  BY <1>1, <1>4 DEF DayInv, SeenWhenCommitted, IdsAreUnique, StampOrder
<1>6. ASSUME NEW p \in Orders, Exists(p)
      PROVE  Counted(p)' = Counted(p) /\ InFlightBefore(p)' = InFlightBefore(p)
  BY <1>1, <1>4, <1>6 DEF Counted, OrdersOf, InFlightBefore, Within
<1>7. LooksAge'
  BY <1>4, <1>6 DEF DayInv, LooksAge, StampOrder
<1> QED
  BY <1>3, <1>5, <1>7 DEF DayInv

LEMMA DrawDayInv ==
  ASSUME DayInv, NEW o \in Orders, DrawId(o)
  PROVE  DayInv'
<1>1. entry[o] \in Entry /\ entry[o].stage = "stamped" /\ ~Exists(o) /\ drawn \in Nat
  BY DEF DayInv, DayTypeOK, DrawId, SeenWhenCommitted
<1>2. entry' \in [Orders -> Entry]
  <2>1. drawn + 1 \in Nat
    BY <1>1
  <2>2. [entry[o] EXCEPT !.stage = "inserted", !.id = drawn + 1] \in Entry
    BY <1>1, <2>1 DEF Entry
  <2> QED
    BY <2>2 DEF DayInv, DayTypeOK, DrawId
<1>3. TypeOK' /\ DayTypeOK'
  BY <1>1, <1>2 DEF DayInv, TypeOK, DayTypeOK, DrawId
<1>4. /\ \A p \in Orders : p # o => entry'[p] = entry[p]
      /\ entry'[o].stage = "inserted" /\ entry'[o].id = drawn + 1
      /\ \A p \in Orders : Exists(p)' <=> Exists(p)
      /\ \A p \in Orders : entry[p].id \in Nat /\ entry[p].id <= drawn
  BY DEF DayInv, DayTypeOK, IdsAreUnique, DrawId, Entry, Exists
<1>5. SeenWhenCommitted'
  BY <1>1, <1>4 DEF DayInv, SeenWhenCommitted
<1>6. IdsAreUnique'
  BY <1>1, <1>4 DEF DayInv, IdsAreUnique, DrawId
<1>7. ASSUME NEW p \in Orders, Exists(p)
      PROVE  Counted(p)' = Counted(p) /\ InFlightBefore(p)' = InFlightBefore(p)
  <2>1. p # o
    BY <1>1, <1>7
  <2>2. ~(entry'[o].id < entry'[p].id)
    BY <1>1, <1>4, <2>1
  <2> QED
    BY <1>1, <1>4, <2>1, <2>2 DEF Counted, OrdersOf, InFlightBefore, Within
<1>8. LooksAge'
  BY <1>4, <1>7 DEF DayInv, LooksAge, DrawId
<1> QED
  BY <1>3, <1>5, <1>6, <1>8 DEF DayInv

LEMMA FailDayInv ==
  ASSUME DayInv, NEW o \in Orders, FailOrder(o)
  PROVE  DayInv'
<1>1. entry[o] \in Entry /\ entry[o].stage \in {"stamped", "inserted"} /\ ~Exists(o)
  BY DEF DayInv, DayTypeOK, FailOrder, SeenWhenCommitted
<1>2. entry' \in [Orders -> Entry]
  BY <1>1 DEF DayInv, DayTypeOK, FailOrder, Entry
<1>3. TypeOK' /\ DayTypeOK'
  BY <1>2 DEF DayInv, TypeOK, DayTypeOK, FailOrder
<1>4. /\ \A p \in Orders : p # o => entry'[p] = entry[p]
      /\ entry'[o].stage = "failed"
      /\ \A p \in Orders : entry'[p].id = entry[p].id /\ entry'[p].created = entry[p].created
      /\ \A p \in Orders : Exists(p)' <=> Exists(p)
  BY DEF DayInv, DayTypeOK, FailOrder, Entry, Exists
<1>5. SeenWhenCommitted' /\ IdsAreUnique'
  BY <1>1, <1>4 DEF DayInv, SeenWhenCommitted, IdsAreUnique, FailOrder
<1>6. ASSUME NEW p \in Orders
      PROVE  Counted(p)' = Counted(p) /\ InFlightBefore(p)' \subseteq InFlightBefore(p)
  BY <1>4 DEF Counted, OrdersOf, InFlightBefore, Within
<1>7. LooksAge'
  BY <1>4, <1>6 DEF DayInv, LooksAge, FailOrder
<1> QED
  BY <1>3, <1>5, <1>7 DEF DayInv

\* A commit adds the order to what is counted up to others, and takes it from the
\* orders in flight: a look that knew of it stays right.
LEMMA CommitDayInv ==
  ASSUME DayInv, NEW o \in Orders, NEW total \in Amounts, NEW actual \in Amounts,
         CommitOrder(o, total, actual)
  PROVE  DayInv'
<1>1. entry[o] \in Entry /\ entry[o].stage = "inserted" /\ ~Exists(o)
  BY DEF DayInv, DayTypeOK, CommitOrder, SeenWhenCommitted
<1>2. entry' \in [Orders -> Entry]
  BY <1>1 DEF DayInv, DayTypeOK, CommitOrder, Entry
<1>3. TypeOK'
  BY CreateOrderTypeOK, NextTypeOK DEF DayInv, CommitOrder, Next
<1>4. DayTypeOK'
  BY <1>2 DEF DayInv, DayTypeOK, CommitOrder
<1>5. /\ \A p \in Orders : p # o => entry'[p] = entry[p]
      /\ entry'[o].stage = "committed"
      /\ \A p \in Orders : entry'[p].id = entry[p].id /\ entry'[p].created = entry[p].created
      /\ \A p \in Orders : p # o => (Exists(p)' <=> Exists(p))
      /\ Exists(o)'
  BY DEF DayInv, DayTypeOK, CommitOrder, Entry, CreateOrder, NewOrder, Exists, TypeOK, OrderRow
<1>6. SeenWhenCommitted'
  BY <1>5 DEF DayInv, SeenWhenCommitted
<1>7. IdsAreUnique'
  BY <1>1, <1>5 DEF DayInv, IdsAreUnique, CommitOrder
<1>8. ASSUME NEW p \in Orders, Exists(p)
      PROVE  /\ Counted(p) \subseteq Counted(p)'
             /\ Counted(p)' \subseteq Counted(p) \cup InFlightBefore(p)
             /\ InFlightBefore(p)' \subseteq InFlightBefore(p)
  <2>1. p # o /\ entry[p].id # entry[o].id
    BY <1>1, <1>8 DEF DayInv, IdsAreUnique
  <2>2. entry[p].id \in Nat /\ entry[o].id \in Nat
    BY DEF DayInv, DayTypeOK, Entry
  <2>3. entry[o].id <= entry[p].id => entry[o].id < entry[p].id
    BY <2>1, <2>2
  <2> QED
    BY <1>1, <1>5, <2>1, <2>3 DEF Counted, OrdersOf, InFlightBefore, Within
<1>9. LooksAge'
  <2> SUFFICES ASSUME NEW p \in Orders, NEW look \in shown[p]
               PROVE  /\ Exists(p)'
                      /\ look.counted \subseteq Counted(p)'
                      /\ Counted(p)' \subseteq look.counted \cup look.ahead
                      /\ InFlightBefore(p)' \subseteq look.ahead
    BY DEF LooksAge, CommitOrder
  <2>1. /\ Exists(p)
        /\ look.counted \subseteq Counted(p)
        /\ Counted(p) \subseteq look.counted \cup look.ahead
        /\ InFlightBefore(p) \subseteq look.ahead
    BY DEF DayInv, LooksAge
  <2> QED
    BY <1>1, <1>5, <1>8, <2>1
<1> QED
  BY <1>3, <1>4, <1>6, <1>7, <1>9 DEF DayInv

-----------------------------------------------------------------------------
(* Other steps *)

LEMMA ChangeDayInv ==
  ASSUME DayInv, ChangeOrders
  PROVE  DayInv'
<1>1. TypeOK'
  BY NextTypeOK DEF DayInv, ChangeOrders
<1>2. DayTypeOK'
  BY DEF DayInv, DayTypeOK, ChangeOrders
<1>3. \A p \in Orders : Exists(p)' <=> Exists(p)
  BY OrdersStay DEF DayInv, ChangeOrders
<1> QED
  BY <1>1, <1>2, <1>3, SameEntries DEF DayInv, ChangeOrders

LEMMA ShowDayInv ==
  ASSUME DayInv, NEW o \in Orders, ShowNumber(o)
  PROVE  DayInv'
<1> DEFINE look0 == [counted |-> Counted(o), ahead |-> InFlightBefore(o)]
<1>1. look0 \in Look
  BY DEF Look, Counted, OrdersOf, InFlightBefore
<1>2. TypeOK' /\ DayTypeOK'
  BY <1>1 DEF DayInv, TypeOK, DayTypeOK, ShowNumber
<1>3. \A p \in Orders : Exists(p)' <=> Exists(p)
  BY DEF ShowNumber, Exists
<1>4. SeenWhenCommitted' /\ IdsAreUnique'
  BY <1>3 DEF DayInv, SeenWhenCommitted, IdsAreUnique, ShowNumber
<1>5. \A p \in Orders : Counted(p)' = Counted(p) /\ InFlightBefore(p)' = InFlightBefore(p)
  BY <1>3, CountedOfSame, InFlightOfSame DEF ShowNumber
<1>6. shown'[o] \subseteq {look0} /\ \A p \in Orders : p # o => shown'[p] = shown[p]
  BY DEF DayInv, DayTypeOK, ShowNumber
<1>7. Exists(o)
  BY DEF ShowNumber
<1>8. LooksAge'
  <2> SUFFICES ASSUME NEW p \in Orders, NEW look \in shown'[p]
               PROVE  /\ Exists(p)
                      /\ look.counted \subseteq Counted(p)
                      /\ Counted(p) \subseteq look.counted \cup look.ahead
                      /\ InFlightBefore(p) \subseteq look.ahead
    BY <1>3, <1>5 DEF LooksAge
  <2>1. CASE p = o
    BY <2>1, <1>6, <1>7
  <2>2. CASE p # o
    BY <2>2, <1>6 DEF DayInv, LooksAge
  <2> QED
    BY <2>1, <2>2
<1> QED
  BY <1>2, <1>4, <1>8 DEF DayInv

\* The clock and reports leave orders, entries and looks alone.
LEMMA RestDayInv ==
  ASSUME DayInv, UNCHANGED <<order, settlement, entry, drawn, shown>>, now' \in 0 .. Horizon
  PROVE  DayInv'
<1>1. TypeOK' /\ DayTypeOK'
  BY DEF DayInv, TypeOK, DayTypeOK
<1>2. \A p \in Orders : Exists(p)' <=> Exists(p)
  BY DEF Exists
<1> QED
  BY <1>1, <1>2, SameEntries DEF DayInv

LEMMA NextDayInv == DayInv /\ [DayNext]_dayVars => DayInv'
<1> SUFFICES ASSUME DayInv, [DayNext]_dayVars PROVE DayInv'
  OBVIOUS
<1>1. now \in 0 .. Horizon
  BY DEF DayInv, DayTypeOK
<1>2. CASE Tick
  <2>1. now' \in 0 .. Horizon
    BY <1>1, <1>2, TimeAssumption DEF Tick
  <2> QED
    BY <1>2, <2>1, RestDayInv DEF Tick
<1>3. ASSUME NEW start, NEW end, ReadDaily(start, end) PROVE DayInv'
  BY <1>1, <1>3, RestDayInv DEF ReadDaily
<1>4. CASE ReadSummary
  BY <1>1, <1>4, RestDayInv DEF ReadSummary
<1>5. CASE UNCHANGED dayVars
  BY <1>1, <1>5, RestDayInv DEF dayVars
<1> QED
  BY <1>2, <1>3, <1>4, <1>5, StampDayInv, DrawDayInv, FailDayInv, CommitDayInv, ChangeDayInv,
     ShowDayInv DEF DayNext

\* Ids are unique, and whatever is counted of an order's day since a number was called
\* out was in flight at that moment.
THEOREM DayInductive == DaySpec => []DayInv
<1> QED
  BY InitDayInv, NextDayInv, PTL DEF DaySpec

-----------------------------------------------------------------------------
(* The properties *)

LEMMA CountedFinite ==
  ASSUME NEW o \in Orders
  PROVE  Counted(o) \in SUBSET Orders /\ IsFiniteSet(Counted(o))
BY OrdersAssumption, FS_Subset DEF Counted, OrdersOf

\* A number that was called out is too low by at most the creations in flight then.
THEOREM NumbersDrift == DaySpec => []NumberDrift
<1>1. DayInv => NumberDrift
  <2> SUFFICES ASSUME DayInv, NEW o \in Orders, NEW look \in shown[o]
               PROVE  /\ Cardinality(look.counted) <= DailySequence(o)
                      /\ DailySequence(o) <= Cardinality(look.counted) + Cardinality(look.ahead)
    BY DEF NumberDrift
  <2>1. look.counted \in SUBSET Orders /\ look.ahead \in SUBSET Orders
    BY DEF DayInv, DayTypeOK, Look
  <2>2. IsFiniteSet(look.counted) /\ IsFiniteSet(look.ahead)
    BY <2>1, OrdersAssumption, FS_Subset
  <2>3. look.counted \subseteq Counted(o) /\ Counted(o) \subseteq look.counted \cup look.ahead
    BY DEF DayInv, LooksAge
  <2>4. Cardinality(look.counted) <= Cardinality(Counted(o))
    BY <2>3, CountedFinite, FS_Subset
  <2>5. /\ IsFiniteSet(look.counted \cup look.ahead)
        /\ Cardinality(look.counted \cup look.ahead)
             = Cardinality(look.counted) + Cardinality(look.ahead)
                 - Cardinality(look.counted \cap look.ahead)
    BY <2>2, FS_Union
  <2>6. Cardinality(Counted(o)) <= Cardinality(look.counted \cup look.ahead)
    BY <2>3, <2>5, FS_Subset
  <2>7. IsFiniteSet(look.counted \cap look.ahead)
    BY <2>2, FS_Intersection
  <2>8. /\ Cardinality(look.counted) \in Nat /\ Cardinality(look.ahead) \in Nat
        /\ Cardinality(look.counted \cap look.ahead) \in Nat /\ Cardinality(Counted(o)) \in Nat
    BY <2>2, <2>7, CountedFinite, FS_CardinalityType
  <2> QED
    BY <2>4, <2>5, <2>6, <2>8 DEF DailySequence
<1> QED
  BY <1>1, DayInductive, PTL

\* A creation time lies within its day.
LEMMA WithinItsDay ==
  ASSUME DayInv, NEW o \in Orders
  PROVE  Within(o, DayOf(entry[o].created), DayOf(entry[o].created))
<1>1. entry[o].created \in Nat
  BY TimeAssumption DEF DayInv, DayTypeOK, Entry
<1>2. ASSUME NEW t \in Nat, NEW n \in Nat \ {0}
      PROVE  (t \div n) * n <= t /\ t < (t \div n + 1) * n
  OBVIOUS
<1> QED
  BY <1>1, <1>2, TimeAssumption DEF Within, DayOf, Midnight

\* Numbers read with no earlier creation in flight are never the same.
THEOREM NumbersDiffer == DaySpec => []NumbersAreDistinct
<1>1. ASSUME DayInv, NEW o \in Orders, NEW p \in Orders, Exists(o), Exists(p),
             DayOf(entry[o].created) = DayOf(entry[p].created), entry[o].id < entry[p].id
      PROVE  Cardinality(Counted(o)) # Cardinality(Counted(p))
  <2>1. /\ entry[o].id \in Nat /\ entry[p].id \in Nat
        /\ \A q \in Orders : entry[q].id \in Nat
    BY <1>1 DEF DayInv, DayTypeOK, Entry
  <2>2. Counted(o) \subseteq Counted(p)
    BY <1>1, <2>1 DEF Counted, OrdersOf
  <2>3. p \in Counted(p)
    BY <1>1, <2>1, WithinItsDay DEF Counted, OrdersOf
  <2>4. p \notin Counted(o)
    BY <1>1, <2>1 DEF Counted
  <2> QED
    BY <2>2, <2>3, <2>4, CountedFinite, FS_Subset
<1>2. DayInv => NumbersAreDistinct
  <2> SUFFICES ASSUME DayInv, NEW o \in Orders, NEW p \in Orders,
                      NEW look \in shown[o], NEW other \in shown[p], o # p,
                      DayOf(entry[o].created) = DayOf(entry[p].created),
                      look.ahead = {}, other.ahead = {}
               PROVE  Cardinality(look.counted) # Cardinality(other.counted)
    BY DEF NumbersAreDistinct
  <2>1. Exists(o) /\ Exists(p) /\ look.counted = Counted(o) /\ other.counted = Counted(p)
    BY DEF DayInv, LooksAge
  <2>2. entry[o].id # entry[p].id /\ entry[o].id \in Nat /\ entry[p].id \in Nat
    BY <2>1 DEF DayInv, DayTypeOK, Entry, SeenWhenCommitted, IdsAreUnique
  <2>3. entry[o].id < entry[p].id \/ entry[p].id < entry[o].id
    BY <2>2
  <2> QED
    BY <1>1, <2>1, <2>3
<1> QED
  BY <1>2, DayInductive, PTL

-----------------------------------------------------------------------------
(* Reports *)

\* The orders of the days i to j were created on one of them.
LEMMA DayBetween ==
  ASSUME DayInv, NEW o \in Orders, NEW i \in Int, NEW j \in Int, Within(o, i, j)
  PROVE  DayOf(entry[o].created) \in i .. j
<1>1. PICK t, n, d : t = entry[o].created /\ n = DayLength /\ d = DayOf(t)
  OBVIOUS
<1>2. t \in Nat /\ n \in Nat \ {0} /\ d = t \div n
  BY <1>1, TimeAssumption DEF DayInv, DayTypeOK, Entry, DayOf
<1>3. d \in Int /\ d * n <= t /\ t < (d + 1) * n
  BY <1>2
<1>4. i * n <= t /\ t < (j + 1) * n
  BY <1>1 DEF Within, Midnight
<1>5. ASSUME NEW a \in Int, NEW b \in Int, a * n < b * n
      PROVE  a < b
  <2>1. ASSUME b <= a PROVE b * n <= a * n
    BY <1>2, <2>1
  <2>2. a * n \in Int /\ b * n \in Int
    BY <1>2
  <2>3. QED
    BY <1>5, <2>1, <2>2
<1>6. i * n < (d + 1) * n /\ d * n < (j + 1) * n
  BY <1>2, <1>3, <1>4
<1>7. i < d + 1 /\ d < j + 1
  BY <1>3, <1>5, <1>6
<1>8. QED
  BY <1>1, <1>3, <1>7

LEMMA SalesFinite ==
  ASSUME NEW range
  PROVE  SaleOrders(range) \in SUBSET Orders /\ IsFiniteSet(SaleOrders(range))
BY OrdersAssumption, FS_Subset DEF SaleOrders

\* Reports of orders that did not change, nor their creation times, are the same.
LEMMA SameSales ==
  ASSUME order' = order, \A o \in Orders : Exists(o) => entry'[o].created = entry[o].created,
         NEW range
  PROVE  SaleOrders(range)' = SaleOrders(range) /\ AggregateDaily(range)' = AggregateDaily(range)
<1>1. \A o \in Orders : (Exists(o)' <=> Exists(o)) /\ Revenue(o)' = Revenue(o)
  BY DEF Exists, Revenue
<1>2. SaleOrders(range)' = SaleOrders(range)
  BY <1>1 DEF SaleOrders, Within
<1>3. \A S : Figures(S)' = Figures(S)
  BY <1>1 DEF Figures
<1>4. ASSUME NEW d
      PROVE  {o \in SaleOrders(range) : DayOf(entry[o].created) = d}'
               = {o \in SaleOrders(range) : DayOf(entry[o].created) = d}
  BY <1>2 DEF SaleOrders, DayOf
<1>5. QED
  BY <1>2, <1>3, <1>4 DEF AggregateDaily

\* A step that leaves the report alone or touches it, and takes no order back.
LEMMA ReportKept ==
  ASSUME DayInv, DayInv', ReportInv, (report' = report /\ order' = order) \/ Touch,
         \A o \in Orders : Exists(o) => Exists(o)' /\ entry'[o].created = entry[o].created
  PROVE  ReportInv'
<1>1. /\ report'.stage = report.stage
      /\ report.stage = "daily" =>
           /\ DOMAIN report' = {"stage", "touched", "range", "daily"}
           /\ report'.range = report.range /\ report'.daily = report.daily
           /\ report.touched \subseteq report'.touched /\ report'.touched \subseteq Orders
           /\ \A o \in Orders \ report'.touched : order'[o] = order[o]
  BY DEF ReportInv, Touch
<1>2. CASE report.stage # "daily"
  BY <1>1, <1>2 DEF ReportInv
<1>3. CASE report.stage = "daily"
  <2>1. PICK range, daily, old, new :
          /\ range = report.range /\ daily = report.daily
          /\ old = report.touched /\ new = report'.touched
    OBVIOUS
  <2>2. /\ range.first \in Int /\ range.last \in Int /\ DOMAIN daily = range.first .. range.last
        /\ old = {} => daily = AggregateDaily(range)
        /\ old \subseteq new /\ new \subseteq Orders
        /\ \A o \in Orders \ new : order'[o] = order[o]
    BY <1>1, <1>3, <2>1 DEF ReportInv
  <2>3. PICK S \in SUBSET Orders :
          /\ \A o \in S : Exists(o) /\ Within(o, range.first, range.last)
          /\ \A o \in Orders \ old : o \in S <=> o \in SaleOrders(range)
          /\ \A d \in DOMAIN daily :
               daily[d].orders = Cardinality({o \in S : DayOf(entry[o].created) = d})
    BY <1>3, <2>1 DEF ReportInv
  <2>4. \A o \in S : Exists(o)' /\ Within(o, range.first, range.last)'
    BY <2>3 DEF Within
  <2>5. \A o \in Orders \ new : o \in S <=> o \in SaleOrders(range)'
    BY <2>2, <2>3 DEF SaleOrders, Exists, Within
  <2>6. \A d \in DOMAIN daily :
          daily[d].orders = Cardinality({o \in S : DayOf(entry'[o].created) = d})
    <3>1. \A d : {o \in S : DayOf(entry'[o].created) = d} = {o \in S : DayOf(entry[o].created) = d}
      BY <2>3
    <3>2. QED
      BY <2>3, <3>1
  <2>7. ASSUME new = {}
        PROVE  daily = AggregateDaily(range)'
    <3>1. order' = order
      BY <2>2, <2>7 DEF DayInv, TypeOK
    <3>2. QED
      BY <2>2, <2>7, <3>1, SameSales
  <2>8. \E U \in SUBSET Orders :
          /\ \A o \in U : Exists(o)' /\ Within(o, range.first, range.last)'
          /\ \A o \in Orders \ new : o \in U <=> o \in SaleOrders(range)'
          /\ \A d \in DOMAIN daily :
               daily[d].orders = Cardinality({o \in U : DayOf(entry'[o].created) = d})
    BY <2>4, <2>5, <2>6
  <2>9. report'.stage = "daily" /\ report'.range = range /\ report'.daily = daily
    BY <1>1, <1>3, <2>1
  <2>10. SaleOrders(report.range)' = SaleOrders(range)'
    BY <2>9 DEF SaleOrders, Within
  <2>11. AggregateDaily(report.range)' = AggregateDaily(range)'
    BY <2>9, <2>10 DEF AggregateDaily, Figures
  <2>12. \A o : Within(o, report.range.first, report.range.last)'
                  <=> Within(o, range.first, range.last)'
    BY <2>9 DEF Within
  <2>13. \E U \in SUBSET Orders :
           /\ \A o \in U : Exists(o)' /\ Within(o, report.range.first, report.range.last)'
           /\ \A o \in Orders \ report'.touched : o \in U <=> o \in SaleOrders(report.range)'
           /\ \A d \in DOMAIN report'.daily :
                report'.daily[d].orders = Cardinality({o \in U : DayOf(entry[o].created)' = d})
    <3>1. \A o : DayOf(entry[o].created)' = DayOf(entry'[o].created)
      BY DEF DayOf
    <3>2. PICK U \in SUBSET Orders :
            /\ \A o \in U : Exists(o)' /\ Within(o, range.first, range.last)'
            /\ \A o \in Orders \ new : o \in U <=> o \in SaleOrders(range)'
            /\ \A d \in DOMAIN daily :
                 daily[d].orders = Cardinality({o \in U : DayOf(entry'[o].created) = d})
      BY <2>8
    <3>3. \A d : {o \in U : DayOf(entry[o].created)' = d} = {o \in U : DayOf(entry'[o].created) = d}
      BY <3>1
    <3>4. \A o \in U : Exists(o)' /\ Within(o, report.range.first, report.range.last)'
      BY <2>12, <3>2
    <3>5. \A o \in Orders \ report'.touched : o \in U <=> o \in SaleOrders(report.range)'
      BY <2>1, <2>10, <3>2
    <3>6. \A d \in DOMAIN report'.daily :
            report'.daily[d].orders = Cardinality({o \in U : DayOf(entry[o].created)' = d})
      BY <2>9, <3>2, <3>3
    <3>7. QED
      BY <3>4, <3>5, <3>6
  <2>14. report'.touched = {} => report'.daily = AggregateDaily(report.range)'
    BY <2>1, <2>7, <2>9, <2>11
  <2>15. /\ report'.range.first \in Int /\ report'.range.last \in Int
         /\ DOMAIN report'.daily = report'.range.first .. report'.range.last
    BY <2>2, <2>9
  <2>16. QED
    BY <1>1, <1>3, <2>9, <2>13, <2>14, <2>15, Zenon DEF ReportInv
<1>4. QED
  BY <1>2, <1>3

\* The first query.
LEMMA ReportBegins ==
  ASSUME DayInv, NEW start \in Dates, NEW end \in Dates, ReadDaily(start, end)
  PROVE  ReportInv'
<1>1. PICK range, S : range = DateRange(start, end) /\ S = SaleOrders(range)
  OBVIOUS
<1>2. report' = [stage |-> "daily", touched |-> {}, range |-> range,
                 daily |-> AggregateDaily(range)]
  BY <1>1 DEF ReadDaily
<1>3. range.first \in Int /\ range.last \in Int
  <2>1. \A t \in Nat : DayOf(t) \in Int
    BY TimeAssumption DEF DayOf
  <2>2. now \in Nat
    BY TimeAssumption DEF DayInv, DayTypeOK
  <2>3. PICK i, j : /\ i = (IF start = Null THEN DayOf(now) ELSE start)
                    /\ j = (IF end = Null THEN i ELSE end)
    OBVIOUS
  <2>4. i \in Int /\ j \in Int
    BY <2>1, <2>2, <2>3 DEF Dates
  <2>5. range = IF j < i THEN [first |-> j, last |-> i] ELSE [first |-> i, last |-> j]
    BY <1>1, <2>3 DEF DateRange
  <2>6. QED
    BY <2>4, <2>5
<1>4. UNCHANGED <<order, entry>>
  BY DEF ReadDaily
<1>5. SaleOrders(range)' = SaleOrders(range) /\ AggregateDaily(range)' = AggregateDaily(range)
  BY <1>4, SameSales
<1>6. \A o \in S : Exists(o)' /\ Within(o, range.first, range.last)'
  BY <1>1, <1>4 DEF SaleOrders, Exists, Within
<1>7. PICK daily : daily = AggregateDaily(range)
  OBVIOUS
<1>8. /\ DOMAIN daily = range.first .. range.last
      /\ \A d \in DOMAIN daily :
           daily[d].orders = Cardinality({o \in S : DayOf(entry'[o].created) = d})
  BY <1>1, <1>4, <1>7 DEF AggregateDaily, Figures
<1>9. S \in SUBSET Orders
  BY <1>1, SalesFinite
<1>10. QED
  BY <1>1, <1>2, <1>3, <1>5, <1>6, <1>7, <1>8, <1>9 DEF ReportInv, DayOf

LEMMA NextReportInv == DayInv /\ DayInv' /\ ReportInv /\ [DayNext]_dayVars => ReportInv'
<1> SUFFICES ASSUME DayInv, DayInv', ReportInv, [DayNext]_dayVars PROVE ReportInv'
  OBVIOUS
<1>1. ASSUME UNCHANGED <<order, report>>,
             \A o \in Orders : Exists(o) => entry'[o].created = entry[o].created
      PROVE  ReportInv'
  BY <1>1, ReportKept DEF Exists
<1>2. CASE Tick \/ UNCHANGED dayVars
  BY <1>1, <1>2 DEF Tick, dayVars
<1>3. ASSUME NEW o \in Orders, StampOrder(o) \/ DrawId(o) \/ FailOrder(o) PROVE ReportInv'
  <2>1. entry \in [Orders -> Entry] /\ entry[o] \in Entry
    BY DEF DayInv, DayTypeOK
  <2>2. \A q \in Orders : Exists(q) => entry'[q].created = entry[q].created
    BY <1>3, <2>1 DEF StampOrder, DrawId, FailOrder, DayInv, SeenWhenCommitted, Entry
  <2>3. QED
    BY <1>1, <1>3, <2>2 DEF StampOrder, DrawId, FailOrder
<1>4. ASSUME NEW o \in Orders, NEW total \in Amounts, NEW actual \in Amounts,
             CommitOrder(o, total, actual)
      PROVE  ReportInv'
  <2>1. entry \in [Orders -> Entry] /\ entry[o] \in Entry
    BY DEF DayInv, DayTypeOK
  <2>2. \A q \in Orders : entry'[q].created = entry[q].created
    BY <1>4, <2>1 DEF CommitOrder, Entry
  <2>3. \A q \in Orders : Exists(q) => Exists(q)'
    BY <1>4 DEF CommitOrder, CreateOrder, Exists, DayInv, TypeOK
  <2>4. QED
    BY <1>4, <2>2, <2>3, ReportKept DEF CommitOrder
<1>5. CASE ChangeOrders
  <2>1. \A q \in Orders : Exists(q) => Exists(q)'
    BY <1>5, OrdersStay DEF ChangeOrders, DayInv
  <2>2. QED
    BY <1>5, <2>1, ReportKept DEF ChangeOrders
<1>6. ASSUME NEW o \in Orders, ShowNumber(o) PROVE ReportInv'
  BY <1>1, <1>6 DEF ShowNumber
<1>7. ASSUME NEW start \in Dates, NEW end \in Dates, ReadDaily(start, end) PROVE ReportInv'
  BY <1>7, ReportBegins
<1>8. CASE ReadSummary
  BY <1>8 DEF ReadSummary, NoReport, ReportInv
<1>9. QED
  BY <1>2, <1>3, <1>4, <1>5, <1>6, <1>7, <1>8 DEF DayNext

\* Between its two queries a report counts the orders of its first, and it is still the report
\* of the orders as they are unless one of them changed.
THEOREM ReportIsOfItsOrders == DaySpec => []ReportInv
<1>1. DayInit => ReportInv
  BY DEF DayInit, NoReport, ReportInv
<1>2. QED
  BY <1>1, NextReportInv, DayInductive, PTL DEF DaySpec

\* k is the sum of f over the orders of S of each day from first to last.
SumsDays(k, f, S, first, last) ==
  \A d \in first .. last : k[d] = SumFunctionOnSet(f, {o \in S : DayOf(entry[o].created) = d})

\* A field that each day sums over its orders adds up to the sum over all of them.
LEMMA DaysSum ==
  ASSUME DayInv, NEW range, range.first \in Int, range.last \in Int,
         NEW S \in SUBSET Orders, \A o \in S : Within(o, range.first, range.last),
         NEW f, \A o \in S : f[o] \in Int,
         NEW k, SumsDays(k, f, S, range.first, range.last)
  PROVE  SumFunctionOnSet(k, range.first .. range.last) = SumFunctionOnSet(f, S)
<1>1. PICK part, D : /\ part = [o \in Orders |-> DayOf(entry[o].created)]
                     /\ D = range.first .. range.last
  OBVIOUS
<1>2. IsFiniteSet(S) /\ IsFiniteSet(D)
  BY <1>1, OrdersAssumption, FS_Subset, FS_Interval
<1>3. \A o \in S : part[o] \in D
  BY <1>1, DayBetween
<1>4. SumsParts(k, D, f, S, part)
  <2>1. \A d : {o \in S : part[o] = d} = {o \in S : DayOf(entry[o].created) = d}
    BY <1>1
  <2>2. QED
    BY <1>1, <1>3, <2>1 DEF SumsParts, SumsDays
<1>5. SumFunctionOnSet(k, D) = SumFunctionOnSet(f, S)
  BY <1>2, <1>4, SumOfParts
<1>6. QED
  BY <1>1, <1>5, Zenon

LEMMA DaysCount ==
  ASSUME DayInv, NEW range, range.first \in Int, range.last \in Int,
         NEW S \in SUBSET Orders, \A o \in S : Within(o, range.first, range.last),
         NEW k, \A d \in range.first .. range.last :
                  k[d] = Cardinality({o \in S : DayOf(entry[o].created) = d})
  PROVE  SumFunctionOnSet(k, range.first .. range.last) = Cardinality(S)
<1>1. PICK ones : ones = [o \in Orders |-> 1]
  OBVIOUS
<1>2. \A T \in SUBSET Orders : SumFunctionOnSet(ones, T) = Cardinality(T)
  <2>1. \A T \in SUBSET Orders : IsFiniteSet(T) /\ \A o \in T : ones[o] = 1
    BY <1>1, OrdersAssumption, FS_Subset
  <2>2. QED
    BY <2>1, CountIsSum
<1>3. \A d : {o \in S : DayOf(entry[o].created) = d} \in SUBSET Orders
  OBVIOUS
<1>4. SumsDays(k, ones, S, range.first, range.last)
  BY <1>2, <1>3 DEF SumsDays
<1>5. \A o \in S : ones[o] \in Int
  BY <1>1
<1>6. SumFunctionOnSet(k, range.first .. range.last) = SumFunctionOnSet(ones, S)
  BY <1>4, <1>5, DaysSum
<1>7. QED
  BY <1>2, <1>6

\* Sets that only differ in orders of T have sizes that differ by at most that of T.
LEMMA SizesDiffer ==
  ASSUME NEW S \in SUBSET Orders, NEW U \in SUBSET Orders, NEW T \in SUBSET Orders,
         \A o \in Orders \ T : o \in S <=> o \in U
  PROVE  Cardinality(S) - Cardinality(U) \in -Cardinality(T) .. Cardinality(T)
<1>1. ASSUME NEW A \in SUBSET Orders, NEW B \in SUBSET Orders, A \subseteq B \cup T
      PROVE  Cardinality(A) <= Cardinality(B) + Cardinality(T)
  <2>1. IsFiniteSet(A) /\ IsFiniteSet(B) /\ IsFiniteSet(T)
    BY OrdersAssumption, FS_Subset
  <2>2. /\ IsFiniteSet(B \cup T)
        /\ Cardinality(B \cup T) = Cardinality(B) + Cardinality(T) - Cardinality(B \cap T)
    BY <2>1, FS_Union
  <2>3. Cardinality(A) <= Cardinality(B \cup T)
    BY <1>1, <2>2, FS_Subset
  <2>4. IsFiniteSet(B \cap T)
    BY <2>1, FS_Intersection
  <2>5. /\ Cardinality(A) \in Nat /\ Cardinality(B) \in Nat /\ Cardinality(T) \in Nat
        /\ Cardinality(B \cap T) \in Nat
    BY <2>1, <2>4, FS_CardinalityType
  <2>6. QED
    BY <2>2, <2>3, <2>5
<1>2. S \subseteq U \cup T /\ U \subseteq S \cup T
  OBVIOUS
<1>3. /\ Cardinality(S) <= Cardinality(U) + Cardinality(T)
      /\ Cardinality(U) <= Cardinality(S) + Cardinality(T)
  BY <1>1, <1>2
<1>4. Cardinality(S) \in Nat /\ Cardinality(U) \in Nat /\ Cardinality(T) \in Nat
  BY OrdersAssumption, FS_Subset, FS_CardinalityType
<1>5. QED
  BY <1>3, <1>4

\* The days of a report add up to its summary, for any number of orders and days, if no order
\* changed between the two queries, and are off by at most the orders that did.
THEOREM DaysAddUp == DaySpec => []ReportAddsUp
<1>1. ASSUME DayInv, ReportInv, report.stage = "daily"
      PROVE  LET summary == AggregateSummary(report.range) IN
             /\ report.touched = {} => \A field \in {"orders", "revenue", "receivable"} :
                                          Sum(field) = summary[field]
             /\ Sum("orders") - summary.orders
                  \in -Cardinality(report.touched) .. Cardinality(report.touched)
  <2>1. PICK range, daily, D, sales :
          /\ range = report.range /\ daily = report.daily /\ D = range.first .. range.last
          /\ sales = SaleOrders(range)
    OBVIOUS
  <2>2. /\ range.first \in Int /\ range.last \in Int /\ report.touched \in SUBSET Orders
        /\ DOMAIN daily = D
        /\ report.touched = {} => daily = AggregateDaily(range)
    BY <1>1, <2>1 DEF ReportInv
  <2>3. PICK S \in SUBSET Orders :
          /\ \A o \in S : Within(o, range.first, range.last)
          /\ \A o \in Orders \ report.touched : o \in S <=> o \in sales
          /\ \A d \in D : daily[d].orders = Cardinality({o \in S : DayOf(entry[o].created) = d})
    BY <1>1, <2>1, <2>2 DEF ReportInv
  <2>4. AggregateSummary(report.range) = Figures(sales)
    BY <2>1 DEF AggregateSummary
  <2>5. \A field : Sum(field) = SumFunctionOnSet([d \in D |-> daily[d][field]], D)
    BY <2>1, <2>2 DEF Sum
  <2>6. sales \in SUBSET Orders /\ \A o \in sales : Within(o, range.first, range.last)
    BY <2>1 DEF SaleOrders
  <2>7. Sum("orders") = Cardinality(S)
    <3>1. PICK k : k = [d \in D |-> daily[d]["orders"]]
      BY Zenon
    <3>2. \A d \in D : k[d] = Cardinality({o \in S : DayOf(entry[o].created) = d})
      BY <2>3, <3>1
    <3>3. SumFunctionOnSet(k, D) = Cardinality(S)
      BY <1>1, <2>1, <2>2, <2>3, <3>2, DaysCount
    <3>4. QED
      BY <2>5, <3>1, <3>3
  <2>8. Sum("orders") - Figures(sales).orders
          \in -Cardinality(report.touched) .. Cardinality(report.touched)
    BY <2>2, <2>3, <2>6, <2>7, SizesDiffer DEF Figures
  <2>9. ASSUME report.touched = {}
        PROVE  /\ Sum("orders") = Figures(sales).orders
               /\ Sum("revenue") = Figures(sales).revenue
               /\ Sum("receivable") = Figures(sales).receivable
    <3>1. S = sales
      BY <2>3, <2>6, <2>9
    <3>2. PICK f1, f2 : /\ f1 = [o \in Orders |-> Revenue(o)]
                        /\ f2 = [o \in Orders |-> order[o].total]
      BY Zenon
    <3>3. \A o \in sales : f1[o] \in Int /\ f2[o] \in Int
      BY <1>1, <2>6, <3>2, AmountsAssumption DEF DayInv, TypeOK, OrderRow, Revenue
    <3>4. PICK k1, k2 : /\ k1 = [d \in D |-> daily[d]["revenue"]]
                        /\ k2 = [d \in D |-> daily[d]["receivable"]]
      BY Zenon
    <3>5. daily = [d \in D |-> Figures({o \in sales : DayOf(entry[o].created) = d})]
      BY <2>1, <2>2, <2>9 DEF AggregateDaily
    <3>6. \A T : /\ Figures(T).revenue = SumFunctionOnSet(f1, T)
                 /\ Figures(T).receivable = SumFunctionOnSet(f2, T)
                 /\ Figures(T).orders = Cardinality(T)
      BY <3>2 DEF Figures
    <3>7. /\ SumsDays(k1, f1, sales, range.first, range.last)
          /\ SumsDays(k2, f2, sales, range.first, range.last)
      BY <2>1, <3>4, <3>5, <3>6 DEF SumsDays
    <3>8. /\ SumFunctionOnSet(k1, D) = SumFunctionOnSet(f1, sales)
          /\ SumFunctionOnSet(k2, D) = SumFunctionOnSet(f2, sales)
      <4>1. \A o \in sales : Within(o, range.first, range.last)
        BY <2>6
      <4>2. SumFunctionOnSet(k1, range.first .. range.last) = SumFunctionOnSet(f1, sales)
        BY <1>1, <2>2, <2>6, <3>3, <3>7, <4>1, DaysSum
      <4>3. SumFunctionOnSet(k2, range.first .. range.last) = SumFunctionOnSet(f2, sales)
        BY <1>1, <2>2, <2>6, <3>3, <3>7, <4>1, DaysSum
      <4>4. QED
        BY <2>1, <4>2, <4>3
    <3>9. QED
      BY <2>5, <2>7, <3>1, <3>4, <3>6, <3>8
  <2>10. QED
    BY <2>4, <2>8, <2>9
<1>2. DayInv /\ ReportInv => ReportAddsUp
  BY <1>1 DEF ReportAddsUp
<1>3. QED
  BY <1>2, DayInductive, ReportIsOfItsOrders, PTL
=============================================================================
