-------------------------- MODULE OrderBookProofs --------------------------
(***************************************************************************)
(* Proofs about OrderBook for any sets of orders, settlements, customers   *)
(* and amounts.                                                            *)
(***************************************************************************)
EXTENDS OrderBook, TLAPS

\* Sums are opaque here: all a proof needs is that recalcTotal adds up amounts of orders.
LEMMA ReceivableType ==
  ASSUME NEW table \in [Orders -> OrderRow], NEW s \in Settlements
  PROVE  Receivable(table, s) \in Totals
<1>1. [o \in Orders |-> table[o].total] \in [Orders -> Amounts]
  BY DEF OrderRow
<1>2. Charged(table, s) \in SUBSET Orders
  BY DEF Charged
<1>3. QED
  BY <1>1, <1>2 DEF Receivable, Totals

\* No table of the status package leads back to an order that does not exist.
LEMMA StatusAfterType ==
  ASSUME NEW from \in OrderStatuses, NEW target \in ApiStatuses,
         NEW status \in StatusAfter(from, target)
  PROVE  status \in OrderStatuses \ {"NONE"}
<1>1. PICK t \in Triggers : status \in Fire(from, t)
  BY DEF StatusAfter, ResolveTrigger
<1>2. QED
  BY <1>1 DEF Fire, Permitted, OrderStatuses

-----------------------------------------------------------------------------
(* Types, handler by handler *)

LEMMA InitTypeOK == Init => TypeOK
  BY AmountsAssumption DEF Init, TypeOK, NewOrder, NewSettlement, OrderRow, SettlementRow,
     OrderStatuses, Totals

LEMMA CreateOrderTypeOK ==
  ASSUME TypeOK, NEW o \in Orders, NEW total \in Amounts, NEW actual \in Amounts,
         CreateOrder(o, total, actual)
  PROVE  TypeOK'
<1>1. InitialActual(total, actual) \in Amounts
  BY DEF InitialActual
<1>2. NewOrder("CREATED", total, InitialActual(total, actual)) \in OrderRow
  BY <1>1 DEF NewOrder, OrderRow, OrderStatuses
<1>3. QED
  BY <1>2 DEF TypeOK, CreateOrder

LEMMA UpdateOrderTypeOK ==
  ASSUME TypeOK, NEW o \in Orders, NEW lines \in Amounts, UpdateOrder(o, lines)
  PROVE  TypeOK'
<1>1. Repriced(order[o], order[o], lines) \in OrderRow
  BY DEF Repriced, TypeOK, OrderRow
<1>2. order' \in [Orders -> OrderRow]
  BY <1>1 DEF UpdateOrder, TypeOK
<1>3. settlement' \in [Settlements -> SettlementRow]
  <2> DEFINE s == order'[o].settlement
  <2>1. CASE s # Null /\ Open(s) /\ RecalcTotalForOrder(o)
    <3>1. s \in Settlements
      BY <1>2, <2>1 DEF OrderRow
    <3>2. Receivable(order', s) \in Totals
      BY <1>2, <3>1, ReceivableType
    <3>3. settlement' = [settlement EXCEPT ![s].total = Receivable(order', s)]
      BY <2>1 DEF RecalcTotalForOrder
    <3>4. QED
      BY <3>1, <3>2, <3>3 DEF TypeOK, SettlementRow
  <2>2. CASE ~(s # Null /\ Open(s) /\ RecalcTotalForOrder(o))
    BY <2>2 DEF UpdateOrder, RecalcTotalForOrder, TypeOK
  <2>3. QED
    BY <2>1, <2>2
<1>4. QED
  BY <1>2, <1>3 DEF TypeOK

LEMMA UpdateOrderStatusTypeOK ==
  ASSUME TypeOK, NEW o \in Orders, NEW target \in ApiStatuses, NEW actual \in Amounts,
         UpdateOrderStatus(o, target, actual)
  PROVE  TypeOK'
<1>1. PICK status \in StatusAfter(order[o].status, target) :
        order' = [order EXCEPT ![o] = WithStatus(@, status, actual)]
  BY DEF UpdateOrderStatus
<1>2. order[o].status \in OrderStatuses
  BY DEF TypeOK, OrderRow
<1>3. status \in OrderStatuses
  BY <1>1, <1>2, StatusAfterType
<1>4. WithStatus(order[o], status, actual) \in OrderRow
  BY <1>3 DEF WithStatus, TypeOK, OrderRow
<1>5. QED
  BY <1>1, <1>4 DEF UpdateOrderStatus, TypeOK

LEMMA CreateSettlementTypeOK ==
  ASSUME TypeOK, NEW s \in Settlements, CreateSettlement(s)
  PROVE  TypeOK'
  BY AmountsAssumption DEF CreateSettlement, TypeOK, NewSettlement, SettlementRow, Totals

LEMMA RelinkTypeOK ==
  ASSUME TypeOK, NEW o \in Orders, NEW s \in Settlements,
         NEW link \in Settlements \cup {Null}, Relink(o, s, link)
  PROVE  TypeOK'
<1>1. order' \in [Orders -> OrderRow]
  BY DEF Relink, TypeOK, OrderRow
<1>2. Receivable(order', s) \in Totals
  BY <1>1, ReceivableType
<1>3. QED
  BY <1>1, <1>2 DEF Relink, TypeOK, SettlementRow

LEMMA SettleTypeOK ==
  ASSUME TypeOK, NEW s \in Settlements, NEW actual \in Amounts, Settle(s, actual)
  PROVE  TypeOK'
<1>1. Receivable(order, s) \in Totals
  BY ReceivableType DEF TypeOK
<1>2. settlement' \in [Settlements -> SettlementRow]
  BY <1>1 DEF Settle, TypeOK, SettlementRow
<1>3. order' \in [Orders -> OrderRow]
  BY DEF Settle, TypeOK, OrderRow
<1>4. QED
  BY <1>2, <1>3 DEF TypeOK

LEMMA DeleteSettlementTypeOK ==
  ASSUME TypeOK, NEW s \in Settlements, DeleteSettlement(s)
  PROVE  TypeOK'
<1>1. settlement' \in [Settlements -> SettlementRow]
  BY DEF DeleteSettlement, TypeOK, SettlementRow
<1>2. order' \in [Orders -> OrderRow]
  BY DEF DeleteSettlement, TypeOK, OrderRow
<1>3. QED
  BY <1>1, <1>2 DEF TypeOK

LEMMA NextTypeOK == TypeOK /\ [Next]_vars => TypeOK'
<1> SUFFICES ASSUME TypeOK, [Next]_vars PROVE TypeOK'
  OBVIOUS
<1>1. ASSUME NEW o \in Orders, NEW s \in Settlements, AddOrder(s, o) \/ RemoveOrder(s, o)
      PROVE  TypeOK'
  BY <1>1, RelinkTypeOK DEF AddOrder, RemoveOrder
<1>2. CASE UNCHANGED vars
  BY <1>2 DEF vars, TypeOK
<1>3. QED
  BY <1>1, <1>2, CreateOrderTypeOK, UpdateOrderTypeOK, UpdateOrderStatusTypeOK,
     CreateSettlementTypeOK, SettleTypeOK, DeleteSettlementTypeOK DEF Next

\* Whatever the handlers are asked for, rows keep their types; in particular the
\* total of a tab is always a sum of amounts of orders.
THEOREM TypeCorrect == Spec => []TypeOK
  BY InitTypeOK, NextTypeOK, PTL DEF Spec

-----------------------------------------------------------------------------
(***************************************************************************)
(* The inductive invariant.  Three facts carry it: only CreateSettlement   *)
(* makes a tab open and it looks for another one first; only Settle makes  *)
(* a tab settled and it has an order; and a link changes only to or from   *)
(* NULL, at a tab that is open.                                            *)
(***************************************************************************)

\* What a step may do to links, in one place: the rest of the proofs uses only this.
LinkStep(o) ==
  \/ order'[o].settlement = order[o].settlement
  \/ /\ order[o].settlement = Null
     /\ order'[o].settlement \in Settlements
     /\ Open(order'[o].settlement) /\ order[o].status # "NONE"
  \/ /\ order[o].settlement # Null
     /\ Open(order[o].settlement)
     /\ order'[o].settlement = Null

\* And to the life of tabs: a settled tab keeps its row, an open one stays open, is
\* settled with an order on it, or is deleted without one left.
TabStep(s) ==
  \/ /\ settlement'[s].row = settlement[s].row
     /\ settlement'[s].status = settlement[s].status
     /\ Settled(s) => settlement'[s] = settlement[s]
  \/ /\ settlement[s].row = "absent" /\ OpenFor(Customer[s]) = {}
     /\ settlement'[s] = NewSettlement("live")
     /\ \A t \in Settlements \ {s} : settlement'[t] = settlement[t]
  \/ /\ Open(s) /\ settlement'[s].row = "live" /\ settlement'[s].status = "SETTLED"
     /\ Linked(s) # {}
     /\ \A o \in Orders : order'[o].settlement = order[o].settlement
  \/ /\ Open(s) /\ settlement'[s].row = "deleted"
     /\ \A o \in Orders : order'[o].settlement # s

LEMMA OrderHandlerLinks ==
  ASSUME TypeOK, NewOrdersUnlinked, NEW p \in Orders,
         \/ \E total, actual \in Amounts : CreateOrder(p, total, actual)
         \/ \E lines \in Amounts : UpdateOrder(p, lines)
         \/ \E target \in ApiStatuses, actual \in Amounts : UpdateOrderStatus(p, target, actual)
  PROVE  \A o \in Orders : order'[o].settlement = order[o].settlement
<1>1. CASE \E total, actual \in Amounts : CreateOrder(p, total, actual)
  BY <1>1 DEF CreateOrder, NewOrder, NewOrdersUnlinked, TypeOK, OrderRow
<1>2. CASE \E lines \in Amounts : UpdateOrder(p, lines)
  <2>1. PICK lines \in Amounts : order' = [order EXCEPT ![p] = Repriced(@, @, lines)]
    BY <1>2 DEF UpdateOrder
  <2>2. Repriced(order[p], order[p], lines).settlement = order[p].settlement
    BY DEF Repriced, TypeOK, OrderRow
  <2>3. QED
    BY <2>1, <2>2 DEF TypeOK
<1>3. CASE \E target \in ApiStatuses, actual \in Amounts : UpdateOrderStatus(p, target, actual)
  <2>0. PICK actual \in Amounts :
          \E status : order' = [order EXCEPT ![p] = WithStatus(@, status, actual)]
    BY <1>3 DEF UpdateOrderStatus
  <2>1. PICK status : order' = [order EXCEPT ![p] = WithStatus(@, status, actual)]
    BY <2>0
  <2>2. WithStatus(order[p], status, actual).settlement = order[p].settlement
    BY DEF WithStatus, TypeOK, OrderRow
  <2>3. QED
    BY <2>1, <2>2 DEF TypeOK
<1>4. QED
  BY <1>1, <1>2, <1>3

LEMMA NextLinks ==
  ASSUME TypeOK, NewOrdersUnlinked, Next, NEW o \in Orders
  PROVE  LinkStep(o)
<1>1. CASE \E p \in Orders : \/ \E total, actual \in Amounts : CreateOrder(p, total, actual)
                             \/ \E lines \in Amounts : UpdateOrder(p, lines)
                             \/ \E target \in ApiStatuses, actual \in Amounts :
                                  UpdateOrderStatus(p, target, actual)
  BY <1>1, OrderHandlerLinks DEF LinkStep
<1>2. CASE \E s \in Settlements : CreateSettlement(s)
  BY <1>2 DEF CreateSettlement, LinkStep
<1>3. ASSUME NEW s \in Settlements, NEW p \in Orders, AddOrder(s, p)
      PROVE  LinkStep(o)
  BY <1>3 DEF AddOrder, Relink, Exists, LinkStep, TypeOK, OrderRow
<1>4. ASSUME NEW s \in Settlements, NEW p \in Orders, RemoveOrder(s, p)
      PROVE  LinkStep(o)
  BY <1>4, NullAssumption DEF RemoveOrder, Relink, LinkStep, TypeOK, OrderRow
<1>5. ASSUME NEW s \in Settlements, NEW actual \in Amounts, Settle(s, actual)
      PROVE  LinkStep(o)
  BY <1>5 DEF Settle, LinkStep, TypeOK, OrderRow
<1>6. ASSUME NEW s \in Settlements, DeleteSettlement(s)
      PROVE  LinkStep(o)
  BY <1>6, NullAssumption DEF DeleteSettlement, Linked, LinkStep, TypeOK, OrderRow
<1>7. QED
  BY <1>1, <1>2, <1>3, <1>4, <1>5, <1>6 DEF Next

LEMMA NextTabs ==
  ASSUME TypeOK, NewOrdersUnlinked, Next, NEW s \in Settlements
  PROVE  TabStep(s)
<1>1. ASSUME NEW p \in Orders, NEW lines \in Amounts, UpdateOrder(p, lines)
      PROVE  TabStep(s)
  BY <1>1 DEF UpdateOrder, RecalcTotalForOrder, Open, Settled, TabStep, TypeOK, SettlementRow
<1>2. CASE UNCHANGED settlement
  BY <1>2 DEF TabStep
<1>3. ASSUME NEW t \in Settlements, CreateSettlement(t)
      PROVE  TabStep(s)
  <2>1. CASE s = t
    BY <1>3, <2>1 DEF CreateSettlement, TabStep, TypeOK
  <2>2. CASE s # t
    BY <1>3, <2>2 DEF CreateSettlement, TabStep, TypeOK
  <2>3. QED
    BY <2>1, <2>2
<1>4. ASSUME NEW t \in Settlements, NEW p \in Orders, NEW link, Open(t), Relink(p, t, link)
      PROVE  TabStep(s)
  BY <1>4 DEF Relink, Open, Settled, TabStep, TypeOK, SettlementRow
<1>5. ASSUME NEW t \in Settlements, NEW actual \in Amounts, Settle(t, actual)
      PROVE  TabStep(s)
  <2>1. \A o \in Orders : order'[o].settlement = order[o].settlement
    BY <1>5 DEF Settle, TypeOK, OrderRow
  <2>2. QED
    BY <1>5, <2>1 DEF Settle, Open, TabStep, TypeOK, SettlementRow
<1>6. ASSUME NEW t \in Settlements, DeleteSettlement(t)
      PROVE  TabStep(s)
  <2>1. \A o \in Orders : order'[o].settlement # t
    BY <1>6, NullAssumption DEF DeleteSettlement, Linked, TypeOK, OrderRow
  <2>2. QED
    BY <1>6, <2>1 DEF DeleteSettlement, Open, TabStep, TypeOK, SettlementRow
<1>7. QED
  BY <1>1, <1>2, <1>3, <1>4, <1>5, <1>6
     DEF Next, CreateOrder, UpdateOrderStatus, AddOrder, RemoveOrder

\* A status changes by the creation of the order or by the tables of the status package.
StatusStep(o) ==
  \/ order'[o].status = order[o].status
  \/ order[o].status = "NONE" /\ order'[o].status = "CREATED"
  \/ \E target \in ApiStatuses : order'[o].status \in StatusAfter(order[o].status, target)

LEMMA NextStatus ==
  ASSUME TypeOK, Next, NEW o \in Orders
  PROVE  StatusStep(o)
<1>1. ASSUME NEW p \in Orders, NEW total \in Amounts, NEW actual \in Amounts,
             CreateOrder(p, total, actual)
      PROVE  StatusStep(o)
  BY <1>1 DEF CreateOrder, NewOrder, Exists, StatusStep, TypeOK, OrderRow
<1>2. ASSUME NEW p \in Orders, NEW lines \in Amounts, UpdateOrder(p, lines)
      PROVE  StatusStep(o)
  BY <1>2 DEF UpdateOrder, Repriced, StatusStep, TypeOK, OrderRow
<1>3. ASSUME NEW p \in Orders, NEW target \in ApiStatuses, NEW actual \in Amounts,
             UpdateOrderStatus(p, target, actual)
      PROVE  StatusStep(o)
  BY <1>3 DEF UpdateOrderStatus, WithStatus, StatusStep, TypeOK, OrderRow
<1>4. ASSUME NEW p \in Orders, NEW s \in Settlements, NEW link, Relink(p, s, link)
      PROVE  StatusStep(o)
  BY <1>4 DEF Relink, StatusStep, TypeOK, OrderRow
<1>5. ASSUME NEW s \in Settlements, NEW actual \in Amounts, Settle(s, actual)
      PROVE  StatusStep(o)
  BY <1>5 DEF Settle, StatusStep, TypeOK, OrderRow
<1>6. ASSUME NEW s \in Settlements, DeleteSettlement(s)
      PROVE  StatusStep(o)
  BY <1>6 DEF DeleteSettlement, StatusStep, TypeOK, OrderRow
<1>7. CASE UNCHANGED order
  BY <1>7 DEF StatusStep
<1>8. QED
  BY <1>1, <1>2, <1>3, <1>4, <1>5, <1>6, <1>7
     DEF Next, CreateSettlement, AddOrder, RemoveOrder

LEMMA InitIInv == Init => IInv
  BY InitTypeOK DEF Init, IInv, NewOrdersUnlinked, LinksAreLive, OneOpenTab, SettledKeepsOrders,
     NewOrder, NewSettlement, Exists, Open, Settled

LEMMA NextIInv == IInv /\ [Next]_vars => IInv'
<1> SUFFICES ASSUME IInv, [Next]_vars PROVE IInv'
  OBVIOUS
<1>1. CASE UNCHANGED vars
  BY <1>1 DEF vars, IInv, TypeOK, NewOrdersUnlinked, LinksAreLive, OneOpenTab,
     SettledKeepsOrders, Exists, Open, Settled, Linked
<1>2. CASE Next
  <2>1. TypeOK'
    BY NextTypeOK DEF IInv
  <2>2. \A o \in Orders : LinkStep(o)
    BY <1>2, NextLinks DEF IInv
  <2>3. \A s \in Settlements : TabStep(s)
    BY <1>2, NextTabs DEF IInv
  <2>4. NewOrdersUnlinked'
    <3> SUFFICES ASSUME NEW o \in Orders, ~Exists(o)' PROVE order'[o].settlement = Null
      BY DEF NewOrdersUnlinked
    <3>1. order[o].status = "NONE"
      <4>1. order[o].status \in OrderStatuses
        BY DEF IInv, TypeOK, OrderRow
      <4>2. StatusStep(o)
        BY <1>2, NextStatus DEF IInv
      <4>3. QED
        BY <4>1, <4>2, StatusAfterType DEF StatusStep, Exists
    <3>2. QED
      BY <2>2, <3>1 DEF IInv, NewOrdersUnlinked, Exists, LinkStep
  <2>5. LinksAreLive'
    <3> SUFFICES ASSUME NEW o \in Orders, order'[o].settlement # Null
                 PROVE  settlement'[order'[o].settlement].row = "live"
      BY DEF LinksAreLive
    <3>1. order'[o].settlement \in Settlements
      BY <2>1 DEF TypeOK, OrderRow
    <3>2. settlement[order'[o].settlement].row = "live"
      BY <2>2 DEF LinkStep, IInv, LinksAreLive, Open
    <3>3. QED
      BY <2>3, <3>1, <3>2 DEF TabStep, Open
  <2>6. OneOpenTab'
    <3> SUFFICES ASSUME NEW s \in Settlements, NEW t \in Settlements,
                        Open(s)', Open(t)', Customer[s] = Customer[t], s # t
                 PROVE  FALSE
      BY DEF OneOpenTab
    <3>1. ~(Open(s) /\ Open(t))
      BY DEF IInv, OneOpenTab
    <3>2. CASE ~Open(s)
      BY <2>3, <3>2 DEF TabStep, Open, OpenFor, NewSettlement
    <3>3. CASE ~Open(t)
      BY <2>3, <3>3 DEF TabStep, Open, OpenFor, NewSettlement
    <3>4. QED
      BY <3>1, <3>2, <3>3
  <2>7. SettledKeepsOrders'
    <3> SUFFICES ASSUME NEW s \in Settlements, Settled(s)' PROVE Linked(s)' # {}
      BY DEF SettledKeepsOrders
    <3>1. CASE Settled(s)
      <4>1. PICK o \in Orders : order[o].settlement = s
        BY <3>1 DEF IInv, SettledKeepsOrders, Linked
      <4>2. order'[o].settlement = s
        BY <2>2, <3>1, <4>1, NullAssumption DEF LinkStep, Open, Settled
      <4>3. QED
        BY <4>2 DEF Linked
    <3>2. CASE ~Settled(s)
      BY <2>3, <3>2 DEF TabStep, Open, Settled, Linked, NewSettlement
    <3>3. QED
      BY <3>1, <3>2
  <2>8. QED
    BY <2>1, <2>4, <2>5, <2>6, <2>7 DEF IInv
<1>3. QED
  BY <1>1, <1>2

\* Links, tabs and new ids stay right together, through any sequence of calls.
THEOREM Inductive == Spec => []IInv
  BY InitIInv, NextIInv, PTL DEF Spec

\* No order ever points at a tab that is deleted or was never created.
THEOREM LinksStayLive == Spec => []LinksAreLive
  BY Inductive, PTL DEF IInv

\* A customer never has two open tabs while requests do not overlap.
THEOREM OneTabPerCustomer == Spec => []OneOpenTab
  BY Inductive, PTL DEF IInv

\* A tab that was settled has an order on it for ever after.
THEOREM SettledTabsAreNeverEmptied == Spec => []SettledKeepsOrders
  BY Inductive, PTL DEF IInv

-----------------------------------------------------------------------------
(* Action properties *)

LEMMA StatusTablesAdvance ==
  ASSUME NEW from \in OrderStatuses, NEW target \in ApiStatuses,
         NEW status \in StatusAfter(from, target)
  PROVE  Stage(from) < Stage(status)
<1>1. PICK t \in Triggers : <<from, target, t>> \in TriggerTable /\ <<from, t, status>> \in Permitted
  BY DEF StatusAfter, ResolveTrigger, Fire
<1>2. QED
  BY <1>1 DEF TriggerTable, Permitted, Stage

\* The tables of the status package admit no way back, from any status.
THEOREM OrdersAdvance == Spec => StatusOnlyAdvances
<1>1. ASSUME IInv, [Next]_vars
      PROVE  [\A o \in Orders : order'[o].status # order[o].status
                                  => Stage(order[o].status) < Stage(order'[o].status)]_vars
  <2> SUFFICES ASSUME Next, NEW o \in Orders, order'[o].status # order[o].status
               PROVE  Stage(order[o].status) < Stage(order'[o].status)
    BY <1>1
  <2>1. StatusStep(o)
    BY <1>1, NextStatus DEF IInv
  <2>2. order[o].status \in OrderStatuses
    BY <1>1 DEF IInv, TypeOK, OrderRow
  <2>3. CASE order[o].status = "NONE" /\ order'[o].status = "CREATED"
    BY <2>3 DEF Stage
  <2>4. QED
    BY <2>1, <2>2, <2>3, StatusTablesAdvance DEF StatusStep
<1>2. QED
  BY <1>1, Inductive, PTL DEF Spec, StatusOnlyAdvances

\* Nothing that the handlers do touches a settled tab or its set of orders again.
THEOREM BooksStayClosed == Spec => ClosedBooks
<1>1. ASSUME IInv, [Next]_vars
      PROVE  [\A s \in Settlements : Settled(s) => Untouched(s)]_vars
  <2> SUFFICES ASSUME Next, NEW s \in Settlements, Settled(s)
               PROVE  settlement'[s] = settlement[s] /\ Linked(s)' = Linked(s)
    BY <1>1 DEF Untouched
  <2>1. settlement'[s] = settlement[s]
    BY <1>1, NextTabs DEF IInv, TabStep, Settled, Open
  <2>2. ASSUME NEW o \in Orders
        PROVE  order'[o].settlement = s <=> order[o].settlement = s
    BY <1>1, NextLinks, NullAssumption DEF IInv, LinkStep, Settled, Open
  <2>3. QED
    BY <2>1, <2>2 DEF Linked
<1>2. QED
  BY <1>1, Inductive, PTL DEF Spec, ClosedBooks

\* The sum depends only on the totals, links and statuses of the orders.
LEMMA ReceivableOfSame ==
  ASSUME NEW table \in [Orders -> OrderRow], NEW other \in [Orders -> OrderRow],
         NEW s \in Settlements,
         \A o \in Orders : /\ other[o].total = table[o].total
                           /\ other[o].settlement = table[o].settlement
                           /\ other[o].status = table[o].status
  PROVE  Receivable(other, s) = Receivable(table, s)
<1>1. [o \in Orders |-> other[o].total] = [o \in Orders |-> table[o].total]
  OBVIOUS
<1>2. Charged(other, s) = Charged(table, s)
  BY DEF Charged
<1>3. QED
  BY <1>1, <1>2 DEF Receivable

\* Whoever puts an order on an open tab, takes one off it or settles the tab also
\* leaves its total exact.
THEOREM TouchedTabsAreExact == Spec => ExactWhenTouched
<1>1. ASSUME IInv, [Next]_vars
      PROVE  [\A s \in Settlements : Settles(s) \/ ChangesOrdersOf(s) =>
                 settlement'[s].total = Receivable(order', s)]_vars
  <2> SUFFICES ASSUME Next, NEW s \in Settlements, Settles(s) \/ ChangesOrdersOf(s)
               PROVE  settlement'[s].total = Receivable(order', s)
    BY <1>1
  <2> USE <1>1 DEF IInv
  <2>1. ASSUME NEW p \in Orders,
               \/ \E total, actual \in Amounts : CreateOrder(p, total, actual)
               \/ \E lines \in Amounts : UpdateOrder(p, lines)
               \/ \E target \in ApiStatuses, actual \in Amounts : UpdateOrderStatus(p, target, actual)
        PROVE  FALSE
    <3>1. Linked(s)' = Linked(s)
      BY <2>1, OrderHandlerLinks DEF Linked
    <3>2. settlement'[s].row = settlement[s].row /\ settlement'[s].status = settlement[s].status
      BY <2>1 DEF CreateOrder, UpdateOrder, RecalcTotalForOrder, UpdateOrderStatus,
         TypeOK, SettlementRow
    <3>3. QED
      BY <3>1, <3>2 DEF Settles, ChangesOrdersOf, Settled
  <2>2. ASSUME NEW t \in Settlements, CreateSettlement(t)
        PROVE  FALSE
    <3>1. Linked(s)' = Linked(s)
      BY <2>2 DEF CreateSettlement, Linked
    <3>2. Settled(s)' => Settled(s)
      BY <2>2 DEF CreateSettlement, NewSettlement, Settled, TypeOK
    <3>3. QED
      BY <3>1, <3>2 DEF Settles, ChangesOrdersOf
  <2>3. ASSUME NEW t \in Settlements, NEW p \in Orders, NEW link \in {t, Null}, Relink(p, t, link),
               Open(t), order[p].settlement \in {t, Null}
        PROVE  settlement'[s].total = Receivable(order', s)
    <3>1. CASE s = t
      BY <2>3, <3>1 DEF Relink, TypeOK, SettlementRow
    <3>2. CASE s # t
      <4>1. Linked(s)' = Linked(s)
        BY <2>3, <3>2, NullAssumption DEF Relink, Linked, TypeOK, OrderRow
      <4>2. settlement'[s] = settlement[s]
        BY <2>3, <3>2 DEF Relink, TypeOK
      <4>3. QED
        BY <4>1, <4>2 DEF Settles, ChangesOrdersOf, Settled
    <3>3. QED
      BY <3>1, <3>2
  <2>4. ASSUME NEW t \in Settlements, NEW actual \in Amounts, Settle(t, actual)
        PROVE  settlement'[s].total = Receivable(order', s)
    <3>1. \A o \in Orders : /\ order'[o].total = order[o].total
                            /\ order'[o].settlement = order[o].settlement
                            /\ order'[o].status = order[o].status
      BY <2>4 DEF Settle, TypeOK, OrderRow
    <3>2. CASE s = t
      <4>1. order' \in [Orders -> OrderRow]
        BY NextTypeOK DEF TypeOK
      <4>2. Receivable(order', s) = Receivable(order, s)
        BY <3>1, <4>1, ReceivableOfSame DEF TypeOK
      <4>3. QED
        BY <2>4, <3>2, <4>2 DEF Settle, TypeOK, SettlementRow
    <3>3. CASE s # t
      <4>1. Linked(s)' = Linked(s)
        BY <3>1 DEF Linked
      <4>2. settlement'[s] = settlement[s]
        BY <2>4, <3>3 DEF Settle, TypeOK
      <4>3. QED
        BY <4>1, <4>2 DEF Settles, ChangesOrdersOf, Settled
    <3>4. QED
      BY <3>2, <3>3
  <2>5. ASSUME NEW t \in Settlements, DeleteSettlement(t)
        PROVE  FALSE
    <3>1. CASE s = t
      BY <2>5, <3>1 DEF DeleteSettlement, Settles, ChangesOrdersOf, Settled, Open, TypeOK, SettlementRow
    <3>2. CASE s # t
      <4>1. Linked(s)' = Linked(s)
        BY <2>5, <3>2, NullAssumption DEF DeleteSettlement, Linked, TypeOK, OrderRow
      <4>2. settlement'[s] = settlement[s]
        BY <2>5, <3>2 DEF DeleteSettlement, TypeOK
      <4>3. QED
        BY <4>1, <4>2 DEF Settles, ChangesOrdersOf, Settled
    <3>3. QED
      BY <3>1, <3>2
  <2>6. ASSUME NEW t \in Settlements, NEW p \in Orders, AddOrder(t, p) \/ RemoveOrder(t, p)
        PROVE  settlement'[s].total = Receivable(order', s)
    BY <2>3, <2>6 DEF AddOrder, RemoveOrder
  <2>7. QED
    BY <2>1, <2>2, <2>4, <2>5, <2>6 DEF Next
<1>2. QED
  BY <1>1, Inductive, PTL DEF Spec, ExactWhenTouched

LEMMA OnlySettleSettles ==
  ASSUME TypeOK, Next, NEW s \in Settlements, Settles(s)
  PROVE  \E actual \in Amounts : Settle(s, actual)
<1>1. ASSUME NEW t \in Settlements, NEW p \in Orders, NEW link, Relink(p, t, link)
      PROVE  FALSE
  BY <1>1 DEF Relink, Settles, Settled, TypeOK, SettlementRow
<1>2. ASSUME NEW p \in Orders, NEW lines \in Amounts, UpdateOrder(p, lines)
      PROVE  FALSE
  BY <1>2 DEF UpdateOrder, RecalcTotalForOrder, Settles, Settled, TypeOK, SettlementRow
<1>3. ASSUME NEW t \in Settlements, CreateSettlement(t)
      PROVE  FALSE
  BY <1>3 DEF CreateSettlement, NewSettlement, Settles, Settled, TypeOK
<1>4. ASSUME NEW t \in Settlements, DeleteSettlement(t)
      PROVE  FALSE
  BY <1>4 DEF DeleteSettlement, Settles, Settled, TypeOK, SettlementRow
<1>5. ASSUME NEW t \in Settlements, NEW actual \in Amounts, Settle(t, actual)
      PROVE  t = s
  BY <1>5 DEF Settle, Settles, Settled, TypeOK
<1>6. CASE UNCHANGED settlement
  BY <1>6 DEF Settles, Settled
<1>7. QED
  BY <1>1, <1>2, <1>3, <1>4, <1>5, <1>6
     DEF Next, CreateOrder, UpdateOrderStatus, AddOrder, RemoveOrder

\* Settling marks what the tab charges for as received, and only that.
THEOREM SettlingPaysOrders == Spec => SettlePaysOrders
<1>1. ASSUME IInv, [Next]_vars
      PROVE  [\A s \in Settlements : Settles(s) =>
                 \A o \in Linked(s) : order'[o].actual = IF order[o].status = "CANCELLED"
                                                           THEN order[o].actual
                                                           ELSE order[o].total]_vars
  <2> SUFFICES ASSUME Next, NEW s \in Settlements, Settles(s), NEW o \in Linked(s)
               PROVE  order'[o].actual = IF order[o].status = "CANCELLED"
                                           THEN order[o].actual
                                           ELSE order[o].total
    BY <1>1
  <2>1. PICK actual \in Amounts : Settle(s, actual)
    BY <1>1, OnlySettleSettles DEF IInv
  <2>2. QED
    BY <1>1, <2>1 DEF Settle, Charged, Linked, IInv, TypeOK, OrderRow
<1>2. QED
  BY <1>1, Inductive, PTL DEF Spec, SettlePaysOrders
=============================================================================
