----------------------------- MODULE OrderBook -----------------------------
(***************************************************************************)
(* Orders and settlements (customers' tabs) when no two requests overlap:  *)
(* every action is one API handler, from its first read to its last        *)
(* commit.  OrderBookTx splits the same handlers into SQL statements and   *)
(* implements this module when it serves one request at a time.            *)
(*                                                                         *)
(* A handler that reports an error changes nothing and is not a step.      *)
(* Order lines are not part of this module: an edit supplies their sum,    *)
(* the creation of an order its own total, as the client computed it.      *)
(***************************************************************************)
EXTENDS OrderStatus, Integers, Functions

CONSTANTS
  Orders,         \* ids of the orders that may ever be created
  Settlements,    \* ids of the settlements that may ever be created
  Customer,       \* Customer[s]: customer_name of settlement s, never updated
  Amounts,        \* money amounts (fen) requests carry
  Null            \* the NULL of the database: settlement_id of an order on no tab

ASSUME AmountsAssumption == Amounts \subseteq Int /\ 0 \in Amounts
ASSUME NullAssumption == Null \notin Settlements

VARIABLES order, settlement

vars == <<order, settlement>>

NewOrder(status, total, actual) ==
  [status |-> status, total |-> total, actual |-> actual, settlement |-> Null]

\* delete_ts = 0 is "live"; a row that was not inserted yet is "absent".
NewSettlement(row) == [row |-> row, status |-> "UNSETTLED", total |-> 0, actual |-> 0]

Exists(o) == order[o].status # "NONE"
Open(s) == settlement[s].row = "live" /\ settlement[s].status = "UNSETTLED"
Settled(s) == settlement[s].row = "live" /\ settlement[s].status = "SETTLED"

\* The orders a settlement charges for, as recalcTotal selects them from `table`.
Charged(table, s) == {o \in Orders : table[o].settlement = s /\ table[o].status # "CANCELLED"}

\* recalcTotal: the sum of their total_amount.
Receivable(table, s) == SumFunctionOnSet([o \in Orders |-> table[o].total], Charged(table, s))

\* Every value recalcTotal can compute; the range of a settlement's total.
Totals == {SumFunctionOnSet(f, S) : f \in [Orders -> Amounts], S \in SUBSET Orders} \cup {0}

OrderRow == [status : OrderStatuses, total : Amounts, actual : Amounts,
             settlement : Settlements \cup {Null}]

SettlementRow == [row : {"absent", "live", "deleted"}, status : {"UNSETTLED", "SETTLED"},
                  total : Totals, actual : Amounts]

Init ==
  /\ order = [o \in Orders |-> NewOrder("NONE", 0, 0)]
  /\ settlement = [s \in Settlements |-> NewSettlement("absent")]

-----------------------------------------------------------------------------
(* Order handlers *)

\* The received amount of a new order: 0 means "as much as the total".
InitialActual(total, actual) == IF actual = 0 /\ total > 0 THEN total ELSE actual

CreateOrder(o, total, actual) ==
  /\ ~Exists(o)
  /\ actual >= 0
  /\ order' = [order EXCEPT ![o] = NewOrder("CREATED", total, InitialActual(total, actual))]
  /\ UNCHANGED settlement

\* Fault: the sum of the new lines is added to the total.
RepricedByAdding(row, current, lines) == [row EXCEPT !.total = @ + lines]

\* ReplaceItems: the received amount follows the total if `current`, the row as
\* ReplaceItems read it, had them equal.
Repriced(row, current, lines) ==
  [row EXCEPT !.total = lines,
              !.actual = IF current.actual = current.total THEN lines ELSE @]

\* Fault: the recalculation does not ask whether the tab is settled.
RecalcAnyTab(o) ==
  LET s == order'[o].settlement
  IN  settlement' = IF s # Null THEN [settlement EXCEPT ![s].total = Receivable(order', s)]
                                ELSE settlement

\* RecalcTotalForOrder, run on the orders the edit left behind.
RecalcTotalForOrder(o) ==
  LET s == order'[o].settlement
  IN  settlement' = IF s # Null /\ Open(s)
                      THEN [settlement EXCEPT ![s].total = Receivable(order', s)]
                      ELSE settlement

Editable(o) == order[o].status \notin {"NONE", "COMPLETED", "CANCELLED"}

(***************************************************************************)
(* An edit commits the new lines first and then recalculates the tab; the  *)
(* error of the recalculation is dropped, so it may also not have happened.*)
(***************************************************************************)
UpdateOrder(o, lines) ==
  /\ Editable(o)
  /\ order' = [order EXCEPT ![o] = Repriced(@, @, lines)]
  /\ RecalcTotalForOrder(o) \/ UNCHANGED settlement

\* The received amount is only taken from a request that completes the order.
WithStatus(row, status, actual) ==
  [row EXCEPT !.status = status,
              !.actual = IF status = "COMPLETED" /\ actual > 0 THEN actual ELSE @]

UpdateOrderStatus(o, target, actual) ==
  /\ Exists(o)
  /\ \E status \in StatusAfter(order[o].status, target) :
       order' = [order EXCEPT ![o] = WithStatus(@, status, actual)]
  /\ UNCHANGED settlement

-----------------------------------------------------------------------------
(* Settlement handlers *)

\* Fault: a tab without a total does not count as open.
OpenWithTotal(c) == {s \in Settlements : Customer[s] = c /\ Open(s) /\ settlement[s].total # 0}

OpenFor(c) == {s \in Settlements : Customer[s] = c /\ Open(s)}

CreateSettlement(s) ==
  /\ settlement[s].row = "absent"
  /\ OpenFor(Customer[s]) = {}
  /\ settlement' = [settlement EXCEPT ![s] = NewSettlement("live")]
  /\ UNCHANGED order

\* Fault: the sum is taken before the link is written.
RelinkSumFirst(o, s, link) ==
  /\ order' = [order EXCEPT ![o].settlement = link]
  /\ settlement' = [settlement EXCEPT ![s].total = Receivable(order, s)]

\* Setting or clearing settlement_id, then recalcTotal, in one transaction.
Relink(o, s, link) ==
  /\ order' = [order EXCEPT ![o].settlement = link]
  /\ settlement' = [settlement EXCEPT ![s].total = Receivable(order', s)]

\* Fault: the order is not looked up before it is linked.
AddUnknownOrder(s, o) ==
  /\ Open(s)
  /\ order[o].status # "CANCELLED"
  /\ order[o].settlement = Null
  /\ Relink(o, s, s)

\* An order that already is on this tab, or on another, leaves AddOrder without a write.
AddOrder(s, o) ==
  /\ Open(s)
  /\ Exists(o) /\ order[o].status # "CANCELLED"
  /\ order[o].settlement = Null
  /\ Relink(o, s, s)

\* Fault: the status of the tab is not checked.
RemoveFromAnyTab(s, o) ==
  /\ order[o].settlement = s
  /\ Relink(o, s, Null)

RemoveOrder(s, o) ==
  /\ Open(s)
  /\ order[o].settlement = s
  /\ Relink(o, s, Null)

Linked(s) == {o \in Orders : order[o].settlement = s}

\* Fault: cancelled orders are marked as received as well.
SettleCancelledToo(s, actual) ==
  /\ actual >= 0
  /\ Open(s)
  /\ Linked(s) # {}
  /\ settlement' = [settlement EXCEPT
       ![s] = [@ EXCEPT !.total = Receivable(order, s), !.status = "SETTLED", !.actual = actual]]
  /\ order' = [o \in Orders |-> IF o \in Linked(s)
                                  THEN [order[o] EXCEPT !.actual = order[o].total]
                                  ELSE order[o]]

Settle(s, actual) ==
  /\ actual >= 0
  /\ Open(s)
  /\ Linked(s) # {}
  /\ settlement' = [settlement EXCEPT
       ![s] = [@ EXCEPT !.total = Receivable(order, s), !.status = "SETTLED", !.actual = actual]]
  /\ order' = [o \in Orders |-> IF o \in Charged(order, s)
                                  THEN [order[o] EXCEPT !.actual = order[o].total]
                                  ELSE order[o]]

\* Fault: the orders are not released.
DeleteKeepsLinks(s) ==
  /\ Open(s)
  /\ settlement' = [settlement EXCEPT ![s].row = "deleted"]
  /\ UNCHANGED order

DeleteSettlement(s) ==
  /\ Open(s)
  /\ order' = [o \in Orders |-> IF o \in Linked(s)
                                  THEN [order[o] EXCEPT !.settlement = Null]
                                  ELSE order[o]]
  /\ settlement' = [settlement EXCEPT ![s].row = "deleted"]

-----------------------------------------------------------------------------
Next ==
  \/ \E o \in Orders, total, actual \in Amounts : CreateOrder(o, total, actual)
  \/ \E o \in Orders, lines \in Amounts : UpdateOrder(o, lines)
  \/ \E o \in Orders, target \in ApiStatuses, actual \in Amounts :
       UpdateOrderStatus(o, target, actual)
  \/ \E s \in Settlements : CreateSettlement(s)
  \/ \E s \in Settlements, o \in Orders : AddOrder(s, o)
  \/ \E s \in Settlements, o \in Orders : RemoveOrder(s, o)
  \/ \E s \in Settlements, actual \in Amounts : Settle(s, actual)
  \/ \E s \in Settlements : DeleteSettlement(s)

Spec == Init /\ [][Next]_vars

-----------------------------------------------------------------------------
(* Properties *)

TypeOK ==
  /\ order \in [Orders -> OrderRow]
  /\ settlement \in [Settlements -> SettlementRow]

\* An order never points at a tab that was deleted or never created: deleting a
\* tab releases its orders, and nothing else takes a tab away under an order.
LinksAreLive ==
  \A o \in Orders : order[o].settlement # Null => settlement[order[o].settlement].row = "live"

\* A customer has at most one tab that is not settled.
OneOpenTab ==
  \A s, t \in Settlements : Open(s) /\ Open(t) /\ Customer[s] = Customer[t] => s = t

\* A settled tab still has an order on it: neither RemoveOrder, nor AddOrder to
\* another tab, nor Delete can empty a tab once Settle accepted it.
SettledKeepsOrders ==
  \A s \in Settlements : Settled(s) => Linked(s) # {}

\* An id that was not given to an order yet is on no tab, so creating the order
\* under it takes nothing from a tab.
NewOrdersUnlinked == \A o \in Orders : ~Exists(o) => order[o].settlement = Null

\* The inductive invariant behind the safety properties: links, tabs and new ids
\* have to be right together, for any one of them to stay right in a step.
IInv == TypeOK /\ NewOrdersUnlinked /\ LinksAreLive /\ OneOpenTab /\ SettledKeepsOrders

\* No order goes back to an earlier stage, so its life ends after five changes.
StatusOnlyAdvances ==
  [][\A o \in Orders : order'[o].status # order[o].status
                          => Stage(order[o].status) < Stage(order'[o].status)]_vars

Untouched(s) == settlement'[s] = settlement[s] /\ Linked(s)' = Linked(s)

\* Settling closes the books: the row of a settled tab and the set of its orders
\* are never touched again, by any sequence of calls.
ClosedBooks == [][\A s \in Settlements : Settled(s) => Untouched(s)]_vars

Settles(s) == ~Settled(s) /\ Settled(s)'

ChangesOrdersOf(s) == Open(s)' /\ Linked(s)' # Linked(s)

\* Every step that changes which orders are on an open tab, or settles it, leaves
\* the total of that tab exact, however stale it was before.
ExactWhenTouched ==
  [][\A s \in Settlements : Settles(s) \/ ChangesOrdersOf(s) =>
        settlement'[s].total = Receivable(order', s)]_vars

\* At the moment a tab is settled each order it charges for counts as received
\* in full, and the orders cancelled on it keep the amount they had.
SettlePaysOrders ==
  [][\A s \in Settlements : Settles(s) =>
        \A o \in Linked(s) : order'[o].actual = IF order[o].status = "CANCELLED"
                                                  THEN order[o].actual
                                                  ELSE order[o].total]_vars

=============================================================================
