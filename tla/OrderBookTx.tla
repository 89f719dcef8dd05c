---------------------------- MODULE OrderBookTx ----------------------------
(***************************************************************************)
(* The handlers of OrderBook as concurrent requests on PostgreSQL at its   *)
(* default isolation level, READ COMMITTED: one step per SQL statement.    *)
(*                                                                         *)
(*  - A query sees committed rows and the writes of its own transaction.   *)
(*  - An UPDATE locks its row until the transaction ends.  It waits for a  *)
(*    row another transaction holds, then updates the row that one left,   *)
(*    assigning only the columns it names.                                 *)
(*  - A request may fail at any statement (context timeout, lost           *)
(*    connection, crash of the server): its open transaction rolls back,   *)
(*    what it committed before stays.                                      *)
(*  - A cycle of waiting transactions is broken by failing one of them.    *)
(*                                                                         *)
(* A handler that returns an error ends the request at the step that finds *)
(* it.  Statements that cannot be told apart from outside, because the     *)
(* transaction holds the only row they touch, share a step.                *)
(***************************************************************************)
EXTENDS OrderBook, Sequences, FiniteSets

CONSTANTS
  Requests,   \* requests in flight at the same time
  Ops,        \* the endpoints that are called
  Free        \* the owner of a row no transaction holds

ASSUME RowsAssumption ==
  /\ Orders \cap Settlements = {}
  /\ Free \notin Requests

ASSUME FiniteOrdersAssumption == IsFiniteSet(Orders)

VARIABLES
  items,             \* committed order lines: one batch per ReplaceItems or Create
  orderDraft,        \* latest version of each row: the uncommitted one of the
  settlementDraft,   \*   transaction that holds it, else the committed one
  lock,              \* the transaction that holds a row
  req                \* local state of each request

txVars == <<order, settlement, items, orderDraft, settlementDraft, lock, req>>

\* The lines a request inserts together; their amounts add up to `amount`.
Batch == [by : Requests, amount : Amounts]

Endpoints == {"CreateOrder", "UpdateOrder", "UpdateOrderStatus", "CreateSettlement",
              "AddOrder", "RemoveOrder", "Settle", "DeleteSettlement"}

Labels == {"idle", "setStatus", "selectOrder", "findItems", "replaceItems", "setTotal",
           "findLink", "findTab", "insert", "readOrder", "link", "readOrders", "sum",
           "writeTotal", "pay", "clear", "drop", "commit"}

IdleRequest ==
  [pc |-> "idle", op |-> "none",
   o |-> Null, s |-> Null,                                \* path parameters
   amount |-> 0, status |-> "NONE",                       \* body
   current |-> NewOrder("NONE", 0, 0),                    \* the order as ReplaceItems read it
   found |-> {}, deleted |-> {}, inserted |-> {},         \* line batches
   todo |-> << >>, bill |-> [o \in Orders |-> 0],         \* orders still to write, and their totals
   sum |-> 0]                                             \* result of recalcTotal's query

At(r, label) == req[r].pc = label
Goto(r, label) == req' = [req EXCEPT ![r].pc = label]

\* What a query of r returns.
OrdersSeenBy(r) == [o \in Orders |-> IF lock[o] = r THEN orderDraft[o] ELSE order[o]]
SettlementsSeenBy(r) ==
  [s \in Settlements |-> IF lock[s] = r THEN settlementDraft[s] ELSE settlement[s]]

CanLock(r, row) == lock[row] \in {Free, r}
Take(r, row) == CanLock(r, row) /\ lock' = [lock EXCEPT ![row] = r]
Unlocked(r) == [row \in DOMAIN lock |-> IF lock[row] = r THEN Free ELSE lock[row]]

UpdateOrderRow(r, o, row) ==
  /\ Take(r, o)
  /\ orderDraft' = [orderDraft EXCEPT ![o] = row]
  /\ UNCHANGED <<order, settlement, items, settlementDraft>>

UpdateSettlementRow(r, s, row) ==
  /\ Take(r, s)
  /\ settlementDraft' = [settlementDraft EXCEPT ![s] = row]
  /\ UNCHANGED <<order, settlement, items, orderDraft>>

ReadOnly == UNCHANGED <<order, settlement, items, orderDraft, settlementDraft, lock>>

\* Fault: an early return leaves the transaction open.
RollbackKeepsLocks(r) ==
  /\ req' = [req EXCEPT ![r] = IdleRequest]
  /\ UNCHANGED <<order, settlement, items, orderDraft, settlementDraft, lock>>

\* The request ends without committing what it has open.
Rollback(r) ==
  /\ orderDraft' = [o \in Orders |-> IF lock[o] = r THEN order[o] ELSE orderDraft[o]]
  /\ settlementDraft' =
       [s \in Settlements |-> IF lock[s] = r THEN settlement[s] ELSE settlementDraft[s]]
  /\ lock' = Unlocked(r)
  /\ req' = [req EXCEPT ![r] = IdleRequest]
  /\ UNCHANGED <<order, settlement, items>>

TxInit ==
  /\ Init
  /\ items = [o \in Orders |-> {}]
  /\ orderDraft = order
  /\ settlementDraft = settlement
  /\ lock = [row \in Orders \cup Settlements |-> Free]
  /\ req = [r \in Requests |-> IdleRequest]

-----------------------------------------------------------------------------
(* Arrival of a request, up to and including its first query *)

Arrive(r, op, local) ==
  /\ At(r, "idle")
  /\ op \in Ops
  /\ req' = [req EXCEPT ![r] = [local EXCEPT !.op = op]]
  /\ ReadOnly

\* The only transaction that touches nothing another one can see: one step.
TxCreateOrder(r, o, total, actual, lines) ==
  /\ At(r, "idle") /\ "CreateOrder" \in Ops
  /\ CreateOrder(o, total, actual)
  /\ orderDraft' = [orderDraft EXCEPT ![o] = order'[o]]
  /\ items' = [items EXCEPT ![o] = {[by |-> r, amount |-> lines]}]
  /\ UNCHANGED <<settlementDraft, lock, req>>

\* GetByID, ResolveTrigger and the state machine.
ArriveUpdateStatus(r, o, target, actual) ==
  /\ Exists(o)
  /\ \E status \in StatusAfter(order[o].status, target) :
       Arrive(r, "UpdateOrderStatus",
              [IdleRequest EXCEPT !.pc = "setStatus", !.o = o, !.status = status, !.amount = actual])

\* GetByID and the check of the status.
ArriveUpdateOrder(r, o, lines) ==
  /\ Editable(o)
  /\ Arrive(r, "UpdateOrder", [IdleRequest EXCEPT !.pc = "selectOrder", !.o = o, !.amount = lines])

\* The test for an open tab; the id of the new row is drawn from a generator.
ArriveCreateSettlement(r, s) ==
  /\ settlement[s].row = "absent"
  /\ \A q \in Requests : req[q].s # s
  /\ OpenFor(Customer[s]) = {}
  /\ Arrive(r, "CreateSettlement", [IdleRequest EXCEPT !.pc = "insert", !.s = s])

\* AddOrder and RemoveOrder begin with the same query.
ArriveRelink(r, op, s, o) ==
  /\ op \in {"AddOrder", "RemoveOrder"}
  /\ Open(s)
  /\ Arrive(r, op, [IdleRequest EXCEPT !.pc = "readOrder", !.s = s, !.o = o])

ArriveSettle(r, s, actual) ==
  /\ actual >= 0
  /\ Open(s)
  /\ Arrive(r, "Settle", [IdleRequest EXCEPT !.pc = "readOrders", !.s = s, !.amount = actual])

ArriveDelete(r, s) ==
  /\ Open(s)
  /\ Arrive(r, "DeleteSettlement", [IdleRequest EXCEPT !.pc = "readOrders", !.s = s])

-----------------------------------------------------------------------------
(* Statements of UpdateOrderStatus and UpdateOrder *)

\* UpdateStatus: by id alone, whatever the status has become meanwhile.
SetStatus(r) ==
  LET o == req[r].o IN
  /\ At(r, "setStatus")
  /\ UpdateOrderRow(r, o, WithStatus(orderDraft[o], req[r].status, req[r].amount))
  /\ Goto(r, "commit")

\* ReplaceItems reads the order again, inside its transaction.
SelectOrder(r) ==
  /\ At(r, "selectOrder")
  /\ req' = [req EXCEPT ![r].pc = "findItems", ![r].current = order[req[r].o]]
  /\ ReadOnly

\* The DELETE of the old lines looks for them in the snapshot taken when it starts ...
FindItems(r) ==
  /\ At(r, "findItems")
  /\ req' = [req EXCEPT ![r].pc = "replaceItems", ![r].found = items[req[r].o]]
  /\ ReadOnly

HeldByOthers(r, o) == UNION {req[q].deleted : q \in {p \in Requests \ {r} : req[p].o = o}}

\* Fault: the DELETE runs outside the transaction.
DeleteOutsideTx(r) ==
  LET o == req[r].o IN
  /\ At(r, "replaceItems")
  /\ req' = [req EXCEPT ![r].pc = "setTotal",
                        ![r].inserted = {[by |-> r, amount |-> req[r].amount]}]
  /\ items' = [items EXCEPT ![o] = @ \ req[r].found]
  /\ UNCHANGED <<order, settlement, orderDraft, settlementDraft, lock>>

\* Fault: the lines are committed before the total is written.
ReplaceOutsideTx(r) ==
  LET o == req[r].o IN
  /\ At(r, "replaceItems")
  /\ Goto(r, "setTotal")
  /\ items' = [items EXCEPT ![o] = (@ \ req[r].found) \cup {[by |-> r, amount |-> req[r].amount]}]
  /\ UNCHANGED <<order, settlement, orderDraft, settlementDraft, lock>>

\* ... waits for those another transaction is deleting, and deletes what that one
\* left of them; lines inserted since the snapshot it does not see.  The INSERTs
\* of the new lines wait for nobody.
ReplaceItems(r) ==
  LET o == req[r].o IN
  /\ At(r, "replaceItems")
  /\ req[r].found \cap HeldByOthers(r, o) = {}
  /\ req' = [req EXCEPT ![r].pc = "setTotal",
                        ![r].deleted = req[r].found \cap items[o],
                        ![r].inserted = {[by |-> r, amount |-> req[r].amount]}]
  /\ ReadOnly

\* Fault: the sum of the new lines is added to the total.
SetTotalByAdding(r) ==
  LET o == req[r].o IN
  /\ At(r, "setTotal")
  /\ UpdateOrderRow(r, o, [orderDraft[o] EXCEPT !.total = @ + req[r].amount])
  /\ Goto(r, "commit")

\* Fault: the whole row is written back, as ReplaceItems read it.
SetTotalFromCopy(r) ==
  LET o == req[r].o IN
  /\ At(r, "setTotal")
  /\ UpdateOrderRow(r, o, Repriced(req[r].current, req[r].current, req[r].amount))
  /\ Goto(r, "commit")

SetTotal(r) ==
  LET o == req[r].o IN
  /\ At(r, "setTotal")
  /\ UpdateOrderRow(r, o, Repriced(orderDraft[o], req[r].current, req[r].amount))
  /\ Goto(r, "commit")

\* RecalcTotalForOrder, after the commit of ReplaceItems: two queries of their own.
FindLink(r) ==
  LET s == order[req[r].o].settlement IN
  /\ At(r, "findLink")
  /\ IF s = Null
       THEN Rollback(r)
       ELSE req' = [req EXCEPT ![r].pc = "findTab", ![r].s = s] /\ ReadOnly

FindTab(r) ==
  /\ At(r, "findTab")
  /\ IF Open(req[r].s) THEN Goto(r, "sum") /\ ReadOnly ELSE Rollback(r)

-----------------------------------------------------------------------------
(* Statements of the settlement handlers *)

InsertSettlement(r) ==
  /\ At(r, "insert")
  /\ UpdateSettlementRow(r, req[r].s, NewSettlement("live"))
  /\ Goto(r, "commit")

\* Fault: the tab is locked first, as by SELECT ... FOR UPDATE.
ReadOrderLocksTab(r) ==
  /\ At(r, "readOrder")
  /\ order[req[r].o].settlement = (IF req[r].op = "AddOrder" THEN Null ELSE req[r].s)
  /\ UpdateSettlementRow(r, req[r].s, settlementDraft[req[r].s])
  /\ Goto(r, "link")

\* An order on no tab can be added, one on this tab removed.  Everything else ends
\* the request: an error, or the order already is where it should be.
ReadOrder(r) ==
  LET row == order[req[r].o]
      goesOn == IF req[r].op = "AddOrder"
                  THEN row.status \notin {"NONE", "CANCELLED"} /\ row.settlement = Null
                  ELSE row.settlement = req[r].s
  IN  /\ At(r, "readOrder")
      /\ IF goesOn THEN Goto(r, "link") /\ ReadOnly ELSE Rollback(r)

Link(r) ==
  LET o == req[r].o IN
  /\ At(r, "link")
  /\ UpdateOrderRow(r, o, [orderDraft[o] EXCEPT
       !.settlement = IF req[r].op = "AddOrder" THEN req[r].s ELSE Null])
  /\ Goto(r, "sum")

\* The result of a query without ORDER BY.
Listings(S) == {q \in [1 .. Cardinality(S) -> S] : \A i, j \in DOMAIN q : q[i] = q[j] => i = j}

\* Settle and Delete load the orders of the tab they read; Settle needs one, and
\* will write the totals it sees now.
ReadOrders(r) ==
  LET settling == req[r].op = "Settle"
      linked == Linked(req[r].s)
      toWrite == IF settling THEN Charged(order, req[r].s) ELSE linked
  IN  /\ At(r, "readOrders")
      /\ IF settling /\ linked = {}
           THEN Rollback(r)
           ELSE /\ \E list \in Listings(toWrite) :
                     req' = [req EXCEPT
                       ![r].pc = IF settling THEN "sum" ELSE IF list = << >> THEN "drop" ELSE "clear",
                       ![r].todo = list,
                       ![r].bill = [o \in Orders |-> IF o \in toWrite /\ settling
                                                       THEN order[o].total ELSE 0]]
                /\ ReadOnly

\* Fault: recalcTotal queries outside the transaction of its caller.
SumOutsideTx(r) ==
  /\ At(r, "sum")
  /\ req' = [req EXCEPT ![r].pc = "writeTotal", ![r].sum = Receivable(order, req[r].s)]
  /\ ReadOnly

\* The query of recalcTotal.
SumOrders(r) ==
  /\ At(r, "sum")
  /\ req' = [req EXCEPT ![r].pc = "writeTotal",
                        ![r].sum = Receivable(OrdersSeenBy(r), req[r].s)]
  /\ ReadOnly

\* Fault: the whole row is written back as it was read, when the tab was open.
WriteWholeTab(r) ==
  LET s == req[r].s IN
  /\ At(r, "writeTotal") /\ req[r].op # "Settle"
  /\ UpdateSettlementRow(r, s, [NewSettlement("live") EXCEPT !.total = req[r].sum])
  /\ Goto(r, "commit")

\* The UPDATE of recalcTotal, the last statement of every handler but Settle.
WriteTotal(r) ==
  LET s == req[r].s IN
  /\ At(r, "writeTotal") /\ req[r].op # "Settle"
  /\ UpdateSettlementRow(r, s, [settlementDraft[s] EXCEPT !.total = req[r].sum])
  /\ Goto(r, "commit")

\* Settle holds the row from that UPDATE on: its Get finds the tab deleted or not,
\* and the UPDATE of the status follows without a second look at the status.
CloseTab(r) ==
  LET s == req[r].s IN
  /\ At(r, "writeTotal") /\ req[r].op = "Settle"
  /\ CanLock(r, s)
  /\ IF settlementDraft[s].row = "live"
       THEN /\ UpdateSettlementRow(r, s, [settlementDraft[s] EXCEPT
                 !.total = req[r].sum, !.status = "SETTLED", !.actual = req[r].amount])
            /\ Goto(r, IF req[r].todo = << >> THEN "commit" ELSE "pay")
       ELSE Rollback(r)

Shift(r, label, last) ==
  req' = [req EXCEPT ![r].todo = Tail(@),
                     ![r].pc = IF Tail(req[r].todo) = << >> THEN last ELSE label]

\* The loop of Settle writes the totals it loaded, to whatever the order is by now.
PayOrder(r) ==
  LET o == Head(req[r].todo) IN
  /\ At(r, "pay")
  /\ UpdateOrderRow(r, o, [orderDraft[o] EXCEPT !.actual = req[r].bill[o]])
  /\ Shift(r, "pay", "commit")

ClearOrder(r) ==
  LET o == Head(req[r].todo) IN
  /\ At(r, "clear")
  /\ UpdateOrderRow(r, o, [orderDraft[o] EXCEPT !.settlement = Null])
  /\ Shift(r, "clear", "drop")

\* The soft delete only finds a row that is not deleted yet; it does not look at the status.
DropSettlement(r) ==
  LET s == req[r].s IN
  /\ At(r, "drop")
  /\ CanLock(r, s)
  /\ IF settlementDraft[s].row = "live"
       THEN /\ UpdateSettlementRow(r, s, [settlementDraft[s] EXCEPT !.row = "deleted"])
            /\ Goto(r, "commit")
       ELSE Rollback(r)

\* Only UpdateOrder goes on after a commit, with the recalculation of the tab.
Commit(r) ==
  /\ At(r, "commit")
  /\ order' = OrdersSeenBy(r)
  /\ settlement' = SettlementsSeenBy(r)
  /\ items' = [o \in Orders |-> IF o = req[r].o
                                  THEN (items[o] \ req[r].deleted) \cup req[r].inserted
                                  ELSE items[o]]
  /\ lock' = Unlocked(r)
  /\ req' = [req EXCEPT ![r] = IF @.op = "UpdateOrder"
                                 THEN [@ EXCEPT !.pc = "findLink", !.op = "RecalcTotalForOrder",
                                                !.found = {}, !.deleted = {}, !.inserted = {}]
                                 ELSE IdleRequest]
  /\ UNCHANGED <<orderDraft, settlementDraft>>

-----------------------------------------------------------------------------
(* Waiting and failing *)

\* The rows the next statement of r updates.
Wanted(r) ==
  CASE req[r].pc \in {"setStatus", "setTotal", "link"} -> {req[r].o}
    [] req[r].pc \in {"pay", "clear"}                  -> {Head(req[r].todo)}
    [] req[r].pc \in {"writeTotal", "drop", "insert"}  -> {req[r].s}
    [] OTHER                                           -> {}

WaitsFor(r, q) ==
  /\ q # r
  /\ \/ \E row \in Wanted(r) : lock[row] = q
     \/ /\ At(r, "replaceItems") /\ req[q].o = req[r].o
        /\ req[r].found \cap req[q].deleted # {}

\* A smallest set of requests that wait for each other.
Deadlocked(S) ==
  LET stuck(T) == T # {} /\ \A r \in T : \E q \in T : WaitsFor(r, q)
  IN  stuck(S) /\ \A T \in SUBSET S : stuck(T) => T = S

\* The deadlock detector of the database fails one of the requests in a cycle.
DeadlockVictim(r) ==
  /\ \E S \in SUBSET Requests : r \in S /\ Deadlocked(S)
  /\ Rollback(r)

Fail(r) ==
  /\ ~At(r, "idle")
  /\ Rollback(r)

-----------------------------------------------------------------------------
Arrival(r) ==
  \/ \E o \in Orders, total, actual, lines \in Amounts : TxCreateOrder(r, o, total, actual, lines)
  \/ \E o \in Orders, target \in ApiStatuses, actual \in Amounts :
       ArriveUpdateStatus(r, o, target, actual)
  \/ \E o \in Orders, lines \in Amounts : ArriveUpdateOrder(r, o, lines)
  \/ \E s \in Settlements : ArriveCreateSettlement(r, s)
  \/ \E op \in Ops, s \in Settlements, o \in Orders : ArriveRelink(r, op, s, o)
  \/ \E s \in Settlements, actual \in Amounts : ArriveSettle(r, s, actual)
  \/ \E s \in Settlements : ArriveDelete(r, s)

Step(r) ==
  \/ SetStatus(r)
  \/ SelectOrder(r) \/ FindItems(r) \/ ReplaceItems(r) \/ SetTotal(r)
  \/ FindLink(r) \/ FindTab(r)
  \/ InsertSettlement(r)
  \/ ReadOrder(r) \/ Link(r)
  \/ ReadOrders(r) \/ SumOrders(r) \/ WriteTotal(r)
  \/ CloseTab(r) \/ PayOrder(r) \/ ClearOrder(r) \/ DropSettlement(r)
  \/ Commit(r)

TxNext == \E r \in Requests : Arrival(r) \/ Step(r) \/ DeadlockVictim(r) \/ Fail(r)

TxSpec == TxInit /\ [][TxNext]_txVars

(***************************************************************************)
(* A request in flight is scheduled again and again, and the database      *)
(* serves the waiters of a row in turn (strong fairness); its deadlock     *)
(* detector runs (weak fairness).  Nothing is assumed about arrivals, nor  *)
(* that requests fail.                                                     *)
(***************************************************************************)
FairTxSpec ==
  /\ TxSpec
  /\ \A r \in Requests : SF_txVars(Step(r)) /\ WF_txVars(DeadlockVictim(r))

-----------------------------------------------------------------------------
(* Properties *)

ReqRow ==
  [pc : Labels, op : Endpoints \cup {"none", "RecalcTotalForOrder"},
   o : Orders \cup {Null}, s : Settlements \cup {Null},
   amount : Amounts, status : OrderStatuses, current : OrderRow,
   found : SUBSET Batch, deleted : SUBSET Batch, inserted : SUBSET Batch,
   todo : Seq(Orders), bill : [Orders -> Amounts], sum : Totals]

TxTypeOK ==
  /\ TypeOK
  /\ items \in [Orders -> SUBSET Batch]
  /\ orderDraft \in [Orders -> OrderRow]
  /\ settlementDraft \in [Settlements -> SettlementRow]
  /\ lock \in [Orders \cup Settlements -> Requests \cup {Free}]
  /\ req \in [Requests -> ReqRow]

\* However edits, cancellations and failures interleave, the database never shows
\* an order without lines: the DELETE and the INSERTs of an edit appear together.
OrderNeverEmpty == \A o \in Orders : Exists(o) => items[o] # {}

\* An edit leaves the order with the total of lines it really has: after each
\* change of the lines some batch among them adds up to the order's total.
TotalNamesItsLines ==
  [][\A o \in Orders : order[o].status # "NONE" /\ items'[o] # items[o]
        => \E b \in items'[o] : b.amount = order'[o].total]_txVars

\* A writer that read the tab long ago assigns only its own columns: no
\* interleaving reopens a settled tab or revives a deleted one.
TabNeverReopens ==
  [][\A s \in Settlements :
        /\ settlement[s].status = "SETTLED" => settlement'[s].status = "SETTLED"
        /\ settlement[s].row = "deleted" => settlement'[s].row = "deleted"]_txVars

\* Between two versions of an order only columns the endpoint writes differ.
DiffersInItsColumns(op, old, new) ==
  /\ new.status # old.status => op = "UpdateOrderStatus"
  /\ new.total # old.total => op = "UpdateOrder"
  /\ new.settlement # old.settlement => op \in {"AddOrder", "RemoveOrder", "DeleteSettlement"}
  /\ new.actual # old.actual => op \in {"UpdateOrder", "UpdateOrderStatus", "Settle"}

\* A request that read the order before others completed it, put it on a tab, took it
\* off or repriced it takes none of that back when it commits: an edit keeps the status
\* and the tab, a link keeps the total, whatever was committed since it read the order.
OthersColumnsSurvive ==
  [][\A r \in Requests, o \in Orders : At(r, "commit") /\ ~At(r, "commit")' /\ Exists(o)
       => DiffersInItsColumns(req[r].op, order[o], order'[o])]_txVars

\* Deadlocks have one cause: Settle locks the tab before its orders, all others
\* lock orders first, and two listings of one tab may disagree on the order.
DeadlockNeedsSettleOrTwoDeletes ==
  \A S \in SUBSET Requests : Deadlocked(S) =>
    \/ \E r \in S : req[r].op = "Settle"
    \/ \A r \in S : req[r].op = "DeleteSettlement"

\* Every request ends, with or without an error, whatever it has to wait for.
EveryRequestEnds == \A r \in Requests : ~At(r, "idle") ~> At(r, "idle")

(***************************************************************************)
(* The inductive invariant: what a request in flight may rely on, whatever *)
(* the others do.                                                          *)
(***************************************************************************)

\* A statement finds its path parameters, and a loop something left to write.
KnowsItsRows(r) ==
  /\ req[r].pc \in {"setStatus", "selectOrder", "findItems", "replaceItems", "setTotal",
                    "findLink", "readOrder", "link"} => req[r].o \in Orders
  /\ req[r].pc \in {"findTab", "insert", "readOrder", "link", "readOrders", "sum",
                    "writeTotal", "pay", "clear", "drop"} => req[r].s \in Settlements
  /\ req[r].pc \in {"pay", "clear"} => req[r].todo # << >>
  /\ req[r].op = "UpdateOrder" => req[r].o \in Orders

\* An edit that took lines away has new ones to insert, and before it commits it has
\* written their sum, to a row it still holds.
EditIsWhole(r) ==
  /\ req[r].deleted # {} => req[r].inserted # {}
  /\ req[r].inserted # {} => /\ req[r].pc \in {"setTotal", "commit"}
                             /\ req[r].inserted = {[by |-> r, amount |-> req[r].amount]}
                             /\ req[r].o \in Orders
                             /\ Exists(req[r].o)
  /\ req[r].inserted # {} /\ At(r, "commit") => /\ lock[req[r].o] = r
                                                /\ orderDraft[req[r].o].total = req[r].amount
  /\ req[r].pc \in {"findItems", "replaceItems", "selectOrder", "setStatus"} => Exists(req[r].o)
  /\ At(r, "setStatus") => req[r].status # "NONE"

\* A request holds no tab but its own, and only when nothing else can refuse it.  The
\* tab that one creates is known to nobody else; any other tab was committed before.
OwnsItsTab(r) ==
  /\ \A s \in Settlements : lock[s] = r => req[r].s = s /\ req[r].pc \in {"pay", "commit"}
  /\ IF req[r].op = "CreateSettlement"
       THEN /\ req[r].s \in Settlements
            /\ settlement[req[r].s].row = "absent"
            /\ \A q \in Requests \ {r} : req[q].s # req[r].s
       ELSE req[r].s # Null => settlement[req[r].s].row # "absent"
  /\ At(r, "insert") => req[r].op = "CreateSettlement"
  /\ At(r, "findLink") => req[r].op # "CreateSettlement"

\* Uncommitted versions neither create an order nor take one away, and put orders on
\* committed tabs only.
OrderDraftsSound ==
  \A o \in Orders :
    /\ orderDraft[o].status = "NONE" <=> order[o].status = "NONE"
    /\ \A row \in {order[o], orderDraft[o]} :
         row.settlement # Null => settlement[row.settlement].row # "absent"

\* An uncommitted version of a tab takes nothing back of what was committed: not that
\* the tab exists, nor that it is settled or deleted.
TabDraftsSound ==
  \A s \in Settlements :
    /\ settlement[s].row = "absent" => settlement[s].status = "UNSETTLED"
    /\ settlement[s].row # "absent" => settlementDraft[s].row # "absent"
    /\ settlement[s].row = "deleted" => settlementDraft[s].row = "deleted"
    /\ settlement[s].status = "SETTLED" => settlementDraft[s].status = "SETTLED"
    /\ settlementDraft[s].row = "absent" => settlementDraft[s].status = "UNSETTLED"

\* Requests, rows and lines are right together: each statement relies on all of them.
TxInv ==
  /\ TxTypeOK
  /\ \A r \in Requests : KnowsItsRows(r) /\ EditIsWhole(r) /\ OwnsItsTab(r)
  /\ OrderDraftsSound /\ TabDraftsSound /\ OrderNeverEmpty

(***************************************************************************)
(* With one request at a time the statements add up to the handlers of     *)
(* OrderBook.  An edit counts when its recalculation is over, so until     *)
(* then the order is shown as ReplaceItems found it.                       *)
(***************************************************************************)
Recalculating(o) == {r \in Requests : req[r].op = "RecalcTotalForOrder" /\ req[r].o = o}

OrderShown == [o \in Orders |-> IF Recalculating(o) = {}
                                  THEN order[o]
                                  ELSE req[CHOOSE r \in Recalculating(o) : TRUE].current]

Handlers == INSTANCE OrderBook WITH order <- OrderShown

ImplementsHandlers == Handlers!Spec

(***************************************************************************)
(* Why it does: with nobody else around, a request at any label knows what *)
(* the rows looked like when it arrived (order, settlement) and what it    *)
(* has written so far (orderDraft, settlementDraft).                       *)
(***************************************************************************)
StatusSoFar(r) ==
  LET o == req[r].o IN
  /\ o \in Orders /\ Exists(o)
  /\ \E target \in ApiStatuses : req[r].status \in StatusAfter(order[o].status, target)
  /\ orderDraft = IF At(r, "commit")
                    THEN [order EXCEPT ![o] = WithStatus(@, req[r].status, req[r].amount)]
                    ELSE order
  /\ settlementDraft = settlement

EditSoFar(r) ==
  LET o == req[r].o IN
  /\ Editable(o)
  /\ ~At(r, "selectOrder") => req[r].current = order[o]
  /\ orderDraft = IF At(r, "commit")
                    THEN [order EXCEPT ![o] = Repriced(@, @, req[r].amount)]
                    ELSE order
  /\ settlementDraft = settlement

\* The edit is committed, and shown as not yet done.
RecalcSoFar(r) ==
  LET o == req[r].o
      s == req[r].s
      current == req[r].current
  IN  /\ o \in Orders
      /\ current.status \notin {"NONE", "COMPLETED", "CANCELLED"}
      /\ order[o] = Repriced(current, current, req[r].amount)
      /\ ~At(r, "findLink") => s \in Settlements /\ s = order[o].settlement
      /\ req[r].pc \in {"sum", "writeTotal", "commit"} => Open(s)
      /\ At(r, "writeTotal") => req[r].sum = Receivable(order, s)
      /\ orderDraft = order
      /\ settlementDraft = IF At(r, "commit")
                             THEN [settlement EXCEPT ![s].total = Receivable(order, s)]
                             ELSE settlement

NewTabSoFar(r) ==
  LET s == req[r].s IN
  /\ s \in Settlements
  /\ settlement[s].row = "absent"
  /\ OpenFor(Customer[s]) = {}
  /\ orderDraft = order
  /\ settlementDraft = IF At(r, "commit") THEN [settlement EXCEPT ![s] = NewSettlement("live")]
                                          ELSE settlement

RelinkSoFar(r) ==
  LET o == req[r].o
      s == req[r].s
      adding == req[r].op = "AddOrder"
  IN  /\ o \in Orders /\ s \in Settlements
      /\ Open(s)
      /\ ~At(r, "readOrder") =>
           IF adding THEN Exists(o) /\ order[o].status # "CANCELLED" /\ order[o].settlement = Null
                     ELSE order[o].settlement = s
      /\ orderDraft = IF req[r].pc \in {"readOrder", "link"}
                        THEN order
                        ELSE [order EXCEPT ![o].settlement = IF adding THEN s ELSE Null]
      /\ At(r, "writeTotal") => req[r].sum = Receivable(orderDraft, s)
      /\ settlementDraft = IF At(r, "commit")
                             THEN [settlement EXCEPT ![s].total = Receivable(orderDraft, s)]
                             ELSE settlement

\* A loop over S, whose orders are still in its list or look as it leaves them.
LoopSoFar(r, S, left) ==
  /\ \A o \in S : o \in Range(req[r].todo) \/ orderDraft[o] = left[o]
  /\ \A o \in Orders : orderDraft[o] = order[o] \/ (o \in S /\ orderDraft[o] = left[o])
  /\ Range(req[r].todo) \subseteq S

SettleSoFar(r) ==
  LET s == req[r].s
      paid == [o \in Orders |-> [order[o] EXCEPT !.actual = order[o].total]]
  IN  /\ s \in Settlements
      /\ Open(s)
      /\ req[r].amount >= 0
      /\ IF At(r, "readOrders")
           THEN orderDraft = order
           ELSE /\ Linked(s) # {}
                /\ LoopSoFar(r, Charged(order, s), paid)
                /\ \A o \in Charged(order, s) : req[r].bill[o] = order[o].total
      /\ req[r].pc \in {"sum", "writeTotal"} => orderDraft = order
      /\ At(r, "writeTotal") => req[r].sum = Receivable(order, s)
      /\ At(r, "commit") => req[r].todo = << >>
      /\ settlementDraft = IF req[r].pc \in {"pay", "commit"}
                             THEN [settlement EXCEPT ![s] =
                                     [@ EXCEPT !.total = Receivable(order, s),
                                               !.status = "SETTLED", !.actual = req[r].amount]]
                             ELSE settlement

DeleteSoFar(r) ==
  LET s == req[r].s
      released == [o \in Orders |-> [order[o] EXCEPT !.settlement = Null]]
  IN  /\ s \in Settlements
      /\ Open(s)
      /\ IF At(r, "readOrders")
           THEN orderDraft = order
           ELSE LoopSoFar(r, Linked(s), released)
      /\ req[r].pc \in {"drop", "commit"} => req[r].todo = << >>
      /\ settlementDraft = IF At(r, "commit") THEN [settlement EXCEPT ![s].row = "deleted"]
                                              ELSE settlement

SoFar(r) ==
  /\ req[r].op = "none" => orderDraft = order /\ settlementDraft = settlement
  /\ req[r].op = "UpdateOrderStatus" => StatusSoFar(r)
  /\ req[r].op = "UpdateOrder" => EditSoFar(r)
  /\ req[r].op = "RecalcTotalForOrder" => RecalcSoFar(r)
  /\ req[r].op = "CreateSettlement" => NewTabSoFar(r)
  /\ req[r].op \in {"AddOrder", "RemoveOrder"} => RelinkSoFar(r)
  /\ req[r].op = "Settle" => SettleSoFar(r)
  /\ req[r].op = "DeleteSettlement" => DeleteSoFar(r)

\* The latest version of a row nobody holds is the committed one.
FreeRowsAreCommitted ==
  /\ \A o \in Orders : lock[o] = Free => orderDraft[o] = order[o]
  /\ \A s \in Settlements : lock[s] = Free => settlementDraft[s] = settlement[s]

\* What the only request in flight has written so far is a prefix of its handler.
SerialInv == FreeRowsAreCommitted /\ \A r \in Requests : SoFar(r)
=============================================================================
