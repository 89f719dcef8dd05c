# HappyEat in TLA+

HappyEat is the back end of a restaurant: a Go server (go-zero handlers, ent ORM) over one
PostgreSQL database, with Casbin for the authorisation of API calls and a cloud printer for the
kitchen. These modules model its core logic: orders and customer tabs, the tickets of the kitchen,
the catalogue of specifications and their prices, authorisation, and what is counted by day. TLC
checks them on small instances, and TLAPS proves their central invariants for any number of
orders, requests, dishes, users and rows.

## 1. The system

### Components, their state and their operations

| Component | State | Operations that change it | Source |
|---|---|---|---|
| Order life cycle | the status of an order | `UpdateOrderStatus`, through two tables: `ResolveTrigger` and the Permit calls of the state machine | `app/internal/pkg/status`, `logic/order/updateorderstatuslogic.go` |
| Orders and lines | `orders` (status, total, received amount, link to a tab), `order_items` | `CreateOrder`, `UpdateOrder` (replaces all lines), `UpdateOrderStatus` | `dal/model/order/order.go`, `logic/order` |
| Settlements ("tabs": several orders of one customer, paid together) | `settlements` (status, total, received amount, soft deletion) | `Create`, `AddOrder`, `RemoveOrder`, `Settle`, `Delete`, `RecalcTotalForOrder` | `dal/model/settlement/settlement.go` |
| PostgreSQL | committed rows, row locks, open transactions | statements at READ COMMITTED, rollback, deadlock detection | external |
| IAM and Casbin | `iam_roles`, `iam_users`, their links; the rules `p` (role, endpoint) and `g` (user, role) | create, delete and change roles, users and bindings; reset, synchronise, seed at the start | `svc/rbac_store.go`, `svc/rbac_sync.go`, `dal/model/iam`, `logic/iam`, `logic/rbac` |
| Kitchen tickets | goroutines that submit tickets; nothing is recorded | print on creation, on the difference of an edit, by hand | `logic/order/kitchenprint*.go`, `printorderkitchenlogic.go`, `pkg/spyun` |
| Specifications, menus | groups, items, templates of categories (`category_specs`), menus with `menu_specs`; copies of prices in the last two | create, update with propagation, delete when unused; resolution of a menu's list | `dal/model/spec`, `dal/model/menu`, `logic/spec`, `logic/menu` |
| Prices of lines | none | resolution from menu, template, item and client | `logic/order/menuitemprice.go` |
| Pick-up numbers | none: computed from the orders of a day | asked for by screens and tickets | `DailySequences` in `dal/model/order/order.go` |
| Statistics | none: two queries per report | daily sums, their summary, sums per dish | `dal/model/order/stats.go`, `logic/stats` |
| Tables | tables and table categories | create, update, delete when unused | `dal/model/table`, `logic/table` |
| Display order | none | order of lines on screens and tickets | `logic/order/display_sort.go` |
| Audit log, login, object storage, voice agent | an append-only table; none; none; none | insert after a response; check a password and sign; sign an address; call a model | `dal/model/audit`, `logic/auth`, `pkg/cos`, `pkg/agent` |

### How they interact

- Every API call runs in a goroutine of its own. The server keeps no order or tab in memory: the
  rows of the database are the only shared state, and all coordination is what PostgreSQL does.
- An order points at its tab (`orders.settlement_id`). The tab's `total_amount` is a copy of the
  sum over its orders. `AddOrder`, `RemoveOrder` and `Settle` recompute it inside their
  transaction; `UpdateOrder` recomputes it after its commit and ignores an error;
  `UpdateOrderStatus` does not recompute it.
- `IAM` is the truth for roles and `Casbin` a projection. Each IAM call first commits to the IAM
  tables and then brings Casbin up to date with separate calls; the start of the server, and one
  API call, rebuild the projection.
- `CreateOrder` and `UpdateOrder` hand a ticket to a goroutine after their commit. The ticket of
  an edit shows the difference between the lines the handler read first and the lines it reads
  back; the kitchen only ever sees tickets, and the server never learns what came out.
- A specification of a menu refers to a template of its category or to an item, a template to an
  item, an item to a group. Templates and menus keep a copy of the price and of the names; pricing
  follows the references and uses a copy where they end.
- Pick-up numbers and reports are computed each time from the committed orders, while handlers
  create and change them.

### What is hard, and what correctness means

- **Tests before writes.** Nearly every handler reads a row, decides, and then writes by id
  alone, with no `SELECT ... FOR UPDATE`, no version column and no constraint behind the decision.
  Correct: an order only advances; a settled tab never changes again; a customer has one open
  tab; an order never points at a deleted tab; a write takes back nothing that others wrote since
  the row was read.
- **Copies that must follow their originals.** The total of a tab against its orders, the total
  of an order against its lines, Casbin against IAM, copied prices against the item, what the
  kitchen was told against the order. Correct: exact whenever the code says it
  recomputes, and repaired by what the code offers for it.
- **Errors between statements.** A context times out, a connection is lost, the process stops.
  Correct: lines, total and links change together; no lock outlives its request; a restart
  repairs the projection.
- **Messages without an answer.** A ticket may be late, lost, overtaken, or made from lines that
  another edit has replaced. Correct: what is wrong in the kitchen is limited to the dishes such a
  ticket was about, and a reprint puts it right.
- **References without foreign keys.** Deletion is soft, `UPDATE` reaches deleted rows, and a
  count of references precedes the deletion of a group, an item or a template as a statement of its
  own; a category is deleted without one. Correct: what a specification names exists, names stay
  unique, and a price is the item's.
- **Answers that age.** A pick-up number is called out, and the orders it was counted among keep
  changing. Correct: it moves by no more than the creations in flight.
- **Locks in different orders.** `Settle` locks the tab before its orders, the others lock
  orders first. Correct: every request ends.

`PROJECT.json` lists each hazard at its line, with the properties that are about it.

## 2. Modules

| Module | What it is |
|---|---|
| `OrderStatus` | the two tables of the life cycle and what a request for a target status leads to |
| `OrderBook` | orders and tabs when calls do not overlap: one action per handler. The abstract specification |
| `OrderBookTx` | the same handlers, statement by statement, as concurrent transactions. The detailed specification |
| `Kitchen` | the lines of orders, overlapping edits, and the tickets about them |
| `Catalog` | groups, items, templates, menus and categories, statement by statement |
| `DayBook` | pick-up numbers and sales reports over the handlers of `OrderBook` |
| `Rbac` | IAM, its projection, the start of the server, errors and crashes |
| `OrderBookProofs`, `OrderBookTxProofs`, `KitchenProofs`, `CatalogProofs`, `DayBookProofs`, `RbacProofs` | theorems about the module of that name and their proofs |
| `OrderBookTxRefines` | the proof that `OrderBookTx` implements `OrderBook` when requests do not overlap |
| `Sums` | lemmas about sums over finite sets, for the proofs about reports |
| `MCOrderBook`, `MCOrderBookTx`, `MCKitchen`, `MCCatalog`, `MCDayBook`, `MCRbac` | model values for TLC |

`OrderBookTx` and `DayBook` extend `OrderBook`: the first refines its handlers into statements,
the second lets any of them happen between the steps of creating, numbering and reporting orders.

Definitions marked "Fault:" are not part of any specification. Each is the definition that follows
it with one plausible mistake, kept to show that the properties notice it.

### OrderBook

`order[o]` is a row of `orders` (`NONE`: not inserted yet), `settlement[s]` a row of
`settlements` (`row` is `deleted` once `delete_ts` is set). Each action is a whole handler with
all its early returns: a handler that returns an error changes nothing and is not a step.

| Action | Code |
|---|---|
| `CreateOrder` | `createorderlogic.go` with `Order.Create` |
| `UpdateOrder` | `updateorderlogic.go`: `ReplaceItems`, then `RecalcTotalForOrder`, whose error is dropped (the disjunct that leaves the tab alone) |
| `UpdateOrderStatus` | `updateorderstatuslogic.go` with `Order.UpdateStatus` |
| `CreateSettlement`, `AddOrder`, `RemoveOrder`, `Settle`, `DeleteSettlement` | the functions of the same names in `settlement.go`; `Receivable` is `recalcTotal` |

The total a client sends with a new order is stored as it is; the code compares it with nothing.
That an amount is at least 0 is checked where the code checks it. Amounts are integers of
unbounded width: an `int64` of fen is not exceeded by any restaurant bill.

### OrderBookTx

One step per SQL statement. `order` and `settlement` hold the committed rows, `orderDraft` and
`settlementDraft` the latest version of each row (the uncommitted one, when a transaction holds
the row), `lock` the holder, `items` the committed lines as batches (the lines one request
inserts), and `req[r]` the local state of a request. A query sees the committed rows and its own
writes; an UPDATE waits for the row, then changes only the columns it names in the row it finds;
a DELETE works on the rows its snapshot found, and waits for those another transaction deletes.
`Fail` may hit a request between any two statements and rolls back its open transaction.

| Handler | Steps |
|---|---|
| `CreateOrder` | `TxCreateOrder` (one step: nobody can see its rows before the commit) |
| `UpdateOrder` | `ArriveUpdateOrder`, `SelectOrder`, `FindItems`, `ReplaceItems`, `SetTotal`, `Commit`, then `FindLink`, `FindTab`, `SumOrders`, `WriteTotal`, `Commit` |
| `UpdateOrderStatus` | `ArriveUpdateStatus`, `SetStatus`, `Commit` |
| `CreateSettlement` | `ArriveCreateSettlement`, `InsertSettlement`, `Commit` |
| `AddOrder`, `RemoveOrder` | `ArriveRelink`, `ReadOrder`, `Link`, `SumOrders`, `WriteTotal`, `Commit` |
| `Settle` | `ArriveSettle`, `ReadOrders`, `SumOrders`, `CloseTab`, `PayOrder` per order, `Commit` |
| `Delete` | `ArriveDelete`, `ReadOrders`, `ClearOrder` per order, `DropSettlement`, `Commit` |

### Kitchen

`lines[o]` are the committed lines of an order, `closed[o]` says that it is completed or cancelled
(and no longer so after a late status change, see `status_race`), `tickets` are those a goroutine is
submitting, and `board[o]` is how much of each dish somebody who follows the tickets that came out
would cook. `doubt[o]` is a history variable: the dishes a hazard has touched, that is, edits that
overlapped, tickets that were lost or under way together, and two lines of one dish. A transaction
has the two instants that matter to others, when its `DELETE` sees the lines and when it commits.

| Action | Code |
|---|---|
| `Create`, `AnnounceNew` | `createorderlogic.go`: the commit; the ticket of the whole order |
| `ReadOrder`, `DeleteItems`, `CommitItems`, `AnnounceEdit` | `updateorderlogic.go` with `ReplaceItems`: the lines read first, the transaction, the ticket of the difference (`OldMaps` to `Mode` are `DiffOrderItems`; of two old lines of one dish either may be the one compared, because the query gives no order) |
| `Reprint` | `printorderkitchenlogic.go` |
| `ComesOut`, `Lose` | the goroutine of `kitchenprint.go`: the printer has the ticket, or 25 seconds pass |
| `ChangeStatus`, `Fail`, `Crash` | a status change, in either direction; an error of any statement; the server stops with all goroutines |

`CreateOrder` does not check quantities, so a line of a new order may ask for 0; `ReplaceItems`
refuses that. A quantity below 0 stands with 0: nothing is cooked for either, and both differ from
any quantity an edit can bring. `Follow` is not code: it states how a ticket is read. A full ticket
replaces what was known, one of additions adds, one of changes gives new quantities and strikes
dishes out.

### Catalog

One step per statement, because the handlers look first and write later, mostly without a
transaction. `req[r]` is what a request has looked up. `Ops` names the endpoints a run calls.

| Handler | Steps |
|---|---|
| groups | `CreateSpecGroup`, `InsertGroup`; `UpdateSpecGroup`, `WriteGroup`; `DeleteSpecGroup`, `DropGroup` |
| items | `CreateSpecItem`, `InsertItem`; `UpdateSpecItem`, `WriteItem`, `CopyTemplates`, `CopySpecs`, `CopyThrough`; `DeleteSpecItem`, `CountSpecs`, `DropItem` |
| an item for a name (`ensureGlobalSpecItem`) | `FindGroup`, `InsertGroup`, `FindItem`, `InsertItem` |
| templates | `TemplateOfItem` or `TemplateOfName`, `CheckTemplate`, `InsertTemplate` or `WriteTemplate`, `CopyTemplatePrice`; `DeleteCategorySpec`, `DropTemplate` |
| menus | `CreateMenu` or `UpdateMenu`, `NextSpec` per specification, `SpecsResolved`, `Validate`, then `InsertMenu` or `LockMenu`, `ReplaceSpecs`, `CommitMenu`; `DeleteMenu`, `DeleteSpecs`, `DropMenu` |
| categories | `CreateMenuCategory`, `DeleteMenuCategory` |

`Fail` may end a request before any statement. The transactions on menus are the only row locks
anybody waits for; they follow from where the requests are (`Holds`, `HoldsSpecs`). `sees` says
whether the rows that the first statement of a deletion found are still there. `PriceOf` is
`menuSpecPriceDelta`, what one specification adds to the price of a dish.

### DayBook

`now` is the clock, counted from a midnight in the time zone of the code. `entry[o]` is how far the
creation of an order is: it takes its creation time (`StampOrder`), then its id and the INSERT
(`DrawId`, ids ascend with `drawn`), and is seen when it commits (`CommitOrder`, which is
`CreateOrder` of `OrderBook`) or never (`FailOrder`). `ChangeOrders` is any other handler of
`OrderBook`. `ShowNumber` is one look at a number: `shown[o]` keeps which orders it counted and
which were in flight before it, or is empty when the query failed and no number was shown.
`ReadDaily` and `ReadSummary` are the two queries of a report, and `report.touched` the orders that
changed between them.

### Rbac

A handler is the list of its remaining instructions (`todo[q]`), each one IAM statement or one
enforcer call; an instruction that reads something puts the instructions that depend on it in
front of the rest. The start of the server is such a list (`Boot`), and calls are only accepted
when it is empty. An error drops the list of the call (`Abort`, `Fail`); `Crash` drops all lists
and starts the server again. An enforcer call writes its storage before its memory and the memory
is loaded from the storage at the start, so one copy of `p` and `g` stands for both. `clean` is a
history variable: no call was cut short since the start. A loop (`ForEach`) is the list of what it
does for each element. The predicates of the inductive invariant speak of the set of instructions
still to come (`Pending`), and of which of them may stand before which (`MayPrecede`).

## 3. What is checked

| Run | Question | Bounds | Result |
|---|---|---|---|
| `order_book` | Do handlers that do not overlap keep orders and tabs consistent? | 2 orders, 2 tabs of one customer and 1 of another, amounts 0 and 1 | all properties hold |
| `tx_serial` | Do the statements add up to the handlers? | 1 request at a time, 2 orders, 2 tabs of one customer, failures anywhere | `OrderBookTx` implements `OrderBook`; `SerialInv` |
| `tx_edits` | What survives overlapping edits, status changes and links of an order? | 2 requests, 1 order, 1 tab, amounts 0 and 1; no `RemoveOrder`, `Settle`, `Delete` | no order without lines; the total belongs to lines the order has; nothing another request wrote is taken back |
| `tx_live` | What can deadlock, does every request end, and what does a late writer overwrite? | 2 requests, 2 orders, 1 tab, amount 0; no `UpdateOrderStatus` | deadlocks need `Settle` or two `Delete`; each request ends, by itself or as a deadlock victim; no tab is reopened or revived, and nothing another request wrote to an order is taken back |
| `kitchen` | Where can the kitchen be wrong about an order? | 3 calls of any kind, 1 order, 2 dishes, quantities 0 to 2, five lists of lines, one of them with a dish twice and one with a dish of quantity 0; tickets lost, late or overtaken, crashes | only about dishes a hazard touched |
| `catalog` | Do references, names and prices survive any sequence of calls? | 1 request at a time, 1 category, 2 groups, 2 items, 1 template, 1 menu, 1 group name, 2 item names, prices 0 and 1, lists of up to 2 specifications, failures before any statement | all properties hold |
| `day_book` | How far can a number move, and do days and summary agree? | 2 orders around a midnight (two days of 2 instants), no tabs, amounts 0 and 1, reports of any range | all properties hold |
| `rbac` | Is the projection exact when calls do not overlap, and is it repaired? | 1 request, 2 users, 2 roles, 1 permission with 2 endpoints; errors and crashes anywhere | all properties hold |
| `status_race` | Does an order only advance when status changes overlap? | 2 requests, 1 order | violated |
| `orphan_specs` | Do a deleted menu's specifications go with it when calls overlap? | 2 requests, 1 menu, 1 category | violated |
| `category_in_use` | Is the category of a menu there as long as the menu is? | 1 request at a time, 1 category, 1 menu | violated |
| `rbac_race` | Is the projection exact after two overlapping updates of a role? | 2 requests, 2 permissions that share an endpoint | violated |

The properties, in words:

- `LinksAreLive`, `OneOpenTab`, `SettledKeepsOrders`: no order on a deleted tab, one open tab per
  customer, no settled tab without orders. `IInv` is their inductive conjunction (section 4).
- `StatusOnlyAdvances`, `ClosedBooks`: an order never goes back; the row and the orders of a settled
  tab never change.
- `ExactWhenTouched`: a step that changes the orders of an open tab, or settles it, leaves its
  total exact, however stale it was. This is what remains of the rule that a tab's total
  is the sum of its orders (`schema/settlement.go:46`): cancelling an order on an open tab does not
  recompute it.
- `SettlePaysOrders`: settling marks exactly the orders it charges as received in full.
- `ImplementsHandlers`: the refinement. `UpdateOrder` is two transactions in the code and one
  action in `OrderBook`; the mapping shows the order as it was until the recalculation is over.
- `OrderNeverEmpty`, `TotalNamesItsLines`: what the transaction around an edit guarantees, with
  any overlap.
- `OthersColumnsSurvive`: a request that commits to an order changes only what its endpoint is
  about. An edit that read the order before it was completed, or put on a tab, keeps the completion
  and the tab; a link made meanwhile keeps the edit's total. It holds because every `UPDATE` names its
  columns, with any overlap.
- `TabNeverReopens`, `DeadlockNeedsSettleOrTwoDeletes`, `EveryRequestEnds`: what column-wise
  updates, the order of locks and the deferred rollback guarantee, with any overlap.
- `TxInv`: what a request may rely on while others run. It finds the rows it was given; an edit
  that deletes lines has lines to insert, and before it commits it has written their sum to an
  order it still holds; nobody but itself writes the tab it is about to commit; and no uncommitted
  version takes back that a tab exists, is settled or is deleted. `TxTypeOK` is its typing part.
- `SerialInv`: what a single request has found and written at each of its statements, the inductive
  form of the refinement.
- `KitchenInStep`: once the tickets of an order are out, the kitchen owes what the order says of
  every dish outside `doubt`. A lost or stale ticket spoils what it was about, nothing else, and a
  reprint of the order as it stands, with nothing else under way, settles all doubt.
  `KitchenCatchesUp`: from some moment on that holds for good. The `IInv` of `Kitchen` is its
  inductive form.
- `SpecReferencesLive`, `NamesUnique`, `PricesAreCurrent`: the group of an item, the item of a
  template and what the specification of a menu names exist (the category of a menu or a template
  need not, see `CategoriesInUseLive`); a name finds one row; a specification costs what its item
  costs now, even where a failed update left the copies behind. `UpdateRepairs`: an update that goes
  through leaves every copy right, whatever earlier ones left undone. `NoOrphans`: a deleted menu
  has no specifications; it is part of the `IInv` of `Catalog`, and what `orphan_specs` refutes for
  overlapping calls. `CategoriesInUseLive`: the category of a menu exists. The documentation demands
  it, and `category_in_use` refutes it.
- `NumberDrift`: a number that was called out never shrinks, and grows by at most the creations in
  flight when it was read. `NumbersAreDistinct`: two numbers of one day, each read with no earlier
  creation in flight, differ, whenever they were read. `ReportAddsUp`: the days of a report add up
  to its summary unless orders changed in between, and then the count is off by at most as many.
  `DayInv` is the inductive invariant of the numbers, `ReportInv` of a report between its two
  queries: which orders it has counted.
- `ProjectionExact`: with no call in flight and none cut short, Casbin is exactly what IAM says.
  `SyncRepairs`: a synchronisation that ends repairs everything errors and crashes left, for roles
  that exist or were deleted and users that exist. `StartRestoresAdmin`: after a start `dev-admin`
  may call every endpoint, whatever was revoked before. `RoleDeletionSparesLastRole`: deleting a
  role takes nobody's last role. `RbacInv` is the inductive invariant behind them: what the
  instructions of a call that runs alone make good of what its statements have left wrong, and what
  a start still seeds.

**Why the bounds are enough.** A tab interacts with another only through an order that could be on
both or a customer they share, and a handler touches one order and one tab, or one tab and all its
orders: two orders, and two tabs of a customer plus a stranger's, contain each case. Amounts matter
only as equal or different, zero or positive. Ids are never reused, so a small set of them bounds
how many rows a behaviour creates and nothing else. Two requests show every pairwise conflict; a
cycle of three waiting requests needs three rows locked in three orders, and the code has two kinds
of rows. The two larger runs divide the endpoints: `UpdateOrderStatus` writes one order and waits
for no second row, so it takes no part in a deadlock and touches no tab, and `tx_live` does without
it; `tx_edits` keeps, of the tab's endpoints, those that link an order, and leaves the others beside
an edit to `tx_live`. What either run leaves out the theorems of section 4 cover. In `Rbac`, a
second role and a second user show interference between roles and users, and two endpoints show a
half-written role; repeated faults are unbounded.

In `Kitchen` three calls are a creation and two edits, or an edit and a reprint, so that tickets can
pass each other; tickets of different orders never meet. Two dishes show a ticket that is about one
and silent about the other, and quantities 1 and 2 a change without addition or removal, and
quantity 0 an order the code accepts. The lists have a dish added, dropped, changed and on two
lines. In `Catalog` an item can move between two groups and take the name of the other item; a menu
can name the same item directly and through a template. More menus or templates repeat what one
does, as nothing relates two of them but the item they share. In `DayBook` two orders can draw ids
in the other order than they commit, on either side of midnight; how tabs change orders is any
change to a number or a report.

**Symmetry** is used for orders, requests, tabs of one customer, and the groups, items and names
of the catalogue, in runs without liveness.
**Deadlock of TLC** is not checked for the order modules: with all ids used and all orders
finished, nothing is left to do; nor for `Kitchen` and `DayBook`, whose calls and clock end. It is checked
for `Rbac`, where a start always remains possible, and for `Catalog`, where rows can always be
changed again and no request waits for ever.

**Fairness** (`FairTxSpec`): strong fairness of `Step(r)` for each request, weak fairness of
`DeadlockVictim(r)`. A goroutine in flight is scheduled again and again, and PostgreSQL queues the
waiters of a row in order of arrival, so a statement that can run infinitely often does run; its
deadlock detector runs one second after a wait begins. Requests need not arrive, and `Fail`
is not fair: ending does not depend on a timeout.

`FairSpec` of `Kitchen`: weak fairness of `Begun(r)`, a handler that has begun, and of a ticket
coming out or being lost. A goroutine runs on, and a submission has a timeout of 25 seconds. No call
need begin and no ticket need come out.

### What the violations mean

`category_in_use` needs no overlap: `DeleteMenuCategory` deletes a category whatever belongs to it,
although `docs/菜单业务规划.md:78` asks for a look at its menus first, and the function that counts them
has no caller. Menus and templates then stay behind in a category that is gone.

The code serialises calls only by accident of timing, so the properties of `order_book` and
`catalog` hold as long as calls on the same rows do not overlap. The runs `status_race`,
`orphan_specs` and `rbac_race` each show one consequence of overlap. Others, in the same models:

- an order is removed from a tab that is settled meanwhile, and the settled tab loses it
  (`ClosedBooks`);
- two edits that overlap leave the lines of both, under the total of one;
- two `CreateSettlement` calls give a customer two open tabs (`OneOpenTab`);
- `Delete` beside `AddOrder` leaves an order on a deleted tab (`LinksAreLive`);
- two `AddOrder` calls move an order from one tab to the other, and the first tab keeps it in its
  total;
- a second `Settle` overwrites the received amount; `Delete` beside `Settle` deletes a settled tab;
- an edit that was allowed for an unfinished order is carried out after it was completed, which
  changes its lines and total but leaves it completed (`OthersColumnsSurvive`);
- two `AddOrder` calls to one tab may leave a total without one of the orders;
- two calls that ensure the same specification both create it, and from then on the lookup of that
  name fails (`NamesUnique`);
- a menu takes up an item between the counts and the deletion of the item, and its price falls
  back to the copy (`SpecReferencesLive`).

Without any overlap an order on a tab may be cancelled: an open tab keeps its total until the next
call that touches it, against the comment on `total_amount`. An order of a settled tab may still be
edited or cancelled: the tab keeps its total, as `ClosedBooks` demands, and then differs from its
orders.

Beside `rbac_race`: two deletions of different roles can take both roles of a user, because each
counts before the other removes; a binding written beside the deletion of its user stays in
Casbin, where no synchronisation looks for it; the creation of a user with an unknown role
reports an error after binding the roles before it, which are then in IAM but not in Casbin.

## 4. What is proved

For every value of the constants that meets the named assumptions of the modules. Each theorem
below is about a property that a run also checks, except `DiffTicketTells` and `SumOfParts`, which
are about operators, and `StartRepairs`.

| Theorem | States |
|---|---|
| `OrderBookProofs`: `TypeCorrect`, `Inductive` | `Spec => []TypeOK`, `Spec => []IInv` |
| `LinksStayLive`, `OneTabPerCustomer`, `SettledTabsAreNeverEmptied` | the three safety invariants of `order_book` |
| `OrdersAdvance`, `BooksStayClosed`, `TouchedTabsAreExact`, `SettlingPaysOrders` | the action properties of `order_book` |
| `OrderBookTxProofs`: `TxInductive`, `TxTypeCorrect` | `TxSpec => []TxInv`, `TxSpec => []TxTypeOK` |
| `NeverEmpty`, `TotalsNameTheirLines`, `TabsStayClosed` | `OrderNeverEmpty`, `TotalNamesItsLines`, `TabNeverReopens` under any interleaving of any number of requests |
| `OthersWritesSurvive` | `OthersColumnsSurvive`, under any interleaving of any number of requests of any kind |
| `DeadlocksHaveOneCause` | `DeadlockNeedsSettleOrTwoDeletes`, for cycles of any length |
| `OrderBookTxRefines`: `SerialInductive`, `StatementsImplementHandlers` | `TxSpec => []SerialInv` and `TxSpec => ImplementsHandlers`, under the assumption `OneRequest` |
| `KitchenProofs`: `DiffTicketTells` | following the ticket of a difference turns the old quantity of a dish into the new one, for any two lists of lines in which the dish has one line at most |
| `KitchenInvariant`, `InStep` | `IInv` and `KitchenInStep`, for any number of requests, orders, dishes and tickets |
| `CatalogProofs`: `CatalogInvariant`, `StaysLive`, `StaysUnique`, `PaysCurrentPrice`, `RepairsCopies` | `IInv`, `SpecReferencesLive`, `NamesUnique`, `PricesAreCurrent`, `UpdateRepairs`, all under the assumption `OneAtATime` |
| `DayBookProofs`: `DayInductive`, `NumbersDrift`, `NumbersDiffer` | `DayInv`, `NumberDrift`, `NumbersAreDistinct` |
| `ReportIsOfItsOrders`, `DaysAddUp` | `ReportInv` and `ReportAddsUp`, for any number of orders and days |
| `Sums`: `SumOfParts` | the sum over the sums of the parts of a finite set is the sum over the set |
| `RbacProofs`: `RbacInductive`, `RbacTypeCorrect` | `Spec => []RbacInv`, `Spec => []RbacTypeOK`, with any overlap of calls |
| `StartRepairs`, `AdminIsRestored` | with any overlap, errors and crashes before it: the projection is exact when a start has synchronised it, and `StartRestoresAdmin` |
| `ProjectionIsExact`, `SynchronisationRepairs`, `DeletionSparesLastRole` | `ProjectionExact`, `SyncRepairs`, `RoleDeletionSparesLastRole`, under the assumption `OneAtATime` |

So every property of the passing runs is proved for instances of any size and with all endpoints,
also where a run leaves some of them out, but for liveness
(`EveryRequestEnds`, `KitchenCatchesUp`).

**Assumptions.** Amounts and prices are integers, and 0 is an amount; `Null` and `Free` are no
rows and no requests; orders and tabs are different rows; the set of orders is finite; a day has an
instant; the lists clients submit are sequences of lines with quantities from 0 up. `OneAtATime` says
that the catalogue's calls do not overlap: its code has no protection against it, and the run
`orphan_specs` shows that one of the conjuncts then fails. In `Rbac` the condition of that name is a
hypothesis of three theorems only, which `rbac_race` shows to be needed; users, roles and endpoints
are finite sets, `dev-admin` and `super_admin` are among the seeded ones, and the defaults of
`super_admin` are all permissions. `OneRequest` is a hypothesis of the refinement, and `status_race`
shows what becomes of it otherwise.

**`OrderBook`.** The three safety invariants are not inductive one by one. Deleting a tab keeps
`LinksAreLive` because it releases its orders; that a settled tab keeps its orders needs that
`AddOrder` takes none from another tab; and creating an order under a new id keeps a settled tab
as it is only if a new id is on no tab. `IInv` adds that last fact (`NewOrdersUnlinked`). Rather
than prove each conjunct for each action, three lemmas summarise what any step can do, to links
(`NextLinks`), to tabs (`NextTabs`) and to the status of orders (`NextStatus`); the conjuncts and
the action properties follow from these summaries. That `recalcTotal` yields an amount of the
right type is `ReceivableType`; the two tables of the life cycle agree on a direction in
`StatusTablesAdvance`.

**`OrderBookTx`.** A statement reads, or writes one row that it locks, or ends the transaction
(`ReadStep`, `OrderRowStep`, `TabRowStep`, `RollbackStep`, `CommitStep`). A statement of one
request leaves what the others rely on alone, because nobody writes a row another one holds
(`OthersKeep`), so each statement answers for its own request only. `OrderNeverEmpty` then needs
`EditIsWhole`: lines only disappear when an edit commits, and an edit that deletes has lines to
insert. `TotalNamesItsLines` needs that it still holds the row it wrote the sum to. `TabNeverReopens`
needs `TabDraftsSound`: an `UPDATE` assigns its own columns to the latest version of the row, so no
version a request could commit takes back what was committed. For `OthersColumnsSurvive` an auxiliary
invariant of the proofs, `DraftsInTheirColumns`, says the same of orders: as long as a request holds
the row of an order, its draft differs from the committed row in the columns of its endpoint only,
because whoever could commit another version would have to hold the row.

**Deadlocks.** In a smallest set of requests that wait for each other everyone is waited for
(`EachIsWaitedFor`), so everyone waits and holds a row. `KeepsToItsHandler`, an auxiliary invariant
of the proofs, says who holds what where: a request that holds rows waits either for a tab or, in
the loops of `Settle` and `Delete`, for the next order, and nobody but `Settle` holds a tab while it
waits. Without `Settle` no tab is waited for, which leaves the loop of `Delete` (`DeadlockCause`).

**The refinement.** `SerialInv` relates the drafts to the committed rows: at each label a request has
written exactly the beginning of its handler, which `SoFar` spells out with the operators of the
handlers themselves. Each statement adds its part (`...Serial`). A commit then publishes what the
handler promises (`...Committed`), and every other step is invisible (`Invisible`) except the end of
an edit: the mapping shows an edited order as it was until its recalculation is done or given up
(`EditEnds`).

**`Kitchen`.** `KitchenInStep` speaks of quiet orders, and says nothing while tickets are under way.
`IInv` says what is due in between, for each dish no hazard has touched: before each announcement
still to come the kitchen must owe what that request read first (`Due`), at most one ticket touches
the dish, and following it leads to what is due next (`Tracked`). The lemmas `...Tracked` show this
action by action: `JoinTracked` for a ticket that is submitted, `OutTracked` for one that comes out.
Everything else either touches another dish or puts this one in doubt.

**`Catalog`.** `Knows` says what a request has established when it is at a label, and each statement
relies on it. With calls that do not overlap nobody can take it away, and `Fail` at any label leaves
rows that satisfy the invariant. `PricesAreCurrent` follows from live references alone, because a
price is a copy only where a reference leads nowhere; that is why a propagation cut short does no
harm. `UpdateRepairs` needs that each of the three copying statements leaves alone what those before
it have set right.

**`DayBook`.** Ids ascend (`IdsAreUnique`), so the orders counted up to an order only change by the
commit of one that had its id already, that is, of one in flight before it; no handler makes an
order disorder disappear. `LooksAge` keeps that for every look since. A report has counted some set
of orders by day; `ReportInv` keeps that an order outside `touched` is in that set exactly if the
summary would count it now (`ReportKept`). Adding the days up is then a matter of sums alone: each
order falls on one day of the range (`DayBetween`), and `Sums` shows that a sum depends neither on
the order of its terms nor on how they are grouped. Its inductions go over the subsets of a finite
set: `SubsetInduction` takes the set of subsets for which something holds where one would pass a
predicate, and `Computable` builds the recursive function that the library's fold chooses.

**`Rbac`.** While a call runs, the projection is wrong; what holds is that the instructions still to
come would make it right. `PoliciesSettled` computes for a role what `p` will be when they are
through, from the removals and additions to come, and `GroupingsSettled` does so for a user;
`PoliciesRebuilt` and `GroupingsRebuilt` are the earlier case, in which an instruction to come reads
IAM and will list them. `Ordered` is what makes these sets of instructions enough: IAM is written
before what is read from it, and removals precede additions. All this is claimed for lists that run
alone (`Alone`), which a start always does, whatever overlapped before it: so `StartRepairs` and
`AdminIsRestored` need no assumption. `SeedsAdmin` says of every list of a start that what
`dev-admin` lacks is still on it. Loops are lists over finite sets, and their order never matters:
`LoopLists` says that a loop lists what it does for each element and nothing else. One lemma per
instruction (`...OK`) shows that what it puts in front of its list keeps the invariant, one per call
that its list makes good what it is about to change.

**Only model-checked:** the liveness properties `EveryRequestEnds` and `KitchenCatchesUp`, because
the prover cannot reason about fairness.

## 5. What is not modelled

- Tables and their categories: single statements. A category is deleted without a look at its
  tables, and no code links the status of a table to its orders, so the code promises nothing.
- Base prices, a price given by the client, and the text that selects specifications: a lookup
  and a sum without state. What a specification adds is `PriceOf`.
- Reports per dish, and the split into dine-in and takeaway: sums of the same rows as the daily
  figures. Display order: a stable sort for screens and tickets.
- Login, the voice agent, object storage: no state of their own beyond a call of a service. The
  workbench is a list of orders.
- The audit log: an insert after the response, whose failure is logged.
- Fields nothing depends on: remarks, phones, passwords, avatars, pagination, texts and sort keys.
  The random suffix of an order number may collide; the unique index then refuses the second order.
- Layout of tickets, and what paper shows besides lines.
- The legacy role `unknown`, which the start of the server removes.
- Data races of the enforcer, which is used without its synchronised variant: a fatal one is
  covered by `Crash`, other effects are not modelled.
- Generated code. About 69 000 of the 87 000 lines of Go are what ent generates from the schema,
  and 4 000 more are request types and routing that goctl generates. They are modelled by the
  statements they issue and the calls they route; the modules cover the hand-written logic on top.

## 6. Plan

1. *(done)* `OrderStatus`, `OrderBook`, `OrderBookTx` with the refinement between them, and the
   proofs about both.
2. *(done)* `Rbac`.
3. *(done)* `Kitchen` and its proofs.
4. *(done)* `Catalog` and its proofs: references, names, prices and their copies.
5. *(done)* `DayBook` and the proofs about numbers.
6. *(done)* `OrderBookTxRefines`: the refinement of `OrderBook` by `OrderBookTx` as a theorem; the
   cause of deadlocks; `RbacProofs`; the sums of reports.
7. `Catalog` with `OneAtATime` replaced by what actually protects a part of it: the transactions
   on menus.
8. Prices of whole lines against a reference definition.
