------------------------- MODULE OrderBookTxProofs -------------------------
(***************************************************************************)
(* Proofs about OrderBookTx for any number of requests, orders and tabs:   *)
(* what holds however their statements interleave and wherever they fail.  *)
(*                                                                         *)
(* A statement either only reads, or updates one row it locks, or ends the *)
(* transaction.  One lemma for each of these says what the invariant asks  *)
(* of the request that runs it; the handlers then answer for that request  *)
(* alone.                                                                  *)
(***************************************************************************)
EXTENDS OrderBookTx, OrderBookProofs, FiniteSetTheorems

RequestOK(r) == KnowsItsRows(r) /\ EditIsWhole(r) /\ OwnsItsTab(r)

\* A tab that r comes to create is no other request's.
TabIsNew(r) ==
  req'[r].op = "CreateSettlement" =>
    \/ req[r].op = "CreateSettlement" /\ req'[r].s = req[r].s
    \/ \A q \in Requests \ {r} : req[q].s # req'[r].s

LEMMA IdleType == IdleRequest \in ReqRow
<1>1. NewOrder("NONE", 0, 0) \in OrderRow
  BY AmountsAssumption DEF NewOrder, OrderRow, OrderStatuses
<1>2. [o \in Orders |-> 0] \in [Orders -> Amounts] /\ << >> \in Seq(Orders) /\ 0 \in Totals
  BY AmountsAssumption DEF Totals
<1>3. QED
  BY <1>1, <1>2, AmountsAssumption DEF IdleRequest, ReqRow, Labels, Endpoints, OrderStatuses

LEMMA IdleOK ==
  ASSUME NEW r \in Requests, req'[r] = IdleRequest,
         \A s \in Settlements : lock'[s] # r
  PROVE  RequestOK(r)'
  BY DEF RequestOK, KnowsItsRows, EditIsWhole, OwnsItsTab, IdleRequest, At

\* What a step of r must leave to the others: orders and tabs they know of, locks they
\* hold, and the rows under them.
LEMMA OthersKeep ==
  ASSUME TxInv, NEW r \in Requests, NEW q \in Requests \ {r}, req' \in [Requests -> ReqRow],
         \A p \in Requests \ {r} : req'[p] = req[p],
         \A o \in Orders : Exists(o) => Exists(o)',
         \A row \in Orders \cup Settlements : lock'[row] = q <=> lock[row] = q,
         \A o \in Orders : Exists(o) /\ lock[o] = q => orderDraft'[o] = orderDraft[o],
         \A s \in Settlements : settlement[s].row # "absent" => settlement'[s].row # "absent",
         \A s \in Settlements : settlement[s].row = "absent" /\ req[r].s # s
                                  => settlement'[s].row = "absent",
         TabIsNew(r),
         req'[r].op # "CreateSettlement" /\ req'[r].s # Null
           => settlement[req'[r].s].row # "absent" \/ req'[r].s = req[r].s
  PROVE  RequestOK(q)'
<1>1. RequestOK(q) /\ RequestOK(r)
  BY DEF TxInv, RequestOK
<1>2. req[q] \in ReqRow /\ req[r] \in ReqRow /\ req'[r] \in ReqRow
  BY DEF TxInv, TxTypeOK
<1>3. KnowsItsRows(q)'
  BY <1>1 DEF RequestOK, KnowsItsRows
<1>4. EditIsWhole(q)'
  <2>1. EditIsWhole(q) /\ req'[q] = req[q]
    BY <1>1 DEF RequestOK
  <2>2. (req[q].deleted # {} => req[q].inserted # {})'
    BY <2>1 DEF EditIsWhole
  <2>3. (req[q].inserted # {} => /\ req[q].pc \in {"setTotal", "commit"}
                                 /\ req[q].inserted = {[by |-> q, amount |-> req[q].amount]}
                                 /\ req[q].o \in Orders
                                 /\ Exists(req[q].o))'
    BY <2>1 DEF EditIsWhole
  <2>4. (req[q].inserted # {} /\ At(q, "commit") =>
           lock[req[q].o] = q /\ orderDraft[req[q].o].total = req[q].amount)'
    BY <2>1 DEF EditIsWhole, At
  <2>5. (req[q].pc \in {"findItems", "replaceItems", "selectOrder", "setStatus"}
           => Exists(req[q].o))'
    BY <1>1, <2>1 DEF EditIsWhole, RequestOK, KnowsItsRows
  <2>6. (At(q, "setStatus") => req[q].status # "NONE")'
    BY <2>1 DEF EditIsWhole, At
  <2>7. QED
    BY <2>2, <2>3, <2>4, <2>5, <2>6 DEF EditIsWhole
<1>5. OwnsItsTab(q)'
  <2>1. \A s \in Settlements : lock'[s] = q => req'[q].s = s /\ req'[q].pc \in {"pay", "commit"}
    BY <1>1 DEF RequestOK, OwnsItsTab
  <2>2. (At(q, "insert") => req[q].op = "CreateSettlement")'
    BY <1>1 DEF RequestOK, OwnsItsTab, At
  <2>3. (At(q, "findLink") => req[q].op # "CreateSettlement")'
    BY <1>1 DEF RequestOK, OwnsItsTab, At
  <2>4. ASSUME req[q].op = "CreateSettlement"
        PROVE  /\ req[q].s \in Settlements
               /\ settlement'[req[q].s].row = "absent"
               /\ \A p \in Requests \ {q} : req'[p].s # req[q].s
    <3>1. /\ req[q].s \in Settlements
          /\ settlement[req[q].s].row = "absent"
          /\ \A p \in Requests \ {q} : req[p].s # req[q].s
      BY <1>1, <2>4 DEF RequestOK, OwnsItsTab
    <3>2. settlement'[req[q].s].row = "absent"
      BY <3>1
    <3>3. req'[r].s # req[q].s
      BY <3>1, NullAssumption DEF TabIsNew
    <3>4. QED
      BY <3>1, <3>2, <3>3
  <2>5. ASSUME req[q].op # "CreateSettlement", req[q].s # Null
        PROVE  settlement'[req[q].s].row # "absent"
    BY <1>1, <1>2, <2>5, NullAssumption DEF RequestOK, OwnsItsTab, ReqRow
  <2>6. QED
    BY <2>1, <2>2, <2>3, <2>4, <2>5 DEF OwnsItsTab
<1>6. QED
  BY <1>3, <1>4, <1>5 DEF RequestOK

-----------------------------------------------------------------------------
(* The shapes of a statement *)

\* What a step of r tells of r when it changes nothing that others can see.
LEMMA ReadStep ==
  ASSUME TxInv, NEW r \in Requests, NEW local \in ReqRow, ReadOnly,
         req' = [req EXCEPT ![r] = local], RequestOK(r)', TabIsNew(r)
  PROVE  TxInv'
<1>1. req' \in [Requests -> ReqRow]
  BY DEF TxInv, TxTypeOK
<1>2. TxTypeOK'
  BY <1>1 DEF TxInv, TxTypeOK, TypeOK, ReadOnly
<1>3. ASSUME NEW q \in Requests \ {r} PROVE RequestOK(q)'
  <2>1. req'[r].op # "CreateSettlement" /\ req'[r].s # Null => settlement[req'[r].s].row # "absent"
    BY DEF RequestOK, OwnsItsTab, ReadOnly
  <2>2. \A p \in Requests \ {r} : req'[p] = req[p]
    BY DEF TxInv, TxTypeOK
  <2>3. QED
    BY <1>1, <2>1, <2>2, OthersKeep DEF ReadOnly, Exists
<1>4. \A q \in Requests : RequestOK(q)'
  BY <1>3
<1>5. OrderDraftsSound' /\ TabDraftsSound' /\ OrderNeverEmpty'
  BY DEF TxInv, ReadOnly, OrderDraftsSound, TabDraftsSound, OrderNeverEmpty, Exists
<1>6. QED
  BY <1>2, <1>4, <1>5 DEF TxInv, RequestOK

\* An UPDATE of an order neither creates it nor puts it on a tab nobody committed.
LEMMA OrderRowStep ==
  ASSUME TxInv, NEW r \in Requests, NEW o \in Orders, NEW row \in OrderRow, NEW local \in ReqRow,
         UpdateOrderRow(r, o, row),
         row.status = "NONE" <=> orderDraft[o].status = "NONE",
         row.settlement # Null => settlement[row.settlement].row # "absent",
         req' = [req EXCEPT ![r] = local], RequestOK(r)', TabIsNew(r)
  PROVE  TxInv'
<1>1. req' \in [Requests -> ReqRow]
  BY DEF TxInv, TxTypeOK
<1>2. /\ lock' = [lock EXCEPT ![o] = r]
      /\ lock[o] = Free \/ lock[o] = r
      /\ lock \in [Orders \cup Settlements -> Requests \cup {Free}]
      /\ orderDraft' = [orderDraft EXCEPT ![o] = row]
      /\ orderDraft \in [Orders -> OrderRow]
      /\ UNCHANGED <<order, settlement, items, settlementDraft>>
  BY DEF TxInv, TxTypeOK, UpdateOrderRow, Take, CanLock
<1>3. TxTypeOK'
  BY <1>1, <1>2 DEF TxInv, TxTypeOK, TypeOK
<1>4. ASSUME NEW q \in Requests \ {r} PROVE RequestOK(q)'
  <2>1. req'[r].op # "CreateSettlement" /\ req'[r].s # Null => settlement[req'[r].s].row # "absent"
    BY <1>2 DEF RequestOK, OwnsItsTab
  <2>2. \A p \in Requests \ {r} : req'[p] = req[p]
    BY DEF TxInv, TxTypeOK
  <2>3. \A x \in Orders \cup Settlements : lock'[x] = q <=> lock[x] = q
    BY <1>2, RowsAssumption
  <2>4. \A x \in Orders : lock[x] = q => orderDraft'[x] = orderDraft[x]
    BY <1>2, RowsAssumption
  <2>5. QED
    BY <1>1, <1>2, <2>1, <2>2, <2>3, <2>4, OthersKeep DEF Exists
<1>5. \A q \in Requests : RequestOK(q)'
  BY <1>4
<1>6. OrderDraftsSound'
  BY <1>2 DEF TxInv, OrderDraftsSound
<1>7. TabDraftsSound' /\ OrderNeverEmpty'
  BY <1>2 DEF TxInv, TabDraftsSound, OrderNeverEmpty, Exists
<1>8. QED
  BY <1>3, <1>5, <1>6, <1>7 DEF TxInv, RequestOK

\* An UPDATE of a tab takes back neither its creation, nor its settling, nor its deletion.
LEMMA TabRowStep ==
  ASSUME TxInv, NEW r \in Requests, NEW s \in Settlements, NEW row \in SettlementRow,
         NEW local \in ReqRow,
         UpdateSettlementRow(r, s, row),
         settlement[s].row # "absent" => row.row # "absent",
         settlement[s].row = "deleted" => row.row = "deleted",
         settlement[s].status = "SETTLED" => row.status = "SETTLED",
         row.row = "absent" => row.status = "UNSETTLED",
         req' = [req EXCEPT ![r] = local], RequestOK(r)', TabIsNew(r)
  PROVE  TxInv'
<1>1. req' \in [Requests -> ReqRow]
  BY DEF TxInv, TxTypeOK
<1>2. /\ lock' = [lock EXCEPT ![s] = r]
      /\ lock[s] = Free \/ lock[s] = r
      /\ lock \in [Orders \cup Settlements -> Requests \cup {Free}]
      /\ settlementDraft' = [settlementDraft EXCEPT ![s] = row]
      /\ settlementDraft \in [Settlements -> SettlementRow]
      /\ UNCHANGED <<order, settlement, items, orderDraft>>
  BY DEF TxInv, TxTypeOK, UpdateSettlementRow, Take, CanLock
<1>3. TxTypeOK'
  BY <1>1, <1>2 DEF TxInv, TxTypeOK, TypeOK
<1>4. ASSUME NEW q \in Requests \ {r} PROVE RequestOK(q)'
  <2>1. req'[r].op # "CreateSettlement" /\ req'[r].s # Null => settlement[req'[r].s].row # "absent"
    BY <1>2 DEF RequestOK, OwnsItsTab
  <2>2. \A p \in Requests \ {r} : req'[p] = req[p]
    BY DEF TxInv, TxTypeOK
  <2>3. \A x \in Orders \cup Settlements : lock'[x] = q <=> lock[x] = q
    BY <1>2, RowsAssumption
  <2>4. QED
    BY <1>1, <1>2, <2>1, <2>2, <2>3, OthersKeep DEF Exists
<1>5. \A q \in Requests : RequestOK(q)'
  BY <1>4
<1>6. TabDraftsSound'
  BY <1>2 DEF TxInv, TabDraftsSound
<1>7. OrderDraftsSound' /\ OrderNeverEmpty'
  BY <1>2 DEF TxInv, OrderDraftsSound, OrderNeverEmpty, Exists
<1>8. QED
  BY <1>3, <1>5, <1>6, <1>7 DEF TxInv, RequestOK

\* Ending without a commit puts the rows back as they were committed.
LEMMA RollbackStep ==
  ASSUME TxInv, NEW r \in Requests, Rollback(r)
  PROVE  TxInv'
<1>1. req' = [req EXCEPT ![r] = IdleRequest] /\ req' \in [Requests -> ReqRow]
  BY IdleType DEF TxInv, TxTypeOK, Rollback
<1>2. UNCHANGED <<order, settlement, items>>
  BY DEF Rollback
<1>3. /\ orderDraft' = [o \in Orders |-> IF lock[o] = r THEN order[o] ELSE orderDraft[o]]
      /\ settlementDraft' =
           [s \in Settlements |-> IF lock[s] = r THEN settlement[s] ELSE settlementDraft[s]]
  BY DEF Rollback
<1>4. lock \in [Orders \cup Settlements -> Requests \cup {Free}]
  BY DEF TxInv, TxTypeOK
<1>5. lock' = [row \in Orders \cup Settlements |-> IF lock[row] = r THEN Free ELSE lock[row]]
  BY <1>4 DEF Rollback, Unlocked
<1>6. TxTypeOK'
  BY <1>1, <1>2, <1>3, <1>4, <1>5 DEF TxInv, TxTypeOK, TypeOK
<1>7. RequestOK(r)'
  <2>1. req'[r] = IdleRequest
    BY <1>1 DEF TxInv, TxTypeOK
  <2>2. \A s \in Settlements : lock'[s] # r
    BY <1>5, RowsAssumption
  <2>3. QED
    BY <2>1, <2>2, IdleOK
<1>8. ASSUME NEW q \in Requests \ {r} PROVE RequestOK(q)'
  <2>1. \A p \in Requests \ {r} : req'[p] = req[p]
    BY <1>1 DEF TxInv, TxTypeOK
  <2>2. \A x \in Orders \cup Settlements : lock'[x] = q <=> lock[x] = q
    BY <1>5, RowsAssumption
  <2>3. \A x \in Orders : lock[x] = q => orderDraft'[x] = orderDraft[x]
    BY <1>3
  <2>4. req'[r].op = "none" /\ req'[r].s = Null
    BY <1>1 DEF IdleRequest, TxInv, TxTypeOK
  <2>5. QED
    BY <1>1, <1>2, <2>1, <2>2, <2>3, <2>4, OthersKeep DEF Exists, TabIsNew
<1>9. \A q \in Requests : RequestOK(q)'
  BY <1>7, <1>8
<1>10. OrderDraftsSound'
  BY <1>2, <1>3 DEF TxInv, OrderDraftsSound
<1>11. TabDraftsSound'
  BY <1>2, <1>3 DEF TxInv, TabDraftsSound
<1>12. OrderNeverEmpty'
  BY <1>2 DEF TxInv, OrderNeverEmpty, Exists
<1>13. QED
  BY <1>6, <1>9, <1>10, <1>11, <1>12 DEF TxInv, RequestOK
\* A commit publishes the rows its request holds: at most one tab, its own.
LEMMA CommitStep ==
  ASSUME TxInv, NEW r \in Requests, Commit(r)
  PROVE  TxInv'
<1> DEFINE local == IF req[r].op = "UpdateOrder"
                      THEN [req[r] EXCEPT !.pc = "findLink", !.op = "RecalcTotalForOrder",
                                          !.found = {}, !.deleted = {}, !.inserted = {}]
                      ELSE IdleRequest
<1>1. TxTypeOK /\ req[r] \in ReqRow /\ RequestOK(r) /\ At(r, "commit")
  BY DEF TxInv, TxTypeOK, RequestOK, Commit
<1>2. local \in ReqRow
  <2>1. "findLink" \in Labels /\ {} \in SUBSET Batch
    BY DEF Labels
  <2>2. [req[r] EXCEPT !.pc = "findLink", !.op = "RecalcTotalForOrder",
                       !.found = {}, !.deleted = {}, !.inserted = {}] \in ReqRow
    BY <1>1, <2>1 DEF ReqRow
  <2>3. QED
    BY <2>2, IdleType
<1>3. req' = [req EXCEPT ![r] = local]
  BY DEF Commit
<1>4. req' \in [Requests -> ReqRow] /\ req'[r] = local
  BY <1>1, <1>2, <1>3 DEF TxTypeOK
<1>5. lock \in [Orders \cup Settlements -> Requests \cup {Free}]
  BY <1>1 DEF TxTypeOK
<1>6. lock' = [row \in Orders \cup Settlements |-> IF lock[row] = r THEN Free ELSE lock[row]]
  BY <1>5 DEF Commit, Unlocked
<1>7. /\ order' = [o \in Orders |-> IF lock[o] = r THEN orderDraft[o] ELSE order[o]]
      /\ settlement' = [s \in Settlements |-> IF lock[s] = r THEN settlementDraft[s]
                                                             ELSE settlement[s]]
      /\ items' = [o \in Orders |-> IF o = req[r].o
                                      THEN (items[o] \ req[r].deleted) \cup req[r].inserted
                                      ELSE items[o]]
      /\ UNCHANGED <<orderDraft, settlementDraft>>
  BY DEF Commit, OrdersSeenBy, SettlementsSeenBy
<1> HIDE DEF local
<1>8. TxTypeOK'
  <2>1. TypeOK'
    BY <1>1, <1>7 DEF TxTypeOK, TypeOK
  <2>2. items' \in [Orders -> SUBSET Batch]
    BY <1>1, <1>7 DEF TxTypeOK, ReqRow
  <2>3. QED
    BY <1>1, <1>4, <1>5, <1>6, <1>7, <2>1, <2>2 DEF TxTypeOK
<1>9. \A o \in Orders : Exists(o)' <=> Exists(o)
  BY <1>7 DEF Exists, TxInv, OrderDraftsSound
<1>10. \A s \in Settlements : settlement[s].row # "absent" => settlement'[s].row # "absent"
  BY <1>7 DEF TxInv, TabDraftsSound
<1>11. RequestOK(r)'
  <2>1. CASE req[r].op = "UpdateOrder"
    <3>1. req'[r] = [req[r] EXCEPT !.pc = "findLink", !.op = "RecalcTotalForOrder",
                                   !.found = {}, !.deleted = {}, !.inserted = {}]
      BY <1>4, <2>1 DEF local
    <3>2. /\ req'[r].pc = "findLink" /\ req'[r].op = "RecalcTotalForOrder"
          /\ req'[r].deleted = {} /\ req'[r].inserted = {}
          /\ req'[r].o = req[r].o /\ req'[r].s = req[r].s
      BY <1>1, <3>1 DEF ReqRow
    <3>3. req[r].o \in Orders
      BY <1>1, <2>1 DEF RequestOK, KnowsItsRows
    <3>4. req[r].s # Null => settlement'[req[r].s].row # "absent"
      BY <1>1, <1>10, <2>1 DEF RequestOK, OwnsItsTab, ReqRow
    <3>5. \A s \in Settlements : lock'[s] # r
      BY <1>6, RowsAssumption
    <3>6. QED
      BY <3>2, <3>3, <3>4, <3>5 DEF RequestOK, KnowsItsRows, EditIsWhole, OwnsItsTab, At
  <2>2. CASE req[r].op # "UpdateOrder"
    <3>1. req'[r] = IdleRequest
      BY <1>4, <2>2 DEF local
    <3>2. \A s \in Settlements : lock'[s] # r
      BY <1>6, RowsAssumption
    <3>3. QED
      BY <3>1, <3>2, IdleOK
  <2>3. QED
    BY <2>1, <2>2
<1>12. ASSUME NEW q \in Requests \ {r} PROVE RequestOK(q)'
  <2>1. \A p \in Requests \ {r} : req'[p] = req[p]
    BY <1>1, <1>3 DEF TxTypeOK
  <2>2. \A x \in Orders \cup Settlements : lock'[x] = q <=> lock[x] = q
    BY <1>6, RowsAssumption
  <2>3. \A s \in Settlements : settlement[s].row = "absent" /\ req[r].s # s
                                 => settlement'[s].row = "absent"
    BY <1>1, <1>7 DEF RequestOK, OwnsItsTab
  <2>4. req'[r].op # "CreateSettlement" /\ (req'[r].s = Null \/ req'[r].s = req[r].s)
    BY <1>1, <1>4 DEF local, IdleRequest, ReqRow
  <2>5. QED
    BY <1>4, <1>7, <1>9, <1>10, <2>1, <2>2, <2>3, <2>4, OthersKeep DEF TabIsNew
<1>13. \A q \in Requests : RequestOK(q)'
  BY <1>11, <1>12
<1>14. OrderDraftsSound'
  <2>1. \A o \in Orders : orderDraft'[o].status = "NONE" <=> order'[o].status = "NONE"
    BY <1>7 DEF TxInv, OrderDraftsSound
  <2>2. ASSUME NEW o \in Orders, NEW row \in {order'[o], orderDraft'[o]}, row.settlement # Null
        PROVE  settlement'[row.settlement].row # "absent"
    <3>1. row \in {order[o], orderDraft[o]} /\ row \in OrderRow
      BY <1>1, <1>7, <2>2 DEF TxTypeOK, TypeOK
    <3>2. settlement[row.settlement].row # "absent" /\ row.settlement \in Settlements
      BY <2>2, <3>1 DEF TxInv, OrderDraftsSound, OrderRow
    <3>3. QED
      BY <1>10, <3>2
  <2>3. QED
    BY <2>1, <2>2 DEF OrderDraftsSound
<1>15. TabDraftsSound'
  BY <1>7 DEF TxInv, TabDraftsSound
<1>16. OrderNeverEmpty'
  <2> SUFFICES ASSUME NEW o \in Orders, Exists(o)' PROVE items'[o] # {}
    BY DEF OrderNeverEmpty
  <2>1. items[o] # {}
    BY <1>9 DEF TxInv, OrderNeverEmpty
  <2>2. req[r].deleted # {} => req[r].inserted # {}
    BY <1>1 DEF RequestOK, EditIsWhole
  <2>3. QED
    BY <1>7, <2>1, <2>2
<1>17. QED
  BY <1>8, <1>13, <1>14, <1>15, <1>16 DEF TxInv, RequestOK

\* A new order takes an id that no request and no tab knows.
LEMMA TxCreateOrderStep ==
  ASSUME TxInv, NEW r \in Requests, NEW o \in Orders, NEW total \in Amounts, NEW actual \in Amounts,
         NEW lines \in Amounts, TxCreateOrder(r, o, total, actual, lines)
  PROVE  TxInv'
<1>1. TxTypeOK /\ TypeOK /\ CreateOrder(o, total, actual)
  BY DEF TxInv, TxTypeOK, TxCreateOrder
<1>2. TypeOK'
  BY <1>1, CreateOrderTypeOK
<1>3. /\ orderDraft' = [orderDraft EXCEPT ![o] = order'[o]]
      /\ items' = [items EXCEPT ![o] = {[by |-> r, amount |-> lines]}]
      /\ UNCHANGED <<settlement, settlementDraft, lock, req>>
  BY <1>1 DEF TxCreateOrder, CreateOrder
<1>4. TxTypeOK'
  <2>1. [by |-> r, amount |-> lines] \in Batch
    BY DEF Batch
  <2>2. items' \in [Orders -> SUBSET Batch]
    BY <1>1, <1>3, <2>1 DEF TxTypeOK
  <2>3. orderDraft' \in [Orders -> OrderRow]
    BY <1>1, <1>2, <1>3 DEF TxTypeOK, TypeOK
  <2>4. QED
    BY <1>1, <1>2, <1>3, <2>2, <2>3 DEF TxTypeOK
<1>5. /\ order'[o].status = "CREATED" /\ order'[o].settlement = Null /\ ~Exists(o)
      /\ \A p \in Orders \ {o} : order'[p] = order[p]
  BY <1>1 DEF CreateOrder, NewOrder, TypeOK
<1>6. ASSUME NEW q \in Requests PROVE RequestOK(q)'
  <2>1. KnowsItsRows(q) /\ EditIsWhole(q) /\ OwnsItsTab(q)
    BY DEF TxInv
  <2>2. KnowsItsRows(q)' /\ OwnsItsTab(q)'
    BY <1>3, <2>1 DEF KnowsItsRows, OwnsItsTab, At
  <2>3. req[q].o \in Orders /\ Exists(req[q].o)
          => Exists(req[q].o)' /\ orderDraft'[req[q].o] = orderDraft[req[q].o]
    BY <1>1, <1>3, <1>5 DEF Exists, TxTypeOK
  <2>4. EditIsWhole(q)'
    BY <1>3, <2>1, <2>3 DEF EditIsWhole, KnowsItsRows, At
  <2>5. QED
    BY <2>2, <2>4 DEF RequestOK
<1>7. OrderDraftsSound'
  BY <1>1, <1>3, <1>5 DEF TxInv, OrderDraftsSound, TxTypeOK
<1>8. TabDraftsSound'
  BY <1>3 DEF TxInv, TabDraftsSound
<1>9. OrderNeverEmpty'
  BY <1>1, <1>3, <1>5 DEF TxInv, OrderNeverEmpty, Exists, TxTypeOK
<1>10. QED
  BY <1>4, <1>6, <1>7, <1>8, <1>9 DEF TxInv, RequestOK
-----------------------------------------------------------------------------
(* Arrivals *)

\* A request arrives with parameters that fit the tables at that moment.
LEMMA ArriveStep ==
  ASSUME TxInv, NEW r \in Requests, NEW op \in Endpoints, NEW local \in ReqRow,
         Arrive(r, op, local),
         local.deleted = {}, local.inserted = {},
         local.pc \in {"setStatus", "selectOrder", "insert", "readOrder", "readOrders"},
         local.pc \in {"setStatus", "selectOrder", "readOrder"} => local.o \in Orders,
         local.pc \in {"insert", "readOrder", "readOrders"} => local.s \in Settlements,
         op = "UpdateOrder" => local.o \in Orders,
         local.pc \in {"setStatus", "selectOrder"} => Exists(local.o),
         local.pc = "setStatus" => local.status # "NONE",
         local.pc = "insert" <=> op = "CreateSettlement",
         op = "CreateSettlement" => /\ settlement[local.s].row = "absent"
                                    /\ \A q \in Requests : req[q].s # local.s,
         op # "CreateSettlement" /\ local.s # Null => settlement[local.s].row # "absent"
  PROVE  TxInv'
<1> DEFINE sent == [local EXCEPT !.op = op]
<1>1. sent \in ReqRow
  BY DEF ReqRow
<1>2. req' = [req EXCEPT ![r] = sent] /\ ReadOnly /\ At(r, "idle")
  BY DEF Arrive
<1>3. req'[r] = sent
  BY <1>2 DEF TxInv, TxTypeOK
<1>4. /\ sent.pc = local.pc /\ sent.op = op /\ sent.o = local.o /\ sent.s = local.s
      /\ sent.deleted = {} /\ sent.inserted = {} /\ sent.status = local.status
  BY DEF ReqRow
<1>5. \A t \in Settlements : lock[t] # r
  BY <1>2 DEF TxInv, OwnsItsTab, At
<1>6. UNCHANGED <<order, settlement, lock>>
  BY <1>2 DEF ReadOnly
<1> HIDE DEF sent
<1>7. KnowsItsRows(r)'
  BY <1>3, <1>4 DEF KnowsItsRows
<1>8. EditIsWhole(r)'
  BY <1>3, <1>4, <1>6 DEF EditIsWhole, Exists, At
<1>9. OwnsItsTab(r)'
  <2>1. \A q \in Requests \ {r} : req'[q] = req[q]
    BY <1>2 DEF TxInv, TxTypeOK
  <2>2. CASE op = "CreateSettlement"
    BY <1>3, <1>4, <1>5, <1>6, <2>1, <2>2 DEF OwnsItsTab, At
  <2>3. CASE op # "CreateSettlement"
    BY <1>3, <1>4, <1>5, <1>6, <2>3 DEF OwnsItsTab, At
  <2>4. QED
    BY <2>2, <2>3
<1>10. TabIsNew(r)
  BY <1>3, <1>4 DEF TabIsNew
<1>11. QED
  BY <1>1, <1>2, <1>7, <1>8, <1>9, <1>10, ReadStep DEF RequestOK

LEMMA ArrivalStep ==
  ASSUME TxInv, NEW r \in Requests, Arrival(r)
  PROVE  TxInv'
<1>0. TxTypeOK /\ TypeOK /\ IdleRequest \in ReqRow
  BY IdleType DEF TxInv, TxTypeOK
<1>1. CASE \E o \in Orders, total, actual, lines \in Amounts :
             TxCreateOrder(r, o, total, actual, lines)
  BY <1>1, TxCreateOrderStep
<1>2. ASSUME NEW o \in Orders, NEW target \in ApiStatuses, NEW actual \in Amounts,
             ArriveUpdateStatus(r, o, target, actual)
      PROVE  TxInv'
  <2> DEFINE local(status) == [IdleRequest EXCEPT !.pc = "setStatus", !.o = o, !.status = status,
                                                  !.amount = actual]
  <2>1. PICK status \in StatusAfter(order[o].status, target) :
          Arrive(r, "UpdateOrderStatus", local(status))
    BY <1>2 DEF ArriveUpdateStatus
  <2>2. status \in OrderStatuses \ {"NONE"}
    BY <1>0, StatusAfterType DEF TypeOK, OrderRow
  <2>3. local(status) \in ReqRow
    BY <1>0, <2>2 DEF ReqRow, Labels
  <2>4. /\ local(status).pc = "setStatus" /\ local(status).o = o /\ local(status).s = Null
        /\ local(status).status = status
        /\ local(status).deleted = {} /\ local(status).inserted = {}
    BY DEF IdleRequest
  <2>5. Exists(o) /\ "UpdateOrderStatus" \in Endpoints
    BY <1>2 DEF ArriveUpdateStatus, Endpoints
  <2> HIDE DEF local
  <2>6. QED
    BY <2>1, <2>2, <2>3, <2>4, <2>5, ArriveStep
<1>3. ASSUME NEW o \in Orders, NEW lines \in Amounts, ArriveUpdateOrder(r, o, lines)
      PROVE  TxInv'
  <2> DEFINE local == [IdleRequest EXCEPT !.pc = "selectOrder", !.o = o, !.amount = lines]
  <2>1. local \in ReqRow
    BY <1>0 DEF ReqRow, Labels
  <2>2. /\ local.pc = "selectOrder" /\ local.o = o /\ local.s = Null
        /\ local.deleted = {} /\ local.inserted = {}
    BY DEF IdleRequest
  <2>3. Arrive(r, "UpdateOrder", local) /\ Exists(o) /\ "UpdateOrder" \in Endpoints
    BY <1>3 DEF ArriveUpdateOrder, Editable, Exists, Endpoints
  <2> HIDE DEF local
  <2>4. QED
    BY <2>1, <2>2, <2>3, ArriveStep
<1>4. ASSUME NEW s \in Settlements, ArriveCreateSettlement(r, s)
      PROVE  TxInv'
  <2> DEFINE local == [IdleRequest EXCEPT !.pc = "insert", !.s = s]
  <2>1. local \in ReqRow
    BY <1>0 DEF ReqRow, Labels
  <2>2. local.pc = "insert" /\ local.s = s /\ local.deleted = {} /\ local.inserted = {}
    BY DEF IdleRequest
  <2>3. /\ Arrive(r, "CreateSettlement", local) /\ "CreateSettlement" \in Endpoints
        /\ settlement[s].row = "absent" /\ \A q \in Requests : req[q].s # s
    BY <1>4 DEF ArriveCreateSettlement, Endpoints
  <2> HIDE DEF local
  <2>4. QED
    BY <2>1, <2>2, <2>3, ArriveStep
<1>5. ASSUME NEW op \in Ops, NEW s \in Settlements, NEW o \in Orders, ArriveRelink(r, op, s, o)
      PROVE  TxInv'
  <2> DEFINE local == [IdleRequest EXCEPT !.pc = "readOrder", !.s = s, !.o = o]
  <2>1. local \in ReqRow
    BY <1>0 DEF ReqRow, Labels
  <2>2. /\ local.pc = "readOrder" /\ local.s = s /\ local.o = o
        /\ local.deleted = {} /\ local.inserted = {}
    BY DEF IdleRequest
  <2>3. /\ Arrive(r, op, local) /\ op \in {"AddOrder", "RemoveOrder"} /\ op \in Endpoints
        /\ settlement[s].row # "absent"
    BY <1>5 DEF ArriveRelink, Endpoints, Open
  <2> HIDE DEF local
  <2>4. QED
    BY <2>1, <2>2, <2>3, ArriveStep
<1>6. ASSUME NEW s \in Settlements, NEW actual \in Amounts, ArriveSettle(r, s, actual)
      PROVE  TxInv'
  <2> DEFINE local == [IdleRequest EXCEPT !.pc = "readOrders", !.s = s, !.amount = actual]
  <2>1. local \in ReqRow
    BY <1>0 DEF ReqRow, Labels
  <2>2. local.pc = "readOrders" /\ local.s = s /\ local.deleted = {} /\ local.inserted = {}
    BY DEF IdleRequest
  <2>3. /\ Arrive(r, "Settle", local) /\ "Settle" \in Endpoints
        /\ settlement[s].row # "absent"
    BY <1>6 DEF ArriveSettle, Endpoints, Open
  <2> HIDE DEF local
  <2>4. QED
    BY <2>1, <2>2, <2>3, ArriveStep
<1>7. ASSUME NEW s \in Settlements, ArriveDelete(r, s)
      PROVE  TxInv'
  <2> DEFINE local == [IdleRequest EXCEPT !.pc = "readOrders", !.s = s]
  <2>1. local \in ReqRow
    BY <1>0 DEF ReqRow, Labels
  <2>2. local.pc = "readOrders" /\ local.s = s /\ local.deleted = {} /\ local.inserted = {}
    BY DEF IdleRequest
  <2>3. /\ Arrive(r, "DeleteSettlement", local) /\ "DeleteSettlement" \in Endpoints
        /\ settlement[s].row # "absent"
    BY <1>7 DEF ArriveDelete, Endpoints, Open
  <2> HIDE DEF local
  <2>4. QED
    BY <2>1, <2>2, <2>3, ArriveStep
<1>8. QED
  BY <1>1, <1>2, <1>3, <1>4, <1>5, <1>6, <1>7 DEF Arrival
-----------------------------------------------------------------------------
(* Statements *)

\* Outside an edit, all a statement can change for its request is where it goes next.
LEMMA PlainStatement ==
  ASSUME TxInv, NEW r \in Requests, NEW local \in ReqRow, req' = [req EXCEPT ![r] = local],
         UNCHANGED settlement, req[r].pc \notin {"setTotal", "commit"},
         local.op = req[r].op, local.s = req[r].s, local.o = req[r].o,
         local.inserted = req[r].inserted, local.deleted = req[r].deleted,
         local.pc \in {"link", "sum", "writeTotal", "pay", "clear", "drop", "commit"},
         local.pc = "link" => local.o \in Orders,
         local.pc # "commit" => local.s \in Settlements,
         local.pc \in {"pay", "clear"} => local.todo # << >>,
         \A s \in Settlements : lock'[s] = r => local.s = s /\ local.pc \in {"pay", "commit"}
  PROVE  RequestOK(r)' /\ TabIsNew(r)
<1>1. KnowsItsRows(r) /\ EditIsWhole(r) /\ OwnsItsTab(r)
  BY DEF TxInv
<1>2. req'[r] = local /\ \A q \in Requests \ {r} : req'[q] = req[q]
  BY DEF TxInv, TxTypeOK
<1>3. KnowsItsRows(r)'
  BY <1>1, <1>2 DEF KnowsItsRows
<1>4. EditIsWhole(r)'
  BY <1>1, <1>2 DEF EditIsWhole, At
<1>5. OwnsItsTab(r)'
  BY <1>1, <1>2 DEF OwnsItsTab, At
<1>6. TabIsNew(r)
  BY <1>2 DEF TabIsNew
<1>7. QED
  BY <1>3, <1>4, <1>5, <1>6 DEF RequestOK

\* An UPDATE of an order takes no tab.
LEMMA OrderUpdateLocks ==
  ASSUME TxInv, NEW r \in Requests, NEW o \in Orders, NEW row, UpdateOrderRow(r, o, row),
         NEW s \in Settlements, lock'[s] = r
  PROVE  req[r].s = s /\ req[r].pc \in {"pay", "commit"}
<1>1. lock'[s] = lock[s]
  BY RowsAssumption DEF UpdateOrderRow, Take, TxInv, TxTypeOK
<1>2. QED
  BY <1>1 DEF TxInv, OwnsItsTab

\* An UPDATE of a tab takes that one, and before it the request held none.
LEMMA TabUpdateLocks ==
  ASSUME TxInv, NEW r \in Requests, NEW t \in Settlements, NEW row, UpdateSettlementRow(r, t, row),
         req[r].pc \notin {"pay", "commit"},
         NEW s \in Settlements, lock'[s] = r
  PROVE  s = t
<1>1. s # t => lock'[s] = lock[s]
  BY DEF UpdateSettlementRow, Take, TxInv, TxTypeOK
<1>2. QED
  BY <1>1 DEF TxInv, OwnsItsTab

LEMMA SetStatusStep ==
  ASSUME TxInv, NEW r \in Requests, SetStatus(r)
  PROVE  TxInv'
<1> DEFINE o == req[r].o
           row == WithStatus(orderDraft[o], req[r].status, req[r].amount)
           local == [req[r] EXCEPT !.pc = "commit"]
<1>1. /\ At(r, "setStatus") /\ UpdateOrderRow(r, o, row) /\ req' = [req EXCEPT ![r] = local]
      /\ UNCHANGED settlement
  BY DEF SetStatus, Goto, UpdateOrderRow, TxInv, TxTypeOK
<1>2. req[r] \in ReqRow /\ o \in Orders /\ orderDraft[o] \in OrderRow
  BY <1>1 DEF TxInv, TxTypeOK, KnowsItsRows, At
<1>3. req[r].status \in OrderStatuses \ {"NONE"} /\ req[r].amount \in Amounts /\ Exists(o)
  BY <1>1, <1>2 DEF TxInv, EditIsWhole, ReqRow, At
<1>4. local \in ReqRow
  BY <1>2 DEF ReqRow, Labels
<1>5. row \in OrderRow /\ row.status # "NONE" /\ row.settlement = orderDraft[o].settlement
  BY <1>2, <1>3 DEF WithStatus, OrderRow
<1>6. /\ orderDraft[o].status # "NONE"
      /\ row.settlement # Null => settlement[row.settlement].row # "absent"
  BY <1>2, <1>3, <1>5 DEF TxInv, OrderDraftsSound, Exists
<1>7. /\ local.pc = "commit" /\ local.op = req[r].op /\ local.s = req[r].s /\ local.o = o
      /\ local.inserted = req[r].inserted /\ local.deleted = req[r].deleted
  BY <1>2 DEF ReqRow
<1> HIDE DEF row, local
<1>8. \A s \in Settlements : lock'[s] # r
  BY <1>1, <1>2, OrderUpdateLocks DEF At
<1>9. RequestOK(r)' /\ TabIsNew(r)
  BY <1>1, <1>4, <1>7, <1>8, PlainStatement DEF At
<1>10. QED
  BY <1>1, <1>2, <1>4, <1>5, <1>6, <1>9, OrderRowStep

\* Reading the order and its lines, at the beginning of an edit.
LEMMA EditReadsStep ==
  ASSUME TxInv, NEW r \in Requests, SelectOrder(r) \/ FindItems(r)
  PROVE  TxInv'
<1> DEFINE o == req[r].o
           local == IF At(r, "selectOrder")
                      THEN [req[r] EXCEPT !.pc = "findItems", !.current = order[o]]
                      ELSE [req[r] EXCEPT !.pc = "replaceItems", !.found = items[o]]
<1>1. /\ At(r, "selectOrder") \/ At(r, "findItems")
      /\ req[r] \in ReqRow /\ req \in [Requests -> ReqRow]
  BY DEF SelectOrder, FindItems, TxInv, TxTypeOK
<1>2. req' = [req EXCEPT ![r] = local] /\ ReadOnly
  BY DEF SelectOrder, FindItems, At
<1>3. o \in Orders /\ order[o] \in OrderRow /\ items[o] \in SUBSET Batch /\ Exists(o)
  BY <1>1 DEF TxInv, TxTypeOK, TypeOK, KnowsItsRows, EditIsWhole, At
<1>4. local \in ReqRow
  <2>1. [req[r] EXCEPT !.pc = "findItems", !.current = order[o]] \in ReqRow
    BY <1>1, <1>3 DEF ReqRow, Labels
  <2>2. [req[r] EXCEPT !.pc = "replaceItems", !.found = items[o]] \in ReqRow
    BY <1>1, <1>3 DEF ReqRow, Labels
  <2>3. QED
    BY <2>1, <2>2
<1>5. /\ local.pc \in {"findItems", "replaceItems"}
      /\ local.op = req[r].op /\ local.s = req[r].s /\ local.o = o
      /\ local.inserted = req[r].inserted /\ local.deleted = req[r].deleted
  BY <1>1 DEF ReqRow
<1>6. req'[r] = local /\ \A q \in Requests \ {r} : req'[q] = req[q]
  BY <1>1, <1>2
<1> HIDE DEF local
<1>7. KnowsItsRows(r) /\ EditIsWhole(r) /\ OwnsItsTab(r)
  BY DEF TxInv
<1>8. KnowsItsRows(r)' /\ TabIsNew(r)
  BY <1>3, <1>5, <1>6, <1>7 DEF KnowsItsRows, TabIsNew
<1>9. EditIsWhole(r)'
  BY <1>1, <1>2, <1>3, <1>5, <1>6, <1>7 DEF EditIsWhole, At, ReadOnly, Exists
<1>10. OwnsItsTab(r)'
  BY <1>1, <1>2, <1>5, <1>6, <1>7 DEF OwnsItsTab, At, ReadOnly
<1>11. QED
  BY <1>2, <1>4, <1>8, <1>9, <1>10, ReadStep DEF RequestOK

LEMMA ReplaceItemsStep ==
  ASSUME TxInv, NEW r \in Requests, ReplaceItems(r)
  PROVE  TxInv'
<1> DEFINE o == req[r].o
           batch == [by |-> r, amount |-> req[r].amount]
           local == [req[r] EXCEPT !.pc = "setTotal", !.deleted = req[r].found \cap items[o],
                                   !.inserted = {batch}]
<1>1. At(r, "replaceItems") /\ req[r] \in ReqRow /\ req \in [Requests -> ReqRow]
  BY DEF ReplaceItems, TxInv, TxTypeOK
<1>2. req' = [req EXCEPT ![r] = local] /\ ReadOnly
  BY DEF ReplaceItems
<1>3. o \in Orders /\ items[o] \in SUBSET Batch /\ Exists(o)
  BY <1>1 DEF TxInv, TxTypeOK, KnowsItsRows, EditIsWhole, At
<1>4. batch \in Batch
  BY <1>1 DEF Batch, ReqRow
<1>5. local \in ReqRow
  BY <1>1, <1>3, <1>4 DEF ReqRow, Labels
<1>6. /\ local.pc = "setTotal" /\ local.op = req[r].op /\ local.s = req[r].s /\ local.o = o
      /\ local.inserted = {batch} /\ local.amount = req[r].amount
  BY <1>1 DEF ReqRow
<1>7. req'[r] = local /\ \A q \in Requests \ {r} : req'[q] = req[q]
  BY <1>1, <1>2
<1> HIDE DEF local
<1>8. KnowsItsRows(r) /\ OwnsItsTab(r)
  BY DEF TxInv
<1>9. KnowsItsRows(r)' /\ TabIsNew(r)
  BY <1>3, <1>6, <1>7, <1>8 DEF KnowsItsRows, TabIsNew
<1>10. EditIsWhole(r)'
  BY <1>2, <1>3, <1>6, <1>7 DEF EditIsWhole, At, ReadOnly, Exists
<1>11. OwnsItsTab(r)'
  BY <1>1, <1>2, <1>6, <1>7, <1>8 DEF OwnsItsTab, At, ReadOnly
<1>12. QED
  BY <1>2, <1>5, <1>9, <1>10, <1>11, ReadStep DEF RequestOK

LEMMA SetTotalStep ==
  ASSUME TxInv, NEW r \in Requests, SetTotal(r)
  PROVE  TxInv'
<1> DEFINE o == req[r].o
           row == Repriced(orderDraft[o], req[r].current, req[r].amount)
           local == [req[r] EXCEPT !.pc = "commit"]
<1>1. /\ At(r, "setTotal") /\ UpdateOrderRow(r, o, row) /\ req' = [req EXCEPT ![r] = local]
      /\ UNCHANGED <<order, settlement>>
  BY DEF SetTotal, Goto, UpdateOrderRow, TxInv, TxTypeOK
<1>2. req[r] \in ReqRow /\ o \in Orders /\ orderDraft[o] \in OrderRow /\ req \in [Requests -> ReqRow]
  BY <1>1 DEF TxInv, TxTypeOK, KnowsItsRows, At
<1>3. local \in ReqRow
  BY <1>2 DEF ReqRow, Labels
<1>4. /\ row \in OrderRow /\ row.status = orderDraft[o].status /\ row.total = req[r].amount
      /\ row.settlement = orderDraft[o].settlement
  BY <1>2 DEF Repriced, OrderRow, ReqRow
<1>5. row.settlement # Null => settlement[row.settlement].row # "absent"
  BY <1>2, <1>4 DEF TxInv, OrderDraftsSound
<1>6. /\ local.pc = "commit" /\ local.op = req[r].op /\ local.s = req[r].s /\ local.o = o
      /\ local.inserted = req[r].inserted /\ local.deleted = req[r].deleted
      /\ local.amount = req[r].amount
  BY <1>2 DEF ReqRow
<1>7. req'[r] = local /\ \A q \in Requests \ {r} : req'[q] = req[q]
  BY <1>1, <1>2
<1>8. lock'[o] = r /\ orderDraft'[o] = row
  BY <1>1, <1>2 DEF UpdateOrderRow, Take, TxInv, TxTypeOK
<1> HIDE DEF row, local
<1>9. \A s \in Settlements : lock'[s] # r
  BY <1>1, <1>2, OrderUpdateLocks DEF At
<1>10. KnowsItsRows(r) /\ EditIsWhole(r) /\ OwnsItsTab(r)
  BY DEF TxInv
<1>11. KnowsItsRows(r)' /\ TabIsNew(r)
  BY <1>6, <1>7, <1>10 DEF KnowsItsRows, TabIsNew
<1>12. EditIsWhole(r)'
  BY <1>1, <1>4, <1>6, <1>7, <1>8, <1>10 DEF EditIsWhole, At, Exists
<1>13. OwnsItsTab(r)'
  BY <1>1, <1>6, <1>7, <1>9, <1>10 DEF OwnsItsTab, At
<1>14. QED
  BY <1>1, <1>2, <1>3, <1>4, <1>5, <1>11, <1>12, <1>13, OrderRowStep DEF RequestOK

\* The recalculation after an edit finds the order's tab, which somebody committed.
LEMMA FindLinkStep ==
  ASSUME TxInv, NEW r \in Requests, FindLink(r)
  PROVE  TxInv'
<1> DEFINE s == order[req[r].o].settlement
           local == [req[r] EXCEPT !.pc = "findTab", !.s = s]
<1>1. CASE s = Null
  BY <1>1, RollbackStep DEF FindLink
<1>2. CASE s # Null
  <2>1. At(r, "findLink") /\ req[r] \in ReqRow /\ req \in [Requests -> ReqRow]
    BY DEF FindLink, TxInv, TxTypeOK
  <2>2. req' = [req EXCEPT ![r] = local] /\ ReadOnly
    BY <1>2 DEF FindLink
  <2>3. s \in Settlements /\ settlement[s].row # "absent"
    BY <1>2, <2>1 DEF TxInv, TxTypeOK, TypeOK, OrderRow, KnowsItsRows, OrderDraftsSound, At
  <2>4. local \in ReqRow
    BY <2>1, <2>3 DEF ReqRow, Labels
  <2>5. /\ local.pc = "findTab" /\ local.op = req[r].op /\ local.s = s /\ local.o = req[r].o
        /\ local.inserted = req[r].inserted /\ local.deleted = req[r].deleted
    BY <2>1 DEF ReqRow
  <2>6. req'[r] = local
    BY <2>1, <2>2
  <2> HIDE DEF local, s
  <2>7. KnowsItsRows(r) /\ EditIsWhole(r) /\ OwnsItsTab(r)
    BY DEF TxInv
  <2>8. KnowsItsRows(r)' /\ TabIsNew(r)
    BY <2>1, <2>3, <2>5, <2>6, <2>7 DEF KnowsItsRows, TabIsNew, OwnsItsTab, At
  <2>9. EditIsWhole(r)'
    BY <2>1, <2>5, <2>6, <2>7 DEF EditIsWhole, At
  <2>10. OwnsItsTab(r)'
    BY <2>1, <2>2, <2>3, <2>5, <2>6, <2>7 DEF OwnsItsTab, At, ReadOnly
  <2>11. QED
    BY <2>2, <2>4, <2>8, <2>9, <2>10, ReadStep DEF RequestOK
<1>3. QED
  BY <1>1, <1>2
\* Statements that only read, and go on to the next one if what they find allows it.
LEMMA CheckStep ==
  ASSUME TxInv, NEW r \in Requests, FindTab(r) \/ ReadOrder(r)
  PROVE  TxInv'
<1> DEFINE local == [req[r] EXCEPT !.pc = IF At(r, "findTab") THEN "sum" ELSE "link"]
<1>1. CASE Rollback(r)
  BY <1>1, RollbackStep
<1>2. CASE ~Rollback(r)
  <2>1. /\ At(r, "findTab") \/ At(r, "readOrder")
        /\ req[r] \in ReqRow /\ req \in [Requests -> ReqRow]
    BY DEF FindTab, ReadOrder, TxInv, TxTypeOK
  <2>2. req' = [req EXCEPT ![r] = local] /\ ReadOnly
    BY <1>2 DEF FindTab, ReadOrder, Goto, At
  <2>3. local \in ReqRow
    BY <2>1 DEF ReqRow, Labels
  <2>4. /\ local.pc = IF At(r, "findTab") THEN "sum" ELSE "link"
        /\ local.op = req[r].op /\ local.s = req[r].s /\ local.o = req[r].o
        /\ local.inserted = req[r].inserted /\ local.deleted = req[r].deleted
    BY <2>1 DEF ReqRow
  <2>5. req[r].s \in Settlements /\ (At(r, "readOrder") => req[r].o \in Orders)
    BY <2>1 DEF TxInv, KnowsItsRows, At
  <2>6. \A s \in Settlements : lock'[s] # r
    BY <2>1, <2>2 DEF TxInv, OwnsItsTab, At, ReadOnly
  <2> HIDE DEF local
  <2>7. RequestOK(r)' /\ TabIsNew(r)
    BY <2>1, <2>2, <2>3, <2>4, <2>5, <2>6, PlainStatement DEF At, ReadOnly
  <2>8. QED
    BY <2>2, <2>3, <2>7, ReadStep
<1>3. QED
  BY <1>1, <1>2

LEMMA InsertSettlementStep ==
  ASSUME TxInv, NEW r \in Requests, InsertSettlement(r)
  PROVE  TxInv'
<1> DEFINE s == req[r].s
           row == NewSettlement("live")
           local == [req[r] EXCEPT !.pc = "commit"]
<1>1. /\ At(r, "insert") /\ UpdateSettlementRow(r, s, row) /\ req' = [req EXCEPT ![r] = local]
      /\ UNCHANGED settlement /\ req[r] \in ReqRow
  BY DEF InsertSettlement, Goto, UpdateSettlementRow, TxInv, TxTypeOK
<1>2. s \in Settlements /\ settlement[s].row = "absent" /\ settlement[s].status = "UNSETTLED"
  BY <1>1 DEF TxInv, OwnsItsTab, TabDraftsSound, At
<1>3. local \in ReqRow
  BY <1>1 DEF ReqRow, Labels
<1>4. row \in SettlementRow /\ row.row = "live" /\ row.status = "UNSETTLED"
  BY AmountsAssumption DEF NewSettlement, SettlementRow, Totals
<1>5. /\ local.pc = "commit" /\ local.op = req[r].op /\ local.s = s /\ local.o = req[r].o
      /\ local.inserted = req[r].inserted /\ local.deleted = req[r].deleted
  BY <1>1 DEF ReqRow
<1> HIDE DEF row, local
<1>6. \A t \in Settlements : lock'[t] = r => t = s
  BY <1>1, <1>2, TabUpdateLocks DEF At
<1>7. RequestOK(r)' /\ TabIsNew(r)
  BY <1>1, <1>3, <1>5, <1>6, PlainStatement DEF At
<1>8. QED
  BY <1>1, <1>2, <1>3, <1>4, <1>7, TabRowStep

\* AddOrder puts the order on its tab, which was open when it arrived.
LEMMA LinkStatementStep ==
  ASSUME TxInv, NEW r \in Requests, Link(r)
  PROVE  TxInv'
<1> DEFINE o == req[r].o
           link == IF req[r].op = "AddOrder" THEN req[r].s ELSE Null
           row == [orderDraft[o] EXCEPT !.settlement = link]
           local == [req[r] EXCEPT !.pc = "sum"]
<1>1. /\ At(r, "link") /\ UpdateOrderRow(r, o, row) /\ req' = [req EXCEPT ![r] = local]
      /\ UNCHANGED settlement /\ req[r] \in ReqRow
  BY DEF Link, Goto, UpdateOrderRow, TxInv, TxTypeOK
<1>2. o \in Orders /\ orderDraft[o] \in OrderRow /\ req[r].s \in Settlements
  BY <1>1 DEF TxInv, TxTypeOK, KnowsItsRows, At
<1>3. local \in ReqRow
  BY <1>1 DEF ReqRow, Labels
<1>4. row \in OrderRow /\ row.status = orderDraft[o].status /\ row.settlement = link
  BY <1>2 DEF OrderRow
<1>5. link # Null => settlement[link].row # "absent"
  BY DEF TxInv, OwnsItsTab
<1>6. /\ local.pc = "sum" /\ local.op = req[r].op /\ local.s = req[r].s /\ local.o = o
      /\ local.inserted = req[r].inserted /\ local.deleted = req[r].deleted
  BY <1>1 DEF ReqRow
<1> HIDE DEF row, local, link
<1>7. \A s \in Settlements : lock'[s] # r
  BY <1>1, <1>2, OrderUpdateLocks DEF At
<1>8. RequestOK(r)' /\ TabIsNew(r)
  BY <1>1, <1>2, <1>3, <1>6, <1>7, PlainStatement DEF At
<1>9. QED
  BY <1>1, <1>2, <1>3, <1>4, <1>5, <1>8, OrderRowStep

\* A query without ORDER BY lists orders.
LEMMA ListingsType ==
  ASSUME NEW S \in SUBSET Orders, NEW list \in Listings(S)
  PROVE  list \in Seq(Orders)
<1>1. IsFiniteSet(S)
  BY FiniteOrdersAssumption, FS_Subset
<1>2. Cardinality(S) \in Nat
  BY <1>1, FS_CardinalityType
<1>3. list \in [1 .. Cardinality(S) -> S]
  BY DEF Listings
<1>4. list \in [1 .. Cardinality(S) -> Orders]
  BY <1>3
<1>5. QED
  BY <1>2, <1>4

\* What Settle and Delete will write, and what they find.
ToWrite(r) == IF req[r].op = "Settle" THEN Charged(order, req[r].s) ELSE Linked(req[r].s)

Loaded(r, list) ==
  [req[r] EXCEPT !.pc = IF req[r].op = "Settle" THEN "sum"
                        ELSE IF list = << >> THEN "drop" ELSE "clear",
                 !.todo = list,
                 !.bill = [o \in Orders |-> IF o \in ToWrite(r) /\ req[r].op = "Settle"
                                              THEN order[o].total ELSE 0]]

LEMMA OrdersLoaded ==
  ASSUME NEW r \in Requests, ReadOrders(r), ~Rollback(r)
  PROVE  /\ At(r, "readOrders") /\ ReadOnly
         /\ \E list \in Listings(ToWrite(r)) : req' = [req EXCEPT ![r] = Loaded(r, list)]
<1> DEFINE settling == req[r].op = "Settle"
           label(list) == IF settling THEN "sum" ELSE IF list = << >> THEN "drop" ELSE "clear"
           bill == [o \in Orders |-> IF o \in ToWrite(r) /\ settling THEN order[o].total ELSE 0]
<1>1. \E list \in Listings(ToWrite(r)) :
        /\ req' = [req EXCEPT ![r].pc = label(list), ![r].todo = list, ![r].bill = bill]
        /\ ReadOnly
  BY Zenon DEF ReadOrders, ToWrite
<1>2. PICK list \in Listings(ToWrite(r)) :
        /\ req' = [req EXCEPT ![r].pc = label(list), ![r].todo = list, ![r].bill = bill]
        /\ ReadOnly
  BY <1>1
<1>3. req' = [req EXCEPT ![r] = Loaded(r, list)]
  BY <1>2 DEF Loaded
<1>4. At(r, "readOrders")
  BY DEF ReadOrders
<1>5. QED
  BY <1>2, <1>3, <1>4

LEMMA ReadOrdersStep ==
  ASSUME TxInv, NEW r \in Requests, ReadOrders(r)
  PROVE  TxInv'
<1> DEFINE s == req[r].s
<1>1. CASE Rollback(r)
  BY <1>1, RollbackStep
<1>2. CASE ~Rollback(r)
  <2>1. At(r, "readOrders") /\ req[r] \in ReqRow /\ req \in [Requests -> ReqRow] /\ ReadOnly
    BY <1>2, OrdersLoaded DEF TxInv, TxTypeOK
  <2>2. PICK list \in Listings(ToWrite(r)) : req' = [req EXCEPT ![r] = Loaded(r, list)]
    BY <1>2, OrdersLoaded
  <2> DEFINE local == Loaded(r, list)
  <2>3. list \in Seq(Orders)
    BY <2>2, ListingsType DEF ToWrite, Charged, Linked
  <2> DEFINE label == IF req[r].op = "Settle" THEN "sum"
                      ELSE IF list = << >> THEN "drop" ELSE "clear"
             bill == [o \in Orders |-> IF o \in ToWrite(r) /\ req[r].op = "Settle"
                                         THEN order[o].total ELSE 0]
  <2>4. bill \in [Orders -> Amounts] /\ label \in Labels
    BY AmountsAssumption DEF TxInv, TxTypeOK, TypeOK, OrderRow, Labels
  <2>5. local \in ReqRow
    <3>1. local = [req[r] EXCEPT !.pc = label, !.todo = list, !.bill = bill]
      BY DEF Loaded
    <3> HIDE DEF label, bill, local
    <3>2. QED
      BY <2>1, <2>3, <2>4, <3>1 DEF ReqRow
  <2>6. /\ local.pc \in {"sum", "drop", "clear"} /\ (local.pc = "clear" => local.todo # << >>)
        /\ local.op = req[r].op /\ local.s = s /\ local.o = req[r].o
        /\ local.inserted = req[r].inserted /\ local.deleted = req[r].deleted
    BY <2>1 DEF Loaded, ReqRow
  <2>7. s \in Settlements
    BY <2>1 DEF TxInv, KnowsItsRows, At
  <2>8. \A t \in Settlements : lock'[t] # r
    BY <2>1 DEF TxInv, OwnsItsTab, At, ReadOnly
  <2>9. RequestOK(r)' /\ TabIsNew(r)
    BY <2>1, <2>2, <2>5, <2>6, <2>7, <2>8, PlainStatement DEF At, ReadOnly
  <2>10. QED
    BY <2>1, <2>2, <2>5, <2>9, ReadStep
<1>3. QED
  BY <1>1, <1>2

LEMMA SumOrdersStep ==
  ASSUME TxInv, NEW r \in Requests, SumOrders(r)
  PROVE  TxInv'
<1> DEFINE total == Receivable(OrdersSeenBy(r), req[r].s)
           local == [req[r] EXCEPT !.pc = "writeTotal", !.sum = total]
<1>1. At(r, "sum") /\ req[r] \in ReqRow /\ req' = [req EXCEPT ![r] = local] /\ ReadOnly
  BY DEF SumOrders, TxInv, TxTypeOK
<1>2. req[r].s \in Settlements
  BY <1>1 DEF TxInv, KnowsItsRows, At
<1>3. OrdersSeenBy(r) \in [Orders -> OrderRow]
  BY DEF OrdersSeenBy, TxInv, TxTypeOK, TypeOK
<1>4. total \in Totals
  BY <1>2, <1>3, ReceivableType
<1> HIDE DEF total
<1>5. local \in ReqRow
  BY <1>1, <1>4 DEF ReqRow, Labels
<1>6. /\ local.pc = "writeTotal" /\ local.op = req[r].op /\ local.s = req[r].s
      /\ local.o = req[r].o /\ local.inserted = req[r].inserted /\ local.deleted = req[r].deleted
  BY <1>1 DEF ReqRow
<1>7. \A t \in Settlements : lock'[t] # r
  BY <1>1 DEF TxInv, OwnsItsTab, At, ReadOnly
<1> HIDE DEF local
<1>8. RequestOK(r)' /\ TabIsNew(r)
  BY <1>1, <1>2, <1>5, <1>6, <1>7, PlainStatement DEF At, ReadOnly
<1>9. QED
  BY <1>1, <1>5, <1>8, ReadStep

\* The writes to the tab: each keeps the columns it does not name.
LEMMA TabWriteStep ==
  ASSUME TxInv, NEW r \in Requests, WriteTotal(r) \/ CloseTab(r) \/ DropSettlement(r)
  PROVE  TxInv'
<1> DEFINE s == req[r].s
           old == settlementDraft[s]
           row == IF At(r, "drop") THEN [old EXCEPT !.row = "deleted"]
                  ELSE IF req[r].op = "Settle"
                  THEN [old EXCEPT !.total = req[r].sum, !.status = "SETTLED",
                                   !.actual = req[r].amount]
                  ELSE [old EXCEPT !.total = req[r].sum]
           label == IF CloseTab(r) /\ req[r].todo # << >> THEN "pay" ELSE "commit"
           local == [req[r] EXCEPT !.pc = label]
<1>1. CASE Rollback(r)
  BY <1>1, RollbackStep
<1>2. CASE ~Rollback(r)
  <2>1. /\ At(r, "writeTotal") \/ At(r, "drop")
        /\ req[r] \in ReqRow /\ req \in [Requests -> ReqRow]
    BY DEF WriteTotal, CloseTab, DropSettlement, TxInv, TxTypeOK
  <2>2. s \in Settlements /\ old \in SettlementRow
    BY <2>1 DEF TxInv, TxTypeOK, KnowsItsRows, At
  <2>3. /\ UpdateSettlementRow(r, s, row) /\ req' = [req EXCEPT ![r] = local]
        /\ row.row = "absent" => row.row = old.row /\ row.status = old.status
    <3>1. CASE WriteTotal(r)
      BY <2>1, <2>2, <3>1 DEF WriteTotal, CloseTab, Goto, At, SettlementRow
    <3>2. CASE CloseTab(r)
      BY <1>2, <2>1, <2>2, <3>2 DEF CloseTab, Goto, At, SettlementRow
    <3>3. CASE DropSettlement(r)
      BY <1>2, <2>1, <2>2, <3>3 DEF DropSettlement, CloseTab, Goto, At, SettlementRow
    <3>4. QED
      BY <3>1, <3>2, <3>3
  <2>4. /\ row \in SettlementRow
        /\ old.row # "absent" => row.row # "absent"
        /\ old.row = "deleted" => row.row = "deleted"
        /\ old.status = "SETTLED" => row.status = "SETTLED"
    BY <2>1, <2>2 DEF SettlementRow, ReqRow
  <2>5. local \in ReqRow
    BY <2>1 DEF ReqRow, Labels
  <2>6. /\ local.pc = label /\ local.op = req[r].op /\ local.s = s /\ local.o = req[r].o
        /\ local.inserted = req[r].inserted /\ local.deleted = req[r].deleted
        /\ local.todo = req[r].todo
    BY <2>1 DEF ReqRow
  <2>7. label \in {"pay", "commit"} /\ (label = "pay" => req[r].todo # << >>)
    OBVIOUS
  <2>8. UNCHANGED settlement
    BY <2>3 DEF UpdateSettlementRow
  <2> HIDE DEF row, local, label
  <2>9. \A t \in Settlements : lock'[t] = r => t = s
    BY <2>1, <2>3, <2>2, TabUpdateLocks DEF At
  <2>10. RequestOK(r)' /\ TabIsNew(r)
    BY <2>1, <2>3, <2>2, <2>5, <2>6, <2>7, <2>8, <2>9, PlainStatement DEF At
  <2>11. /\ settlement[s].row # "absent" => row.row # "absent"
         /\ settlement[s].row = "deleted" => row.row = "deleted"
         /\ settlement[s].status = "SETTLED" => row.status = "SETTLED"
         /\ row.row = "absent" => row.status = "UNSETTLED"
    BY <2>3, <2>2, <2>4 DEF TxInv, TabDraftsSound
  <2>12. QED
    BY <2>3, <2>2, <2>4, <2>5, <2>10, <2>11, TabRowStep
<1>3. QED
  BY <1>1, <1>2

\* The loops over the orders of a tab: they write one column of an order that is next.
LEMMA LoopStep ==
  ASSUME TxInv, NEW r \in Requests, PayOrder(r) \/ ClearOrder(r)
  PROVE  TxInv'
<1> DEFINE o == Head(req[r].todo)
           paying == At(r, "pay")
           row == IF paying THEN [orderDraft[o] EXCEPT !.actual = req[r].bill[o]]
                            ELSE [orderDraft[o] EXCEPT !.settlement = Null]
           label == IF Tail(req[r].todo) = << >> THEN IF paying THEN "commit" ELSE "drop"
                                                 ELSE IF paying THEN "pay" ELSE "clear"
           local == [req[r] EXCEPT !.todo = Tail(@), !.pc = label]
<1>1. /\ At(r, "pay") \/ At(r, "clear")
      /\ req[r] \in ReqRow /\ req \in [Requests -> ReqRow]
  BY DEF PayOrder, ClearOrder, TxInv, TxTypeOK
<1>2. /\ UpdateOrderRow(r, o, row) /\ req' = [req EXCEPT ![r] = local] /\ UNCHANGED settlement
  BY DEF PayOrder, ClearOrder, Shift, UpdateOrderRow, At
<1>3. req[r].todo \in Seq(Orders) /\ req[r].todo # << >> /\ req[r].s \in Settlements
  BY <1>1 DEF TxInv, KnowsItsRows, ReqRow, At
<1>4. o \in Orders /\ Tail(req[r].todo) \in Seq(Orders)
  BY <1>3
<1>5. orderDraft[o] \in OrderRow /\ req[r].bill[o] \in Amounts
  BY <1>1, <1>4 DEF TxInv, TxTypeOK, ReqRow
<1>6. /\ row \in OrderRow /\ row.status = orderDraft[o].status
      /\ row.settlement \in {Null, orderDraft[o].settlement}
  BY <1>5 DEF OrderRow
<1>7. label \in {"pay", "clear", "drop", "commit"} /\ (paying => label \in {"pay", "commit"})
  OBVIOUS
<1>8. label \in {"pay", "clear"} => Tail(req[r].todo) # << >>
  OBVIOUS
<1> HIDE DEF label, row
<1>9. local \in ReqRow
  BY <1>1, <1>4, <1>7 DEF ReqRow, Labels
<1>10. /\ local.pc = label /\ local.op = req[r].op /\ local.s = req[r].s /\ local.o = req[r].o
       /\ local.inserted = req[r].inserted /\ local.deleted = req[r].deleted
       /\ local.todo = Tail(req[r].todo)
  BY <1>1 DEF ReqRow
<1> HIDE DEF local
<1>11. ASSUME NEW s \in Settlements, lock'[s] = r
       PROVE  local.s = s /\ local.pc \in {"pay", "commit"}
  BY <1>1, <1>2, <1>4, <1>7, <1>10, <1>11, OrderUpdateLocks DEF At
<1>12. RequestOK(r)' /\ TabIsNew(r)
  BY <1>1, <1>2, <1>3, <1>7, <1>8, <1>9, <1>10, <1>11, PlainStatement DEF At
<1>13. row.settlement # Null => settlement[row.settlement].row # "absent"
  BY <1>4, <1>6 DEF TxInv, OrderDraftsSound
<1>14. QED
  BY <1>2, <1>4, <1>6, <1>9, <1>12, <1>13, OrderRowStep
-----------------------------------------------------------------------------
(* The theorems *)

LEMMA TxInitInv == TxInit => TxInv
<1> SUFFICES ASSUME TxInit PROVE TxInv
  OBVIOUS
<1>1. TypeOK
  BY InitTypeOK DEF TxInit
<1>2. TxTypeOK
  BY <1>1, IdleType DEF TxInit, TxTypeOK, TypeOK
<1>3. ASSUME NEW r \in Requests PROVE KnowsItsRows(r) /\ EditIsWhole(r) /\ OwnsItsTab(r)
  <2>1. req[r] = IdleRequest /\ \A s \in Settlements : lock[s] # r
    BY RowsAssumption DEF TxInit
  <2>2. QED
    BY <2>1 DEF KnowsItsRows, EditIsWhole, OwnsItsTab, IdleRequest, At
<1>4. OrderDraftsSound /\ TabDraftsSound /\ OrderNeverEmpty
  BY DEF TxInit, Init, OrderDraftsSound, TabDraftsSound, OrderNeverEmpty, Exists, NewOrder,
     NewSettlement
<1>5. QED
  BY <1>2, <1>3, <1>4 DEF TxInv

LEMMA TxNextInv == TxInv /\ [TxNext]_txVars => TxInv'
<1> SUFFICES ASSUME TxInv, [TxNext]_txVars PROVE TxInv'
  OBVIOUS
<1>1. ASSUME NEW r \in Requests, Step(r) PROVE TxInv'
  BY <1>1, SetStatusStep, EditReadsStep, ReplaceItemsStep, SetTotalStep, FindLinkStep, CheckStep,
     InsertSettlementStep, LinkStatementStep, ReadOrdersStep, SumOrdersStep, TabWriteStep,
     LoopStep, CommitStep DEF Step
<1>2. ASSUME NEW r \in Requests, DeadlockVictim(r) \/ Fail(r) PROVE TxInv'
  BY <1>2, RollbackStep DEF DeadlockVictim, Fail
<1>3. CASE UNCHANGED txVars
  BY <1>3 DEF txVars, TxInv, TxTypeOK, TypeOK, KnowsItsRows, EditIsWhole, OwnsItsTab,
     OrderDraftsSound, TabDraftsSound, OrderNeverEmpty, Exists, At
<1>4. QED
  BY <1>1, <1>2, <1>3, ArrivalStep DEF TxNext

\* However the statements of any number of requests interleave, wherever they fail and
\* whichever of them the deadlock detector picks, the inductive invariant holds.
THEOREM TxInductive == TxSpec => []TxInv
  BY TxInitInv, TxNextInv, PTL DEF TxSpec

\* Rows, drafts, locks and requests keep their types.
THEOREM TxTypeCorrect == TxSpec => []TxTypeOK
<1>1. TxInv => TxTypeOK
  BY DEF TxInv
<1>2. QED
  BY <1>1, TxInductive, PTL

\* No interleaving of edits shows an order without lines.
THEOREM NeverEmpty == TxSpec => []OrderNeverEmpty
<1>1. TxInv => OrderNeverEmpty
  BY DEF TxInv
<1>2. QED
  BY <1>1, TxInductive, PTL

\* The committed tables change by a commit and by the creation of an order, in no other step.
LEMMA OnlyCommitsPublish ==
  ASSUME [TxNext]_txVars
  PROVE  \/ UNCHANGED <<order, settlement, items>>
         \/ \E r \in Requests : Commit(r)
         \/ \E r \in Requests, o \in Orders, total, actual, lines \in Amounts :
              TxCreateOrder(r, o, total, actual, lines)
<1>1. ASSUME NEW r \in Requests, Step(r), ~Commit(r)
      PROVE  UNCHANGED <<order, settlement, items>>
  BY <1>1 DEF Step, SetStatus, SelectOrder, FindItems, ReplaceItems, SetTotal, FindLink, FindTab,
     InsertSettlement, ReadOrder, Link, ReadOrders, SumOrders, WriteTotal, CloseTab, PayOrder,
     ClearOrder, DropSettlement, UpdateOrderRow, UpdateSettlementRow, ReadOnly, Rollback
<1>2. ASSUME NEW r \in Requests, DeadlockVictim(r) \/ Fail(r)
      PROVE  UNCHANGED <<order, settlement, items>>
  BY <1>2 DEF DeadlockVictim, Fail, Rollback
<1>3. ASSUME NEW r \in Requests, Arrival(r),
             ~\E o \in Orders, total, actual, lines \in Amounts :
                TxCreateOrder(r, o, total, actual, lines)
      PROVE  UNCHANGED <<order, settlement, items>>
  BY <1>3 DEF Arrival, ArriveUpdateStatus, ArriveUpdateOrder, ArriveCreateSettlement, ArriveRelink,
     ArriveSettle, ArriveDelete, Arrive, ReadOnly
<1>4. CASE UNCHANGED txVars
  BY <1>4 DEF txVars
<1>5. QED
  BY <1>1, <1>2, <1>3, <1>4 DEF TxNext

\* Whoever commits new lines of an order has written their sum into its total, to a row
\* no other request could touch since.
THEOREM TotalsNameTheirLines == TxSpec => TotalNamesItsLines
<1>1. ASSUME TxInv, [TxNext]_txVars, NEW o \in Orders, order[o].status # "NONE",
             items'[o] # items[o]
      PROVE  \E b \in items'[o] : b.amount = order'[o].total
  <2>1. CASE UNCHANGED <<order, settlement, items>>
    BY <1>1, <2>1
  <2>2. ASSUME NEW r \in Requests, Commit(r) PROVE \E b \in items'[o] : b.amount = order'[o].total
    <3>1. /\ o = req[r].o /\ items'[o] = (items[o] \ req[r].deleted) \cup req[r].inserted
          /\ order'[o] = IF lock[o] = r THEN orderDraft[o] ELSE order[o]
          /\ At(r, "commit") /\ EditIsWhole(r)
      BY <1>1, <2>2 DEF Commit, OrdersSeenBy, TxInv
    <3>2. req[r].inserted # {}
      BY <1>1, <3>1 DEF EditIsWhole
    <3>3. /\ req[r].inserted = {[by |-> r, amount |-> req[r].amount]}
          /\ order'[o].total = req[r].amount
      BY <3>1, <3>2 DEF EditIsWhole
    <3>4. /\ [by |-> r, amount |-> req[r].amount] \in items'[o]
          /\ [by |-> r, amount |-> req[r].amount].amount = order'[o].total
      BY <3>1, <3>3
    <3>5. QED
      BY <3>4
  <2>3. ASSUME NEW r \in Requests, NEW p \in Orders, NEW total \in Amounts, NEW actual \in Amounts,
               NEW lines \in Amounts, TxCreateOrder(r, p, total, actual, lines)
        PROVE  FALSE
    BY <1>1, <2>3 DEF TxCreateOrder, CreateOrder, Exists, TxInv, TxTypeOK
  <2>4. QED
    BY <1>1, <2>1, <2>2, <2>3, OnlyCommitsPublish
<1>2. TxInv /\ [TxNext]_txVars =>
        [\A o \in Orders : order[o].status # "NONE" /\ items'[o] # items[o]
           => \E b \in items'[o] : b.amount = order'[o].total]_txVars
  BY <1>1
<1>3. QED
  BY <1>2, TxInductive, PTL DEF TxSpec, TotalNamesItsLines

\* What a commit publishes of a tab never takes back that it was settled or deleted,
\* however long ago the request looked at it.
THEOREM TabsStayClosed == TxSpec => TabNeverReopens
<1>1. ASSUME TxInv, [TxNext]_txVars, NEW s \in Settlements
      PROVE  /\ settlement[s].status = "SETTLED" => settlement'[s].status = "SETTLED"
             /\ settlement[s].row = "deleted" => settlement'[s].row = "deleted"
  <2>1. CASE UNCHANGED settlement
    BY <2>1
  <2>2. ASSUME NEW r \in Requests, Commit(r)
        PROVE  settlement'[s] \in {settlement[s], settlementDraft[s]}
    BY <2>2 DEF Commit, SettlementsSeenBy
  <2>3. QED
    BY <1>1, <2>1, <2>2, OnlyCommitsPublish DEF TxInv, TabDraftsSound, TxCreateOrder, CreateOrder
<1>2. TxInv /\ [TxNext]_txVars =>
        [\A s \in Settlements :
           /\ settlement[s].status = "SETTLED" => settlement'[s].status = "SETTLED"
           /\ settlement[s].row = "deleted" => settlement'[s].row = "deleted"]_txVars
  BY <1>1
<1>3. QED
  BY <1>2, TxInductive, PTL DEF TxSpec, TabNeverReopens

-----------------------------------------------------------------------------
(* Which handler is at which statement, and from which statement on it holds rows *)

LabelsOf(op) ==
  CASE op = "none"                -> {"idle"}
    [] op = "UpdateOrderStatus"   -> {"setStatus", "commit"}
    [] op = "UpdateOrder"         -> {"selectOrder", "findItems", "replaceItems", "setTotal", "commit"}
    [] op = "RecalcTotalForOrder" -> {"findLink", "findTab", "sum", "writeTotal", "commit"}
    [] op = "CreateSettlement"    -> {"insert", "commit"}
    [] op \in {"AddOrder", "RemoveOrder"} -> {"readOrder", "link", "sum", "writeTotal", "commit"}
    [] op = "Settle"              -> {"readOrders", "sum", "writeTotal", "pay", "commit"}
    [] op = "DeleteSettlement"    -> {"readOrders", "clear", "drop", "commit"}
    [] OTHER                      -> {}

\* A request holds no row before the first statement of its transaction that updates
\* one; what it reads before that, it reads without a lock.
LocksLate(r) ==
  (\E row \in Orders \cup Settlements : lock[row] = r)
    => req[r].pc \in {"sum", "writeTotal", "pay", "clear", "drop", "commit"}

KeepsToItsHandler ==
  \A r \in Requests : req[r].pc \in LabelsOf(req[r].op) /\ LocksLate(r)

Holding == {"sum", "writeTotal", "pay", "clear", "drop", "commit"}

\* A step takes rows for a statement that may hold some, or leaves the rows alone, or
\* releases them.
LEMMA PathStep ==
  ASSUME TxInv, KeepsToItsHandler, NEW r \in Requests, NEW local,
         req' = [req EXCEPT ![r] = local],
         local.pc \in LabelsOf(local.op),
         \/ lock' = lock /\ (req[r].pc \in Holding => local.pc \in Holding)
         \/ local.pc \in Holding /\ \E row \in Orders \cup Settlements : Take(r, row)
         \/ lock' = Unlocked(r)
  PROVE  KeepsToItsHandler'
<1>1. /\ req \in [Requests -> ReqRow]
      /\ lock \in [Orders \cup Settlements -> Requests \cup {Free}]
  BY DEF TxInv, TxTypeOK
<1>2. req'[r] = local /\ \A q \in Requests \ {r} : req'[q] = req[q]
  BY <1>1
<1>3. \A q \in Requests \ {r}, row \in Orders \cup Settlements : lock'[row] = q => lock[row] = q
  BY <1>1, RowsAssumption DEF Take, CanLock, Unlocked
<1>4. ASSUME NEW q \in Requests \ {r} PROVE req'[q].pc \in LabelsOf(req'[q].op) /\ LocksLate(q)'
  BY <1>2, <1>3 DEF KeepsToItsHandler, LocksLate
<1>5. LocksLate(r)'
  <2>1. CASE lock' = Unlocked(r)
    <3>1. \A row \in Orders \cup Settlements : lock'[row] # r
      BY <1>1, <2>1, RowsAssumption DEF Unlocked
    <3>2. QED
      BY <3>1 DEF LocksLate
  <2>2. CASE lock' = lock /\ (req[r].pc \in Holding => local.pc \in Holding)
    BY <1>2, <2>2 DEF KeepsToItsHandler, LocksLate, Holding
  <2>3. CASE local.pc \in Holding
    BY <1>2, <2>3 DEF LocksLate, Holding
  <2>4. QED
    BY <2>1, <2>2, <2>3
<1>6. QED
  BY <1>2, <1>4, <1>5 DEF KeepsToItsHandler

\* The statement r runs next decides which handler it is in.
LEMMA StatementOf ==
  ASSUME TxInv, KeepsToItsHandler, NEW r \in Requests
  PROVE  /\ At(r, "setStatus") => req[r].op = "UpdateOrderStatus"
         /\ req[r].pc \in {"selectOrder", "findItems", "replaceItems", "setTotal"}
              => req[r].op = "UpdateOrder"
         /\ req[r].pc \in {"findLink", "findTab"} => req[r].op = "RecalcTotalForOrder"
         /\ At(r, "insert") => req[r].op = "CreateSettlement"
         /\ req[r].pc \in {"readOrder", "link"} => req[r].op \in {"AddOrder", "RemoveOrder"}
         /\ At(r, "readOrders") => req[r].op \in {"Settle", "DeleteSettlement"}
         /\ req[r].pc \in {"sum", "writeTotal"}
              => req[r].op \in {"AddOrder", "RemoveOrder", "Settle", "RecalcTotalForOrder"}
         /\ At(r, "pay") => req[r].op = "Settle"
         /\ req[r].pc \in {"clear", "drop"} => req[r].op = "DeleteSettlement"
  BY DEF KeepsToItsHandler, LabelsOf, At

LEMMA PathRollback ==
  ASSUME TxInv, KeepsToItsHandler, NEW r \in Requests, Rollback(r)
  PROVE  KeepsToItsHandler'
<1>1. IdleRequest.pc \in LabelsOf(IdleRequest.op)
  BY DEF IdleRequest, LabelsOf
<1>2. QED
  BY <1>1, PathStep DEF Rollback

LEMMA PathArrival ==
  ASSUME TxInv, KeepsToItsHandler, NEW r \in Requests, Arrival(r)
  PROVE  KeepsToItsHandler'
<1>1. ASSUME NEW op, NEW local, Arrive(r, op, local),
             [local EXCEPT !.op = op].op = op, [local EXCEPT !.op = op].pc \in LabelsOf(op)
      PROVE  KeepsToItsHandler'
  BY <1>1, PathStep DEF Arrive, ReadOnly, At, Holding
<1>2. ASSUME NEW o \in Orders, NEW total \in Amounts, NEW actual \in Amounts,
             NEW lines \in Amounts, TxCreateOrder(r, o, total, actual, lines)
      PROVE  KeepsToItsHandler'
  BY <1>2 DEF TxCreateOrder, KeepsToItsHandler, LocksLate
<1>3. ASSUME NEW o \in Orders, NEW target \in ApiStatuses, NEW actual \in Amounts,
             ArriveUpdateStatus(r, o, target, actual)
      PROVE  KeepsToItsHandler'
  BY <1>1, <1>3 DEF ArriveUpdateStatus, IdleRequest, LabelsOf
<1>4. ASSUME NEW o \in Orders, NEW lines \in Amounts, ArriveUpdateOrder(r, o, lines)
      PROVE  KeepsToItsHandler'
  BY <1>1, <1>4 DEF ArriveUpdateOrder, IdleRequest, LabelsOf
<1>5. ASSUME NEW s \in Settlements, ArriveCreateSettlement(r, s)
      PROVE  KeepsToItsHandler'
  BY <1>1, <1>5 DEF ArriveCreateSettlement, IdleRequest, LabelsOf
<1>6. ASSUME NEW op, NEW s \in Settlements, NEW o \in Orders, ArriveRelink(r, op, s, o)
      PROVE  KeepsToItsHandler'
  BY <1>1, <1>6 DEF ArriveRelink, IdleRequest, LabelsOf
<1>7. ASSUME NEW s \in Settlements, NEW actual \in Amounts, ArriveSettle(r, s, actual)
      PROVE  KeepsToItsHandler'
  BY <1>1, <1>7 DEF ArriveSettle, IdleRequest, LabelsOf
<1>8. ASSUME NEW s \in Settlements, ArriveDelete(r, s)
      PROVE  KeepsToItsHandler'
  BY <1>1, <1>8 DEF ArriveDelete, IdleRequest, LabelsOf
<1>9. QED
  BY <1>2, <1>3, <1>4, <1>5, <1>6, <1>7, <1>8 DEF Arrival

LEMMA PathStatement ==
  ASSUME TxInv, KeepsToItsHandler, NEW r \in Requests, Step(r)
  PROVE  KeepsToItsHandler'
<1>1. req[r] \in ReqRow /\ req[r].pc \in LabelsOf(req[r].op)
  BY DEF TxInv, TxTypeOK, KeepsToItsHandler
<1>2. ASSUME NEW label, Goto(r, label), label \in LabelsOf(req[r].op),
             \/ lock' = lock /\ (req[r].pc \in Holding => label \in Holding)
             \/ label \in Holding /\ \E row \in Orders \cup Settlements : Take(r, row)
      PROVE  KeepsToItsHandler'
  <2> DEFINE local == [req[r] EXCEPT !.pc = label]
  <2>1. req' = [req EXCEPT ![r] = local] /\ local.pc = label /\ local.op = req[r].op
    BY <1>1, <1>2 DEF Goto, ReqRow, TxInv, TxTypeOK
  <2> HIDE DEF local
  <2>2. QED
    BY <1>2, <2>1, PathStep
<1>3. KnowsItsRows(r)
  BY DEF TxInv
<1>4. CASE SetStatus(r)
  BY <1>2, <1>3, <1>4, StatementOf
  DEF SetStatus, UpdateOrderRow, KnowsItsRows, At, LabelsOf, Holding
<1>5. CASE SelectOrder(r)
  <2> DEFINE local == [req[r] EXCEPT !.pc = "findItems", !.current = order[req[r].o]]
  <2>1. /\ req' = [req EXCEPT ![r] = local] /\ local.pc = "findItems" /\ local.op = req[r].op
        /\ At(r, "selectOrder") /\ lock' = lock
    BY <1>1, <1>5 DEF SelectOrder, ReadOnly, ReqRow, TxInv, TxTypeOK
  <2> HIDE DEF local
  <2>2. QED
    BY <2>1, PathStep, StatementOf DEF At, LabelsOf, Holding
<1>6. CASE FindItems(r)
  <2> DEFINE local == [req[r] EXCEPT !.pc = "replaceItems", !.found = items[req[r].o]]
  <2>1. /\ req' = [req EXCEPT ![r] = local] /\ local.pc = "replaceItems" /\ local.op = req[r].op
        /\ At(r, "findItems") /\ lock' = lock
    BY <1>1, <1>6 DEF FindItems, ReadOnly, ReqRow, TxInv, TxTypeOK
  <2> HIDE DEF local
  <2>2. QED
    BY <2>1, PathStep, StatementOf DEF At, LabelsOf, Holding
<1>7. CASE ReplaceItems(r)
  <2> DEFINE local == [req[r] EXCEPT !.pc = "setTotal",
                                     !.deleted = req[r].found \cap items[req[r].o],
                                     !.inserted = {[by |-> r, amount |-> req[r].amount]}]
  <2>1. /\ req' = [req EXCEPT ![r] = local] /\ local.pc = "setTotal" /\ local.op = req[r].op
        /\ At(r, "replaceItems") /\ lock' = lock
    BY <1>1, <1>7 DEF ReplaceItems, ReadOnly, ReqRow, TxInv, TxTypeOK
  <2> HIDE DEF local
  <2>2. QED
    BY <2>1, PathStep, StatementOf DEF At, LabelsOf, Holding
<1>8. CASE SetTotal(r)
  BY <1>2, <1>3, <1>8, StatementOf
  DEF SetTotal, UpdateOrderRow, KnowsItsRows, At, LabelsOf, Holding
<1>9. CASE FindLink(r)
  <2> DEFINE local == [req[r] EXCEPT !.pc = "findTab", !.s = order[req[r].o].settlement]
  <2>1. CASE Rollback(r)
    BY <2>1, PathRollback
  <2>2. CASE ~Rollback(r)
    <3>1. /\ req' = [req EXCEPT ![r] = local] /\ local.pc = "findTab" /\ local.op = req[r].op
          /\ At(r, "findLink") /\ lock' = lock
      BY <1>1, <1>9, <2>2 DEF FindLink, ReadOnly, ReqRow, TxInv, TxTypeOK
    <3> HIDE DEF local
    <3>2. QED
      BY <3>1, PathStep, StatementOf DEF At, LabelsOf, Holding
  <2>3. QED
    BY <2>1, <2>2
<1>10. CASE FindTab(r)
  BY <1>2, <1>10, PathRollback, StatementOf DEF FindTab, ReadOnly, At, LabelsOf, Holding
<1>11. CASE InsertSettlement(r)
  BY <1>2, <1>3, <1>11, StatementOf
  DEF InsertSettlement, UpdateSettlementRow, KnowsItsRows, At, LabelsOf, Holding
<1>12. CASE ReadOrder(r)
  BY <1>2, <1>12, PathRollback, StatementOf DEF ReadOrder, ReadOnly, At, LabelsOf, Holding
<1>13. CASE Link(r)
  BY <1>2, <1>3, <1>13, StatementOf
  DEF Link, UpdateOrderRow, KnowsItsRows, At, LabelsOf, Holding
<1>14. CASE ReadOrders(r)
  <2>1. CASE Rollback(r)
    BY <2>1, PathRollback
  <2>2. CASE ~Rollback(r)
    <3>1. PICK list \in Listings(ToWrite(r)) : req' = [req EXCEPT ![r] = Loaded(r, list)]
      BY <1>14, <2>2, OrdersLoaded
    <3>2. /\ Loaded(r, list).pc \in IF req[r].op = "Settle" THEN {"sum"} ELSE {"drop", "clear"}
          /\ Loaded(r, list).op = req[r].op
      BY <1>1 DEF Loaded, ReqRow
    <3>3. At(r, "readOrders") /\ lock' = lock
      BY <1>14, <2>2, OrdersLoaded DEF ReadOnly
    <3>4. QED
      BY <3>1, <3>2, <3>3, PathStep, StatementOf DEF At, LabelsOf, Holding
  <2>3. QED
    BY <2>1, <2>2
<1>15. CASE SumOrders(r)
  <2> DEFINE local == [req[r] EXCEPT !.pc = "writeTotal",
                                     !.sum = Receivable(OrdersSeenBy(r), req[r].s)]
  <2>1. /\ req' = [req EXCEPT ![r] = local] /\ local.pc = "writeTotal" /\ local.op = req[r].op
        /\ At(r, "sum") /\ lock' = lock
    BY <1>1, <1>15 DEF SumOrders, ReadOnly, ReqRow, TxInv, TxTypeOK
  <2> HIDE DEF local
  <2>2. QED
    BY <2>1, PathStep, StatementOf DEF At, LabelsOf, Holding
<1>16. CASE WriteTotal(r)
  BY <1>2, <1>3, <1>16, StatementOf
  DEF WriteTotal, UpdateSettlementRow, KnowsItsRows, At, LabelsOf, Holding
<1>17. CASE CloseTab(r)
  BY <1>2, <1>3, <1>17, PathRollback, StatementOf
  DEF CloseTab, UpdateSettlementRow, KnowsItsRows, At, LabelsOf, Holding
<1>18. CASE PayOrder(r) \/ ClearOrder(r)
  <2> DEFINE label == IF Tail(req[r].todo) = << >> THEN IF At(r, "pay") THEN "commit" ELSE "drop"
                                                   ELSE IF At(r, "pay") THEN "pay" ELSE "clear"
             local == [req[r] EXCEPT !.todo = Tail(@), !.pc = label]
  <2>1. /\ req' = [req EXCEPT ![r] = local] /\ req[r].pc \in {"pay", "clear"}
        /\ \E row : UpdateOrderRow(r, Head(req[r].todo), row)
    BY <1>18 DEF PayOrder, ClearOrder, Shift, At
  <2>2. Head(req[r].todo) \in Orders
    BY <1>1, <1>3, <2>1 DEF KnowsItsRows, ReqRow
  <2>3. label \in IF At(r, "pay") THEN {"commit", "pay"} ELSE {"drop", "clear"}
    OBVIOUS
  <2> HIDE DEF label
  <2>4. local.pc = label /\ local.op = req[r].op
    BY <1>1 DEF ReqRow
  <2> HIDE DEF local
  <2>5. QED
    BY <2>1, <2>2, <2>3, <2>4, PathStep, StatementOf DEF UpdateOrderRow, At, LabelsOf, Holding
<1>19. CASE DropSettlement(r)
  BY <1>2, <1>3, <1>19, PathRollback, StatementOf
  DEF DropSettlement, UpdateSettlementRow, KnowsItsRows, At, LabelsOf, Holding
<1>20. CASE Commit(r)
  <2> DEFINE local == IF req[r].op = "UpdateOrder"
                        THEN [req[r] EXCEPT !.pc = "findLink", !.op = "RecalcTotalForOrder",
                                            !.found = {}, !.deleted = {}, !.inserted = {}]
                        ELSE IdleRequest
  <2>1. req' = [req EXCEPT ![r] = local] /\ lock' = Unlocked(r)
    BY <1>20 DEF Commit
  <2>2. \/ local.pc = "findLink" /\ local.op = "RecalcTotalForOrder"
        \/ local.pc = "idle" /\ local.op = "none"
    BY <1>1 DEF ReqRow, IdleRequest
  <2> HIDE DEF local
  <2>3. QED
    BY <2>1, <2>2, PathStep DEF LabelsOf
<1>21. QED
  BY <1>4, <1>5, <1>6, <1>7, <1>8, <1>9, <1>10, <1>11, <1>12, <1>13, <1>14, <1>15, <1>16, <1>17,
     <1>18, <1>19, <1>20 DEF Step

\* Any number of requests, however interleaved: each is at a statement of its handler, and
\* holds no row before the first statement that updates one.
LEMMA HandlersKept == TxSpec => []KeepsToItsHandler
<1>1. TxInit => KeepsToItsHandler
  <2> SUFFICES ASSUME TxInit PROVE KeepsToItsHandler
    OBVIOUS
  <2>1. ASSUME NEW r \in Requests PROVE req[r].pc \in LabelsOf(req[r].op) /\ LocksLate(r)
    BY RowsAssumption DEF TxInit, IdleRequest, LabelsOf, LocksLate
  <2>2. QED
    BY <2>1 DEF KeepsToItsHandler
<1>2. TxInv /\ KeepsToItsHandler /\ [TxNext]_txVars => KeepsToItsHandler'
  <2> SUFFICES ASSUME TxInv, KeepsToItsHandler, [TxNext]_txVars PROVE KeepsToItsHandler'
    OBVIOUS
  <2>1. CASE UNCHANGED txVars
    BY <2>1 DEF txVars, KeepsToItsHandler, LocksLate
  <2>2. CASE TxNext
    BY <2>2, PathArrival, PathStatement, PathRollback DEF TxNext, DeadlockVictim, Fail
  <2>3. QED
    BY <2>1, <2>2
<1>3. QED
  BY <1>1, <1>2, TxInductive, PTL DEF TxSpec

-----------------------------------------------------------------------------
(* What a request has written but not committed lies in the columns of its endpoint *)

DraftsInTheirColumns ==
  \A o \in Orders :
    IF lock[o] = Free THEN orderDraft[o] = order[o]
                      ELSE DiffersInItsColumns(req[lock[o]].op, order[o], orderDraft[o])

LEMMA ColumnsAddUp ==
  ASSUME NEW op, NEW old, NEW middle, NEW new,
         DiffersInItsColumns(op, old, middle), DiffersInItsColumns(op, middle, new)
  PROVE  DiffersInItsColumns(op, old, new)
  BY DEF DiffersInItsColumns

\* Whoever holds an order goes on in the same endpoint.
LEMMA ColumnsKept ==
  ASSUME TxInv, DraftsInTheirColumns, UNCHANGED <<order, orderDraft>>,
         \A o \in Orders : lock'[o] = lock[o],
         \A o \in Orders, q \in Requests : lock[o] = q => req'[q].op = req[q].op
  PROVE  DraftsInTheirColumns'
<1>1. \A o \in Orders : lock[o] \in Requests \cup {Free}
  BY DEF TxInv, TxTypeOK
<1>2. QED
  BY <1>1 DEF DraftsInTheirColumns, DiffersInItsColumns

LEMMA ColumnsWritten ==
  ASSUME TxInv, DraftsInTheirColumns, NEW r \in Requests, NEW p \in Orders, NEW row,
         UpdateOrderRow(r, p, row), DiffersInItsColumns(req[r].op, orderDraft[p], row),
         \A q \in Requests : req'[q].op = req[q].op
  PROVE  DraftsInTheirColumns'
<1>1. /\ lock \in [Orders \cup Settlements -> Requests \cup {Free}]
      /\ orderDraft \in [Orders -> OrderRow]
  BY DEF TxInv, TxTypeOK
<1>2. /\ lock[p] \in {Free, r} /\ lock' = [lock EXCEPT ![p] = r]
      /\ orderDraft' = [orderDraft EXCEPT ![p] = row] /\ order' = order
  BY DEF UpdateOrderRow, Take, CanLock
<1>3. r # Free
  BY RowsAssumption
<1>4. DiffersInItsColumns(req[r].op, order[p], row)
  <2>1. CASE lock[p] = Free
    BY <2>1 DEF DraftsInTheirColumns
  <2>2. CASE lock[p] = r
    BY <1>3, <2>2, ColumnsAddUp DEF DraftsInTheirColumns
  <2>3. QED
    BY <1>2, <2>1, <2>2
<1>5. ASSUME NEW o \in Orders
      PROVE  IF lock'[o] = Free
               THEN orderDraft'[o] = order'[o]
               ELSE DiffersInItsColumns(req'[lock'[o]].op, order'[o], orderDraft'[o])
  <2>1. CASE o = p
    BY <1>1, <1>2, <1>3, <1>4, <2>1
  <2>2. CASE o # p
    <3>1. lock'[o] = lock[o] /\ orderDraft'[o] = orderDraft[o] /\ lock[o] \in Requests \cup {Free}
      BY <1>1, <1>2, <2>2
    <3>2. QED
      BY <1>2, <3>1 DEF DraftsInTheirColumns
  <2>3. QED
    BY <2>1, <2>2
<1>6. QED
  BY <1>5 DEF DraftsInTheirColumns, DiffersInItsColumns

\* A commit publishes the versions r holds, a rollback forgets them: either way they agree.
LEMMA ColumnsReleased ==
  ASSUME TxInv, DraftsInTheirColumns, NEW r \in Requests, lock' = Unlocked(r),
         \A o \in Orders : lock[o] = r => orderDraft'[o] = order'[o],
         \A o \in Orders : lock[o] # r => orderDraft'[o] = orderDraft[o] /\ order'[o] = order[o],
         \A q \in Requests \ {r} : req'[q] = req[q]
  PROVE  DraftsInTheirColumns'
<1>1. lock \in [Orders \cup Settlements -> Requests \cup {Free}]
  BY DEF TxInv, TxTypeOK
<1>2. ASSUME NEW o \in Orders
      PROVE  IF lock'[o] = Free
               THEN orderDraft'[o] = order'[o]
               ELSE DiffersInItsColumns(req'[lock'[o]].op, order'[o], orderDraft'[o])
  <2>1. lock'[o] = IF lock[o] = r THEN Free ELSE lock[o]
    BY <1>1 DEF Unlocked
  <2>2. CASE lock[o] = r
    BY <2>1, <2>2
  <2>3. CASE lock[o] # r
    BY <1>1, <2>1, <2>3 DEF DraftsInTheirColumns
  <2>4. QED
    BY <2>2, <2>3
<1>3. QED
  BY <1>2 DEF DraftsInTheirColumns, DiffersInItsColumns

LEMMA ColumnsRollback ==
  ASSUME TxInv, DraftsInTheirColumns, NEW r \in Requests, Rollback(r)
  PROVE  DraftsInTheirColumns'
<1>1. \A q \in Requests \ {r} : req'[q] = req[q]
  BY DEF Rollback, TxInv, TxTypeOK
<1>2. \A o \in Orders : orderDraft'[o] = IF lock[o] = r THEN order[o] ELSE orderDraft[o]
  BY DEF Rollback
<1>3. QED
  BY <1>1, <1>2, ColumnsReleased DEF Rollback

\* A request that arrives holds nothing yet; a new order is committed at once.
LEMMA ColumnsArrival ==
  ASSUME TxInv, KeepsToItsHandler, DraftsInTheirColumns, NEW r \in Requests, Arrival(r)
  PROVE  DraftsInTheirColumns'
<1>1. At(r, "idle") => \A o \in Orders : lock[o] # r
  BY DEF KeepsToItsHandler, LocksLate, At
<1>2. ASSUME NEW op, NEW local, Arrive(r, op, local)
      PROVE  DraftsInTheirColumns'
  <2>1. \A q \in Requests \ {r} : req'[q] = req[q]
    BY <1>2 DEF Arrive, TxInv, TxTypeOK
  <2>2. QED
    BY <1>1, <1>2, <2>1, ColumnsKept DEF Arrive, ReadOnly
<1>3. ASSUME NEW p \in Orders, NEW total \in Amounts, NEW actual \in Amounts,
             NEW lines \in Amounts, TxCreateOrder(r, p, total, actual, lines)
      PROVE  DraftsInTheirColumns'
  <2>1. /\ orderDraft \in [Orders -> OrderRow] /\ order \in [Orders -> OrderRow]
        /\ \A o \in Orders : lock[o] \in Requests \cup {Free}
    BY DEF TxInv, TxTypeOK, TypeOK
  <2>2. /\ order' = [order EXCEPT ![p] = order'[p]]
        /\ orderDraft' = [orderDraft EXCEPT ![p] = order'[p]]
        /\ lock' = lock /\ req' = req
    BY <1>3, <2>1 DEF TxCreateOrder, CreateOrder
  <2>3. \A o \in Orders : \/ orderDraft'[o] = order'[o]
                          \/ orderDraft'[o] = orderDraft[o] /\ order'[o] = order[o]
    BY <2>1, <2>2
  <2>4. QED
    BY <2>1, <2>2, <2>3 DEF DraftsInTheirColumns, DiffersInItsColumns
<1>4. ASSUME NEW o \in Orders, NEW target \in ApiStatuses, NEW actual \in Amounts,
             ArriveUpdateStatus(r, o, target, actual)
      PROVE  DraftsInTheirColumns'
  BY <1>2, <1>4 DEF ArriveUpdateStatus
<1>5. ASSUME NEW o \in Orders, NEW lines \in Amounts, ArriveUpdateOrder(r, o, lines)
      PROVE  DraftsInTheirColumns'
  BY <1>2, <1>5 DEF ArriveUpdateOrder
<1>6. ASSUME NEW s \in Settlements, ArriveCreateSettlement(r, s)
      PROVE  DraftsInTheirColumns'
  BY <1>2, <1>6 DEF ArriveCreateSettlement
<1>7. ASSUME NEW op, NEW s \in Settlements, NEW o \in Orders, ArriveRelink(r, op, s, o)
      PROVE  DraftsInTheirColumns'
  BY <1>2, <1>7 DEF ArriveRelink
<1>8. ASSUME NEW s \in Settlements, NEW actual \in Amounts, ArriveSettle(r, s, actual)
      PROVE  DraftsInTheirColumns'
  BY <1>2, <1>8 DEF ArriveSettle
<1>9. ASSUME NEW s \in Settlements, ArriveDelete(r, s)
      PROVE  DraftsInTheirColumns'
  BY <1>2, <1>9 DEF ArriveDelete
<1>10. QED
  BY <1>3, <1>4, <1>5, <1>6, <1>7, <1>8, <1>9 DEF Arrival

\* Each UPDATE of an order assigns columns of the endpoint it is reached from.
LEMMA ColumnsStatement ==
  ASSUME TxInv, KeepsToItsHandler, DraftsInTheirColumns, NEW r \in Requests, Step(r)
  PROVE  DraftsInTheirColumns'
<1>1. /\ req \in [Requests -> ReqRow] /\ req[r] \in ReqRow /\ KnowsItsRows(r)
      /\ lock \in [Orders \cup Settlements -> Requests \cup {Free}]
      /\ orderDraft \in [Orders -> OrderRow]
  BY DEF TxInv, TxTypeOK
<1>2. ASSUME NEW label, Goto(r, label)
      PROVE  \A q \in Requests : req'[q].op = req[q].op
  BY <1>1, <1>2 DEF Goto, ReqRow
<1>3. CASE /\ UNCHANGED <<order, orderDraft>>
           /\ lock' = lock \/ \E s \in Settlements : lock' = [lock EXCEPT ![s] = r]
           /\ \A q \in Requests : req'[q].op = req[q].op
  <2>1. \A o \in Orders : lock'[o] = lock[o]
    BY <1>1, <1>3, RowsAssumption
  <2>2. QED
    BY <1>3, <2>1, ColumnsKept
<1>4. CASE SetStatus(r)
  <2> DEFINE o == req[r].o
             row == WithStatus(orderDraft[o], req[r].status, req[r].amount)
  <2>1. o \in Orders /\ orderDraft[o] \in OrderRow /\ req[r].op = "UpdateOrderStatus"
    BY <1>1, <1>4, StatementOf DEF SetStatus, KnowsItsRows, At
  <2>2. DiffersInItsColumns(req[r].op, orderDraft[o], row)
    BY <2>1 DEF DiffersInItsColumns, WithStatus, OrderRow
  <2>3. UpdateOrderRow(r, o, row) /\ Goto(r, "commit")
    BY <1>4 DEF SetStatus
  <2> HIDE DEF row
  <2>4. QED
    BY <1>2, <2>1, <2>2, <2>3, ColumnsWritten
<1>5. CASE SetTotal(r)
  <2> DEFINE o == req[r].o
             row == Repriced(orderDraft[o], req[r].current, req[r].amount)
  <2>1. o \in Orders /\ orderDraft[o] \in OrderRow /\ req[r].op = "UpdateOrder"
    BY <1>1, <1>5, StatementOf DEF SetTotal, KnowsItsRows, At
  <2>2. DiffersInItsColumns(req[r].op, orderDraft[o], row)
    BY <2>1 DEF DiffersInItsColumns, Repriced, OrderRow
  <2>3. UpdateOrderRow(r, o, row) /\ Goto(r, "commit")
    BY <1>5 DEF SetTotal
  <2> HIDE DEF row
  <2>4. QED
    BY <1>2, <2>1, <2>2, <2>3, ColumnsWritten
<1>6. CASE Link(r)
  <2> DEFINE o == req[r].o
             tab == IF req[r].op = "AddOrder" THEN req[r].s ELSE Null
             row == [orderDraft[o] EXCEPT !.settlement = tab]
  <2>1. o \in Orders /\ orderDraft[o] \in OrderRow /\ req[r].op \in {"AddOrder", "RemoveOrder"}
    BY <1>1, <1>6, StatementOf DEF Link, KnowsItsRows, At
  <2>2. DiffersInItsColumns(req[r].op, orderDraft[o], row)
    BY <2>1 DEF DiffersInItsColumns, OrderRow
  <2>3. UpdateOrderRow(r, o, row) /\ Goto(r, "sum")
    BY <1>6 DEF Link
  <2> HIDE DEF row
  <2>4. QED
    BY <1>2, <2>1, <2>2, <2>3, ColumnsWritten
<1>7. CASE PayOrder(r) \/ ClearOrder(r)
  <2>1. req[r].pc \in {"pay", "clear"} /\ Head(req[r].todo) \in Orders
    BY <1>1, <1>7 DEF PayOrder, ClearOrder, KnowsItsRows, ReqRow, At
  <2>2. \A q \in Requests : req'[q].op = req[q].op
    <3> DEFINE label == IF Tail(req[r].todo) = << >> THEN IF At(r, "pay") THEN "commit" ELSE "drop"
                                                     ELSE IF At(r, "pay") THEN "pay" ELSE "clear"
               local == [req[r] EXCEPT !.todo = Tail(@), !.pc = label]
    <3>1. req' = [req EXCEPT ![r] = local]
      BY <1>7 DEF PayOrder, ClearOrder, Shift, At
    <3> HIDE DEF label
    <3>2. local.op = req[r].op
      BY <1>1 DEF ReqRow
    <3> HIDE DEF local
    <3>3. QED
      BY <1>1, <3>1, <3>2
  <2>3. PICK o \in Orders : o = Head(req[r].todo)
    BY <2>1
  <2>4. CASE PayOrder(r)
    <3> DEFINE row == [orderDraft[o] EXCEPT !.actual = req[r].bill[o]]
    <3>1. UpdateOrderRow(r, o, row) /\ req[r].op = "Settle"
      BY <2>3, <2>4, StatementOf DEF PayOrder
    <3>2. DiffersInItsColumns(req[r].op, orderDraft[o], row)
      BY <1>1, <3>1 DEF DiffersInItsColumns, OrderRow
    <3> HIDE DEF row
    <3>3. QED
      BY <2>2, <3>1, <3>2, ColumnsWritten
  <2>5. CASE ClearOrder(r)
    <3> DEFINE row == [orderDraft[o] EXCEPT !.settlement = Null]
    <3>1. UpdateOrderRow(r, o, row) /\ req[r].op = "DeleteSettlement"
      BY <2>3, <2>5, StatementOf DEF ClearOrder, At
    <3>2. DiffersInItsColumns(req[r].op, orderDraft[o], row)
      BY <1>1, <3>1 DEF DiffersInItsColumns, OrderRow
    <3> HIDE DEF row
    <3>3. QED
      BY <2>2, <3>1, <3>2, ColumnsWritten
  <2>6. QED
    BY <1>7, <2>4, <2>5
<1>8. CASE SelectOrder(r)
  <2> DEFINE local == [req[r] EXCEPT !.pc = "findItems", !.current = order[req[r].o]]
  <2>1. req' = [req EXCEPT ![r] = local] /\ local.op = req[r].op /\ ReadOnly
    BY <1>1, <1>8 DEF SelectOrder, ReadOnly, ReqRow
  <2> HIDE DEF local
  <2>2. QED
    BY <1>1, <1>3, <2>1 DEF ReadOnly
<1>9. CASE FindItems(r)
  <2> DEFINE local == [req[r] EXCEPT !.pc = "replaceItems", !.found = items[req[r].o]]
  <2>1. req' = [req EXCEPT ![r] = local] /\ local.op = req[r].op /\ ReadOnly
    BY <1>1, <1>9 DEF FindItems, ReadOnly, ReqRow
  <2> HIDE DEF local
  <2>2. QED
    BY <1>1, <1>3, <2>1 DEF ReadOnly
<1>10. CASE ReplaceItems(r)
  <2> DEFINE local == [req[r] EXCEPT !.pc = "setTotal",
                                     !.deleted = req[r].found \cap items[req[r].o],
                                     !.inserted = {[by |-> r, amount |-> req[r].amount]}]
  <2>1. req' = [req EXCEPT ![r] = local] /\ local.op = req[r].op /\ ReadOnly
    BY <1>1, <1>10 DEF ReplaceItems, ReadOnly, ReqRow
  <2> HIDE DEF local
  <2>2. QED
    BY <1>1, <1>3, <2>1 DEF ReadOnly
<1>11. CASE SumOrders(r)
  <2> DEFINE local == [req[r] EXCEPT !.pc = "writeTotal",
                                     !.sum = Receivable(OrdersSeenBy(r), req[r].s)]
  <2>1. req' = [req EXCEPT ![r] = local] /\ local.op = req[r].op /\ ReadOnly
    BY <1>1, <1>11 DEF SumOrders, ReadOnly, ReqRow
  <2> HIDE DEF local
  <2>2. QED
    BY <1>1, <1>3, <2>1 DEF ReadOnly
<1>12. CASE FindLink(r)
  <2> DEFINE local == [req[r] EXCEPT !.pc = "findTab", !.s = order[req[r].o].settlement]
  <2>1. CASE Rollback(r)
    BY <2>1, ColumnsRollback
  <2>2. CASE ~Rollback(r)
    <3>1. req' = [req EXCEPT ![r] = local] /\ local.op = req[r].op /\ ReadOnly
      BY <1>1, <1>12, <2>2 DEF FindLink, ReadOnly, ReqRow
    <3> HIDE DEF local
    <3>2. QED
      BY <1>1, <1>3, <3>1 DEF ReadOnly
  <2>3. QED
    BY <2>1, <2>2
<1>13. CASE FindTab(r) \/ ReadOrder(r)
  BY <1>2, <1>3, <1>13, ColumnsRollback DEF FindTab, ReadOrder, ReadOnly
<1>14. CASE ReadOrders(r)
  <2>1. CASE Rollback(r)
    BY <2>1, ColumnsRollback
  <2>2. CASE ~Rollback(r)
    <3>1. PICK list \in Listings(ToWrite(r)) : req' = [req EXCEPT ![r] = Loaded(r, list)]
      BY <1>14, <2>2, OrdersLoaded
    <3>2. Loaded(r, list).op = req[r].op
      BY <1>1 DEF Loaded, ReqRow
    <3>3. ReadOnly
      BY <1>14, <2>2, OrdersLoaded
    <3>4. QED
      BY <1>1, <1>3, <3>1, <3>2, <3>3 DEF ReadOnly
  <2>3. QED
    BY <2>1, <2>2
<1>15. ASSUME NEW row, NEW label, UpdateSettlementRow(r, req[r].s, row), Goto(r, label),
              req[r].s \in Settlements
       PROVE  DraftsInTheirColumns'
  BY <1>2, <1>3, <1>15 DEF UpdateSettlementRow, Take
<1>16. CASE InsertSettlement(r) \/ WriteTotal(r) \/ CloseTab(r) \/ DropSettlement(r)
  <2>1. req[r].s \in Settlements
    BY <1>1, <1>16 DEF InsertSettlement, WriteTotal, CloseTab, DropSettlement, KnowsItsRows, At
  <2>2. QED
    BY <1>15, <1>16, <2>1, ColumnsRollback DEF InsertSettlement, WriteTotal, CloseTab, DropSettlement
<1>17. CASE Commit(r)
  <2>1. \A q \in Requests \ {r} : req'[q] = req[q]
    BY <1>1, <1>17 DEF Commit
  <2>2. \A o \in Orders : /\ order'[o] = IF lock[o] = r THEN orderDraft[o] ELSE order[o]
                          /\ orderDraft'[o] = orderDraft[o]
    BY <1>17 DEF Commit, OrdersSeenBy
  <2>3. QED
    BY <1>17, <2>1, <2>2, ColumnsReleased DEF Commit
<1>18. QED
  BY <1>4, <1>5, <1>6, <1>7, <1>8, <1>9, <1>10, <1>11, <1>12, <1>13, <1>14, <1>16, <1>17 DEF Step

LEMMA ColumnsInductive == TxSpec => []DraftsInTheirColumns
<1>1. TxInit => DraftsInTheirColumns
  BY DEF TxInit, DraftsInTheirColumns
<1>2. TxInv /\ KeepsToItsHandler /\ DraftsInTheirColumns /\ [TxNext]_txVars => DraftsInTheirColumns'
  <2> SUFFICES ASSUME TxInv, KeepsToItsHandler, DraftsInTheirColumns, [TxNext]_txVars
               PROVE  DraftsInTheirColumns'
    OBVIOUS
  <2>1. CASE UNCHANGED txVars
    BY <2>1, ColumnsKept DEF txVars
  <2>2. CASE TxNext
    BY <2>2, ColumnsArrival, ColumnsStatement, ColumnsRollback DEF TxNext, DeadlockVictim, Fail
  <2>3. QED
    BY <2>1, <2>2
<1>3. QED
  BY <1>1, <1>2, TxInductive, HandlersKept, PTL DEF TxSpec

\* However many requests work on an order at once: what one of them commits differs from
\* what the others left in the columns of its endpoint only.
THEOREM OthersWritesSurvive == TxSpec => OthersColumnsSurvive
<1>1. ASSUME TxInv, DraftsInTheirColumns, [TxNext]_txVars, NEW r \in Requests, NEW o \in Orders,
             At(r, "commit"), ~At(r, "commit")'
      PROVE  DiffersInItsColumns(req[r].op, order[o], order'[o])
  <2>1. CASE UNCHANGED <<order, settlement, items>>
    BY <2>1 DEF DiffersInItsColumns
  <2>2. ASSUME NEW q \in Requests, Commit(q)
        PROVE  DiffersInItsColumns(req[r].op, order[o], order'[o])
    <3>1. q = r
      BY <1>1, <2>2 DEF Commit, At, TxInv, TxTypeOK
    <3>2. order'[o] = IF lock[o] = r THEN orderDraft[o] ELSE order[o]
      BY <2>2, <3>1 DEF Commit, OrdersSeenBy
    <3>3. lock[o] = r => DiffersInItsColumns(req[r].op, order[o], orderDraft[o])
      BY <1>1, RowsAssumption DEF DraftsInTheirColumns
    <3>4. QED
      BY <3>2, <3>3 DEF DiffersInItsColumns
  <2>3. ASSUME NEW q \in Requests, NEW p \in Orders, NEW total \in Amounts, NEW actual \in Amounts,
               NEW lines \in Amounts, TxCreateOrder(q, p, total, actual, lines)
        PROVE  FALSE
    BY <1>1, <2>3 DEF TxCreateOrder, At
  <2>4. QED
    BY <1>1, <2>1, <2>2, <2>3, OnlyCommitsPublish
<1>2. TxInv /\ DraftsInTheirColumns /\ [TxNext]_txVars =>
        [\A r \in Requests, o \in Orders : At(r, "commit") /\ ~At(r, "commit")' /\ Exists(o)
           => DiffersInItsColumns(req[r].op, order[o], order'[o])]_txVars
  BY <1>1
<1>3. QED
  BY <1>2, TxInductive, ColumnsInductive, PTL DEF TxSpec, OthersColumnsSurvive

-----------------------------------------------------------------------------
(* Deadlocks *)

\* In a smallest set of requests that wait for each other each is waited for: the others
\* would be stuck without one that is not.
LEMMA EachIsWaitedFor ==
  ASSUME NEW S \in SUBSET Requests, Deadlocked(S), NEW q \in S
  PROVE  \E p \in S : WaitsFor(p, q)
<1> DEFINE stuck(T) == T # {} /\ \A r \in T : \E p \in T : WaitsFor(r, p)
<1>1. stuck(S) /\ \A T \in SUBSET S : stuck(T) => T = S
  BY DEF Deadlocked
<1>2. SUFFICES ASSUME \A p \in S : ~WaitsFor(p, q) PROVE FALSE
  OBVIOUS
<1> DEFINE T == S \ {q}
<1>3. \A r \in T : \E p \in T : WaitsFor(r, p)
  BY <1>1, <1>2
<1>4. T # {}
  BY <1>1 DEF WaitsFor
<1>5. T \in SUBSET S /\ T # S
  OBVIOUS
<1>6. QED
  BY <1>1, <1>3, <1>4, <1>5

\* Everyone in a deadlock holds something another one wants, and wants something itself.
\* Requests that hold rows only want a tab, which nobody but Settle holds while it waits,
\* or the next order of the loop of Settle or of DeleteSettlement.
LEMMA DeadlockCause ==
  TxInv /\ KeepsToItsHandler => DeadlockNeedsSettleOrTwoDeletes
<1> SUFFICES ASSUME TxInv, KeepsToItsHandler, NEW S \in SUBSET Requests, Deadlocked(S),
                    \A r \in S : req[r].op # "Settle"
             PROVE  \A r \in S : req[r].op = "DeleteSettlement"
  BY DEF DeadlockNeedsSettleOrTwoDeletes
<1>1. \A r \in S : \E q \in S : WaitsFor(r, q)
  BY DEF Deadlocked
<1>2. ASSUME NEW r \in Requests
      PROVE  /\ req[r].deleted # {} => req[r].pc \in {"setTotal", "commit"}
             /\ At(r, "pay") => req[r].op = "Settle"
             /\ \A s \in Settlements : lock[s] = r => req[r].pc \in {"pay", "commit"}
  BY StatementOf DEF TxInv, EditIsWhole, OwnsItsTab
<1>3. ASSUME NEW r \in Requests, NEW q \in Requests, NEW row \in Wanted(r), lock[row] = q
      PROVE  /\ row \in Orders \cup Settlements
             /\ req[r].pc \in {"writeTotal", "drop", "insert"} => row \in Settlements
  <2>1. KnowsItsRows(r) /\ req[r] \in ReqRow
    BY DEF TxInv, TxTypeOK
  <2>2. CASE req[r].pc \in {"setStatus", "setTotal", "link"}
    BY <1>3, <2>1, <2>2 DEF Wanted, KnowsItsRows
  <2>3. CASE req[r].pc \in {"pay", "clear"}
    BY <1>3, <2>1, <2>3 DEF Wanted, KnowsItsRows, ReqRow
  <2>4. CASE req[r].pc \in {"writeTotal", "drop", "insert"}
    BY <1>3, <2>1, <2>4 DEF Wanted, KnowsItsRows
  <2>5. QED
    BY <1>3, <2>2, <2>3, <2>4 DEF Wanted
<1>4. ASSUME NEW q \in S, NEW p \in S, WaitsFor(p, q)
      PROVE  req[q].pc \in Holding \/ At(p, "replaceItems")
  BY <1>3, <1>4 DEF WaitsFor, KeepsToItsHandler, LocksLate, Holding
<1>5. \A p \in S : ~At(p, "replaceItems")
  <2> SUFFICES ASSUME NEW p \in S, At(p, "replaceItems") PROVE FALSE
    OBVIOUS
  <2>1. PICK q \in S : WaitsFor(q, p)
    BY EachIsWaitedFor
  <2>2. req[p].deleted = {}
    BY <1>2 DEF At
  <2>3. \E row \in Wanted(q) : lock[row] = p
    BY <2>1, <2>2 DEF WaitsFor
  <2>4. QED
    BY <1>3, <2>3 DEF KeepsToItsHandler, LocksLate, At
<1>6. \A q \in S : req[q].pc \in Holding
  BY <1>4, <1>5, EachIsWaitedFor
<1>7. ASSUME NEW r \in S PROVE At(r, "clear")
  <2>1. PICK q \in S : WaitsFor(r, q)
    BY <1>1
  <2>2. PICK row \in Wanted(r) : lock[row] = q
    BY <1>5, <2>1 DEF WaitsFor
  <2>3. req[r].pc \in {"writeTotal", "pay", "clear", "drop"}
    BY <1>6, <2>2 DEF Wanted, Holding
  <2>4. ~At(q, "commit") /\ ~At(q, "pay")
    <3>1. \E p \in S : WaitsFor(q, p)
      BY <1>1
    <3>2. QED
      BY <1>2, <3>1 DEF WaitsFor, Wanted, At
  <2>5. row \notin Settlements
    BY <1>2, <2>2, <2>4 DEF At
  <2>6. QED
    BY <1>2, <1>3, <2>2, <2>3, <2>5 DEF At
<1>8. QED
  BY <1>7, StatementOf DEF At

\* However many requests wait for each other in a circle: one of them settles a tab, or all
\* of them delete one.
THEOREM DeadlocksHaveOneCause == TxSpec => []DeadlockNeedsSettleOrTwoDeletes
  BY DeadlockCause, TxInductive, HandlersKept, PTL
=============================================================================
