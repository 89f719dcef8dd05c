------------------------- MODULE OrderBookTxRefines -------------------------
(***************************************************************************)
(* Proof that OrderBookTx, when it serves one request at a time,           *)
(* implements OrderBook: the statements of a request add up to one         *)
(* handler, wherever the request fails.                                    *)
(*                                                                         *)
(* SerialInv says at every label what a request has found and written so   *)
(* far.  First each statement is shown to add its part; then a commit      *)
(* publishes what the handler promises, and everything else is invisible,  *)
(* except that an edit ends with its recalculation.                        *)
(***************************************************************************)
EXTENDS OrderBookTxProofs

OneRequest == \A p, q \in Requests : p = q

\* What a request may rely on when it has the database to itself.
Serial == OneRequest /\ TxInv /\ KeepsToItsHandler /\ SerialInv

-----------------------------------------------------------------------------
(* Shapes of a step *)

\* Who is alone sees the latest version of every row.
LEMMA SeesLatest ==
  ASSUME Serial, NEW r \in Requests
  PROVE  OrdersSeenBy(r) = orderDraft /\ SettlementsSeenBy(r) = settlementDraft
<1>1. /\ orderDraft \in [Orders -> OrderRow] /\ settlementDraft \in [Settlements -> SettlementRow]
      /\ lock \in [Orders \cup Settlements -> Requests \cup {Free}]
  BY DEF Serial, TxInv, TxTypeOK
<1>2. \A row \in Orders \cup Settlements : lock[row] = r \/ lock[row] = Free
  BY <1>1 DEF Serial, OneRequest
<1>3. /\ \A o \in Orders : lock[o] # r => orderDraft[o] = order[o]
      /\ \A s \in Settlements : lock[s] # r => settlementDraft[s] = settlement[s]
  BY <1>2 DEF Serial, SerialInv, FreeRowsAreCommitted
<1>4. OrdersSeenBy(r) = orderDraft
  BY <1>1, <1>3 DEF OrdersSeenBy
<1>5. SettlementsSeenBy(r) = settlementDraft
  BY <1>1, <1>3 DEF SettlementsSeenBy
<1>6. QED
  BY <1>4, <1>5

\* Nobody else has to be looked at.
LEMMA JustOne ==
  ASSUME OneRequest, NEW r \in Requests, FreeRowsAreCommitted', SoFar(r)'
  PROVE  SerialInv'
  BY DEF OneRequest, SerialInv

LEMMA ReadKeepsRows ==
  ASSUME Serial, ReadOnly
  PROVE  FreeRowsAreCommitted'
  BY DEF Serial, SerialInv, FreeRowsAreCommitted, ReadOnly

LEMMA OrderWriteKeepsRows ==
  ASSUME Serial, NEW r \in Requests, NEW o \in Orders, NEW row, UpdateOrderRow(r, o, row)
  PROVE  /\ FreeRowsAreCommitted'
         /\ orderDraft' = [orderDraft EXCEPT ![o] = row]
         /\ UNCHANGED <<order, settlement, settlementDraft>>
<1>1. /\ orderDraft \in [Orders -> OrderRow]
      /\ lock \in [Orders \cup Settlements -> Requests \cup {Free}]
  BY DEF Serial, TxInv, TxTypeOK
<1>2. /\ lock' = [lock EXCEPT ![o] = r] /\ orderDraft' = [orderDraft EXCEPT ![o] = row]
      /\ UNCHANGED <<order, settlement, settlementDraft>>
  BY DEF UpdateOrderRow, Take
<1>3. \A x \in Orders \cup Settlements : lock'[x] = Free => x # o /\ lock[x] = Free
  BY <1>1, <1>2, RowsAssumption
<1>4. QED
  BY <1>1, <1>2, <1>3 DEF Serial, SerialInv, FreeRowsAreCommitted

LEMMA TabWriteKeepsRows ==
  ASSUME Serial, NEW r \in Requests, NEW s \in Settlements, NEW row,
         UpdateSettlementRow(r, s, row)
  PROVE  /\ FreeRowsAreCommitted'
         /\ settlementDraft' = [settlementDraft EXCEPT ![s] = row]
         /\ UNCHANGED <<order, settlement, orderDraft>>
<1>1. /\ settlementDraft \in [Settlements -> SettlementRow]
      /\ lock \in [Orders \cup Settlements -> Requests \cup {Free}]
  BY DEF Serial, TxInv, TxTypeOK
<1>2. /\ lock' = [lock EXCEPT ![s] = r] /\ settlementDraft' = [settlementDraft EXCEPT ![s] = row]
      /\ UNCHANGED <<order, settlement, orderDraft>>
  BY DEF UpdateSettlementRow, Take
<1>3. \A x \in Orders \cup Settlements : lock'[x] = Free => x # s /\ lock[x] = Free
  BY <1>1, <1>2, RowsAssumption
<1>4. QED
  BY <1>1, <1>2, <1>3 DEF Serial, SerialInv, FreeRowsAreCommitted

LEMMA GotoKeeps ==
  ASSUME TxInv, NEW r \in Requests, NEW label, Goto(r, label)
  PROVE  /\ req'[r].pc = label /\ req'[r].op = req[r].op
         /\ req'[r].o = req[r].o /\ req'[r].s = req[r].s
         /\ req'[r].amount = req[r].amount /\ req'[r].status = req[r].status
         /\ req'[r].current = req[r].current /\ req'[r].sum = req[r].sum
         /\ req'[r].todo = req[r].todo /\ req'[r].bill = req[r].bill
<1>1. req[r] \in ReqRow /\ req'[r] = [req[r] EXCEPT !.pc = label]
  BY DEF TxInv, TxTypeOK, Goto
<1>2. QED
  BY <1>1 DEF ReqRow

\* Before its first UPDATE, and after its end, a request leaves every row as committed.
LEMMA RollbackSerial ==
  ASSUME Serial, NEW r \in Requests, Rollback(r)
  PROVE  SerialInv' /\ UNCHANGED <<order, settlement>> /\ req'[r] = IdleRequest
<1>1. /\ order \in [Orders -> OrderRow] /\ settlement \in [Settlements -> SettlementRow]
      /\ lock \in [Orders \cup Settlements -> Requests \cup {Free}]
      /\ req \in [Requests -> ReqRow]
  BY DEF Serial, TxInv, TxTypeOK, TypeOK
<1>2. \A row \in Orders \cup Settlements : lock[row] = r \/ lock[row] = Free
  BY <1>1 DEF Serial, OneRequest
<1>3. /\ \A o \in Orders : lock[o] # r => orderDraft[o] = order[o]
      /\ \A s \in Settlements : lock[s] # r => settlementDraft[s] = settlement[s]
  BY <1>2 DEF Serial, SerialInv, FreeRowsAreCommitted
<1>4. orderDraft' = order /\ UNCHANGED <<order, settlement>>
  BY <1>1, <1>3 DEF Rollback
<1>5. settlementDraft' = settlement
  BY <1>1, <1>3 DEF Rollback
<1>6. req'[r] = IdleRequest
  BY <1>1 DEF Rollback
<1>7. SoFar(r)'
  BY <1>4, <1>5, <1>6 DEF SoFar, IdleRequest
<1>8. FreeRowsAreCommitted'
  BY <1>4, <1>5 DEF FreeRowsAreCommitted
<1>9. QED
  BY <1>4, <1>6, <1>7, <1>8, JustOne DEF Serial

-----------------------------------------------------------------------------
(* What each statement adds *)

\* An idle request has written nothing.
LEMMA IdleHasNothing ==
  ASSUME Serial, NEW r \in Requests, At(r, "idle")
  PROVE  req[r].op = "none" /\ orderDraft = order /\ settlementDraft = settlement
<1>1. req[r].op = "none"
  BY DEF Serial, KeepsToItsHandler, LabelsOf, At
<1>2. QED
  BY <1>1 DEF Serial, SerialInv, SoFar

LEMMA ArrivalSerial ==
  ASSUME Serial, NEW r \in Requests, Arrival(r),
         ~\E o \in Orders, total, actual, lines \in Amounts :
            TxCreateOrder(r, o, total, actual, lines)
  PROVE  /\ SerialInv' /\ UNCHANGED <<order, settlement>>
         /\ req[r].op = "none" /\ req'[r].op # "RecalcTotalForOrder"
<1>0. /\ TxInv /\ OneRequest /\ req \in [Requests -> ReqRow]
      /\ IdleRequest \in ReqRow
  BY IdleType DEF Serial, TxInv, TxTypeOK
<1>1. ASSUME NEW op, NEW local, Arrive(r, op, local), op # "RecalcTotalForOrder"
      PROVE  /\ req[r].op = "none" /\ orderDraft = order /\ settlementDraft = settlement
             /\ UNCHANGED <<order, settlement, orderDraft, settlementDraft>>
             /\ FreeRowsAreCommitted'
             /\ req'[r] = [local EXCEPT !.op = op]
             /\ SoFar(r)' => SerialInv'
  BY <1>0, <1>1, IdleHasNothing, ReadKeepsRows, JustOne DEF Arrive, ReadOnly
<1>2. ASSUME NEW o \in Orders, NEW target \in ApiStatuses, NEW actual \in Amounts,
             ArriveUpdateStatus(r, o, target, actual)
      PROVE  /\ SerialInv' /\ UNCHANGED <<order, settlement>>
             /\ req[r].op = "none" /\ req'[r].op # "RecalcTotalForOrder"
  <2>1. PICK status \in StatusAfter(order[o].status, target) :
          Arrive(r, "UpdateOrderStatus", [IdleRequest EXCEPT !.pc = "setStatus", !.o = o,
                                                   !.status = status, !.amount = actual])
    BY <1>2 DEF ArriveUpdateStatus
  <2>2. Exists(o)
    BY <1>2 DEF ArriveUpdateStatus
  <2>3. /\ req[r].op = "none" /\ orderDraft = order /\ settlementDraft = settlement
        /\ UNCHANGED <<order, settlement, orderDraft, settlementDraft>>
        /\ SoFar(r)' => SerialInv'
    BY <1>1, <2>1, <2>2
  <2> DEFINE local == [IdleRequest EXCEPT !.pc = "setStatus", !.o = o, !.status = status,
                                          !.amount = actual]
  <2>4. req'[r] = [local EXCEPT !.op = "UpdateOrderStatus"]
    BY <1>1, <2>1, <2>2
  <2>5. /\ req'[r].op = "UpdateOrderStatus" /\ req'[r].pc = "setStatus"
        /\ req'[r].o = o /\ req'[r].status = status
    BY <2>4 DEF IdleRequest
  <2>6. StatusSoFar(r)'
    BY <2>2, <2>3, <2>5 DEF StatusSoFar, Exists, At
  <2>7. QED
    BY <2>2, <2>3, <2>5, <2>6 DEF SoFar
<1>3. ASSUME NEW o \in Orders, NEW lines \in Amounts, ArriveUpdateOrder(r, o, lines)
      PROVE  /\ SerialInv' /\ UNCHANGED <<order, settlement>>
             /\ req[r].op = "none" /\ req'[r].op # "RecalcTotalForOrder"
  <2>1. Arrive(r, "UpdateOrder", [IdleRequest EXCEPT !.pc = "selectOrder", !.o = o,
                                                     !.amount = lines])
    BY <1>3 DEF ArriveUpdateOrder
  <2>2. Editable(o)
    BY <1>3 DEF ArriveUpdateOrder
  <2>3. /\ req[r].op = "none" /\ orderDraft = order /\ settlementDraft = settlement
        /\ UNCHANGED <<order, settlement, orderDraft, settlementDraft>>
        /\ SoFar(r)' => SerialInv'
    BY <1>1, <2>1, <2>2
  <2> DEFINE local == [IdleRequest EXCEPT !.pc = "selectOrder", !.o = o, !.amount = lines]
  <2>4. req'[r] = [local EXCEPT !.op = "UpdateOrder"]
    BY <1>1, <2>1, <2>2
  <2>5. req'[r].op = "UpdateOrder" /\ req'[r].pc = "selectOrder" /\ req'[r].o = o
    BY <2>4 DEF IdleRequest
  <2>6. EditSoFar(r)'
    BY <2>2, <2>3, <2>5 DEF EditSoFar, Editable, At
  <2>7. QED
    BY <2>2, <2>3, <2>5, <2>6 DEF SoFar
<1>4. ASSUME NEW s \in Settlements, ArriveCreateSettlement(r, s)
      PROVE  /\ SerialInv' /\ UNCHANGED <<order, settlement>>
             /\ req[r].op = "none" /\ req'[r].op # "RecalcTotalForOrder"
  <2>1. Arrive(r, "CreateSettlement", [IdleRequest EXCEPT !.pc = "insert", !.s = s])
    BY <1>4 DEF ArriveCreateSettlement
  <2>2. settlement[s].row = "absent" /\ OpenFor(Customer[s]) = {}
    BY <1>4 DEF ArriveCreateSettlement
  <2>3. /\ req[r].op = "none" /\ orderDraft = order /\ settlementDraft = settlement
        /\ UNCHANGED <<order, settlement, orderDraft, settlementDraft>>
        /\ SoFar(r)' => SerialInv'
    BY <1>1, <2>1, <2>2
  <2> DEFINE local == [IdleRequest EXCEPT !.pc = "insert", !.s = s]
  <2>4. req'[r] = [local EXCEPT !.op = "CreateSettlement"]
    BY <1>1, <2>1, <2>2
  <2>5. req'[r].op = "CreateSettlement" /\ req'[r].pc = "insert" /\ req'[r].s = s
    BY <2>4 DEF IdleRequest
  <2>6. NewTabSoFar(r)'
    BY <2>2, <2>3, <2>5 DEF NewTabSoFar, OpenFor, Open, At
  <2>7. QED
    BY <2>2, <2>3, <2>5, <2>6 DEF SoFar
<1>5. ASSUME NEW op \in Ops, NEW s \in Settlements, NEW o \in Orders, ArriveRelink(r, op, s, o)
      PROVE  /\ SerialInv' /\ UNCHANGED <<order, settlement>>
             /\ req[r].op = "none" /\ req'[r].op # "RecalcTotalForOrder"
  <2>1. Arrive(r, op, [IdleRequest EXCEPT !.pc = "readOrder", !.s = s, !.o = o])
    BY <1>5 DEF ArriveRelink
  <2>2. Open(s) /\ op \in {"AddOrder", "RemoveOrder"}
    BY <1>5 DEF ArriveRelink
  <2>3. /\ req[r].op = "none" /\ orderDraft = order /\ settlementDraft = settlement
        /\ UNCHANGED <<order, settlement, orderDraft, settlementDraft>>
        /\ SoFar(r)' => SerialInv'
    BY <1>1, <2>1, <2>2
  <2> DEFINE local == [IdleRequest EXCEPT !.pc = "readOrder", !.s = s, !.o = o]
  <2>4. req'[r] = [local EXCEPT !.op = op]
    BY <1>1, <2>1, <2>2
  <2>5. req'[r].op = op /\ req'[r].pc = "readOrder" /\ req'[r].s = s /\ req'[r].o = o
    BY <2>4 DEF IdleRequest
  <2>6. RelinkSoFar(r)'
    BY <2>2, <2>3, <2>5 DEF RelinkSoFar, Open, At
  <2>7. QED
    BY <2>2, <2>3, <2>5, <2>6 DEF SoFar
<1>6. ASSUME NEW s \in Settlements, NEW actual \in Amounts, ArriveSettle(r, s, actual)
      PROVE  /\ SerialInv' /\ UNCHANGED <<order, settlement>>
             /\ req[r].op = "none" /\ req'[r].op # "RecalcTotalForOrder"
  <2>1. Arrive(r, "Settle", [IdleRequest EXCEPT !.pc = "readOrders", !.s = s, !.amount = actual])
    BY <1>6 DEF ArriveSettle
  <2>2. Open(s) /\ actual >= 0
    BY <1>6 DEF ArriveSettle
  <2>3. /\ req[r].op = "none" /\ orderDraft = order /\ settlementDraft = settlement
        /\ UNCHANGED <<order, settlement, orderDraft, settlementDraft>>
        /\ SoFar(r)' => SerialInv'
    BY <1>1, <2>1, <2>2
  <2> DEFINE local == [IdleRequest EXCEPT !.pc = "readOrders", !.s = s, !.amount = actual]
  <2>4. req'[r] = [local EXCEPT !.op = "Settle"]
    BY <1>1, <2>1, <2>2
  <2>5. req'[r].op = "Settle" /\ req'[r].pc = "readOrders" /\ req'[r].s = s /\ req'[r].amount = actual
    BY <2>4 DEF IdleRequest
  <2>6. SettleSoFar(r)'
    BY <2>2, <2>3, <2>5 DEF SettleSoFar, Open, At
  <2>7. QED
    BY <2>2, <2>3, <2>5, <2>6 DEF SoFar
<1>7. ASSUME NEW s \in Settlements, ArriveDelete(r, s)
      PROVE  /\ SerialInv' /\ UNCHANGED <<order, settlement>>
             /\ req[r].op = "none" /\ req'[r].op # "RecalcTotalForOrder"
  <2>1. Arrive(r, "DeleteSettlement", [IdleRequest EXCEPT !.pc = "readOrders", !.s = s])
    BY <1>7 DEF ArriveDelete
  <2>2. Open(s)
    BY <1>7 DEF ArriveDelete
  <2>3. /\ req[r].op = "none" /\ orderDraft = order /\ settlementDraft = settlement
        /\ UNCHANGED <<order, settlement, orderDraft, settlementDraft>>
        /\ SoFar(r)' => SerialInv'
    BY <1>1, <2>1, <2>2
  <2> DEFINE local == [IdleRequest EXCEPT !.pc = "readOrders", !.s = s]
  <2>4. req'[r] = [local EXCEPT !.op = "DeleteSettlement"]
    BY <1>1, <2>1, <2>2
  <2>5. req'[r].op = "DeleteSettlement" /\ req'[r].pc = "readOrders" /\ req'[r].s = s
    BY <2>4 DEF IdleRequest
  <2>6. DeleteSoFar(r)'
    BY <2>2, <2>3, <2>5 DEF DeleteSoFar, Open, At
  <2>7. QED
    BY <2>2, <2>3, <2>5, <2>6 DEF SoFar
<1>8. QED
  BY <1>2, <1>3, <1>4, <1>5, <1>6, <1>7 DEF Arrival

LEMMA SetStatusSerial ==
  ASSUME Serial, NEW r \in Requests, SetStatus(r)
  PROVE  SerialInv'
<1> DEFINE o == req[r].o
           row == WithStatus(orderDraft[o], req[r].status, req[r].amount)
<1>1. TxInv /\ OneRequest /\ At(r, "setStatus") /\ Goto(r, "commit") /\ UpdateOrderRow(r, o, row)
  BY DEF Serial, SetStatus
<1>2. req[r].op = "UpdateOrderStatus" /\ StatusSoFar(r)
  BY <1>1, StatementOf DEF Serial, SerialInv, SoFar
<1>3. o \in Orders /\ orderDraft = order /\ settlementDraft = settlement
  BY <1>1, <1>2 DEF StatusSoFar, At
<1>4. /\ FreeRowsAreCommitted' /\ UNCHANGED <<order, settlement, settlementDraft>>
      /\ orderDraft' = [orderDraft EXCEPT ![o] = row]
  BY <1>1, <1>3, OrderWriteKeepsRows
<1>5. /\ req'[r].pc = "commit" /\ req'[r].op = req[r].op /\ req'[r].o = o
      /\ req'[r].status = req[r].status /\ req'[r].amount = req[r].amount
  BY <1>1, GotoKeeps
<1>6. StatusSoFar(r)'
  BY <1>2, <1>3, <1>4, <1>5 DEF StatusSoFar, Exists, At
<1>7. QED
  BY <1>1, <1>2, <1>4, <1>5, <1>6, JustOne DEF SoFar

LEMMA EditSerial ==
  ASSUME Serial, NEW r \in Requests,
         SelectOrder(r) \/ FindItems(r) \/ ReplaceItems(r) \/ SetTotal(r)
  PROVE  SerialInv'
<1> DEFINE o == req[r].o
<1>1. /\ TxInv /\ OneRequest /\ req[r] \in ReqRow /\ req \in [Requests -> ReqRow]
      /\ req[r].pc \in {"selectOrder", "findItems", "replaceItems", "setTotal"}
      /\ order \in [Orders -> OrderRow]
  BY DEF Serial, TxInv, TxTypeOK, TypeOK, SelectOrder, FindItems, ReplaceItems, SetTotal, At
<1>2. req[r].op = "UpdateOrder" /\ EditSoFar(r)
  BY <1>1, StatementOf DEF Serial, SerialInv, SoFar
<1>3. o \in Orders /\ orderDraft = order /\ settlementDraft = settlement
  BY <1>1, <1>2 DEF EditSoFar, TxInv, KnowsItsRows, At
<1>4. CASE SetTotal(r)
  <2> DEFINE row == Repriced(orderDraft[o], req[r].current, req[r].amount)
  <2>1. At(r, "setTotal") /\ Goto(r, "commit") /\ UpdateOrderRow(r, o, row)
    BY <1>4 DEF SetTotal
  <2>2. /\ FreeRowsAreCommitted' /\ UNCHANGED <<order, settlement, settlementDraft>>
        /\ orderDraft' = [orderDraft EXCEPT ![o] = row]
    BY <1>3, <2>1, OrderWriteKeepsRows
  <2>3. /\ req'[r].pc = "commit" /\ req'[r].op = req[r].op /\ req'[r].o = o
        /\ req'[r].current = req[r].current /\ req'[r].amount = req[r].amount
    BY <1>1, <2>1, GotoKeeps
  <2>4. req[r].current = order[o]
    BY <1>2, <2>1 DEF EditSoFar, At
  <2>5. EditSoFar(r)'
    BY <1>2, <1>3, <2>2, <2>3, <2>4 DEF EditSoFar, Editable, At
  <2>6. QED
    BY <1>1, <1>2, <2>2, <2>3, <2>5, JustOne DEF SoFar
<1>5. CASE ~SetTotal(r)
  <2>1. /\ ReadOnly /\ req'[r].op = req[r].op /\ req'[r].o = o
        /\ req'[r].pc \in {"findItems", "replaceItems", "setTotal"}
        /\ req'[r].current = order[o]
    <3>1. CASE SelectOrder(r)
      BY <1>1, <3>1 DEF SelectOrder, ReqRow
    <3>2. CASE FindItems(r)
      <4>1. req[r].current = order[o]
        BY <1>2, <3>2 DEF FindItems, EditSoFar, At
      <4>2. QED
        BY <1>1, <3>2, <4>1 DEF FindItems, ReqRow
    <3>3. CASE ReplaceItems(r)
      <4>1. req[r].current = order[o]
        BY <1>2, <3>3 DEF ReplaceItems, EditSoFar, At
      <4>2. QED
        BY <1>1, <3>3, <4>1 DEF ReplaceItems, ReqRow
    <3>4. QED
      BY <1>5, <3>1, <3>2, <3>3
  <2>2. EditSoFar(r)'
    BY <1>2, <1>3, <2>1 DEF EditSoFar, Editable, At, ReadOnly
  <2>3. QED
    BY <1>1, <1>2, <2>1, <2>2, ReadKeepsRows, JustOne DEF SoFar
<1>6. QED
  BY <1>4, <1>5

LEMMA InsertSerial ==
  ASSUME Serial, NEW r \in Requests, InsertSettlement(r)
  PROVE  SerialInv'
<1> DEFINE s == req[r].s
<1>1. /\ TxInv /\ OneRequest /\ At(r, "insert") /\ Goto(r, "commit")
      /\ UpdateSettlementRow(r, s, NewSettlement("live"))
  BY DEF Serial, InsertSettlement
<1>2. req[r].op = "CreateSettlement" /\ NewTabSoFar(r)
  BY <1>1, StatementOf DEF Serial, SerialInv, SoFar
<1>3. s \in Settlements /\ orderDraft = order /\ settlementDraft = settlement
  BY <1>1, <1>2 DEF NewTabSoFar, At
<1>4. /\ FreeRowsAreCommitted' /\ UNCHANGED <<order, settlement, orderDraft>>
      /\ settlementDraft' = [settlementDraft EXCEPT ![s] = NewSettlement("live")]
  BY <1>1, <1>3, TabWriteKeepsRows
<1>5. req'[r].pc = "commit" /\ req'[r].op = req[r].op /\ req'[r].s = s
  BY <1>1, GotoKeeps
<1>6. NewTabSoFar(r)'
  BY <1>2, <1>3, <1>4, <1>5 DEF NewTabSoFar, OpenFor, Open, At
<1>7. QED
  BY <1>1, <1>2, <1>4, <1>5, <1>6, JustOne DEF SoFar

LEMMA FindSerial ==
  ASSUME Serial, NEW r \in Requests, FindLink(r) \/ FindTab(r), ~Rollback(r)
  PROVE  SerialInv'
<1>1. /\ TxInv /\ OneRequest /\ req[r] \in ReqRow /\ req \in [Requests -> ReqRow]
      /\ At(r, "findLink") \/ At(r, "findTab")
      /\ order \in [Orders -> OrderRow]
  BY DEF Serial, TxInv, TxTypeOK, TypeOK, FindLink, FindTab
<1>2. req[r].op = "RecalcTotalForOrder" /\ RecalcSoFar(r)
  BY <1>1, StatementOf DEF Serial, SerialInv, SoFar, At
<1>3. /\ ReadOnly /\ req'[r].op = req[r].op /\ req'[r].o = req[r].o
      /\ req'[r].current = req[r].current /\ req'[r].amount = req[r].amount
      /\ req'[r].s = order[req[r].o].settlement /\ req'[r].s \in Settlements
      /\ \/ req'[r].pc = "findTab"
         \/ req'[r].pc = "sum" /\ Open(req'[r].s)
  <2>1. CASE FindLink(r)
    <3>1. /\ ReadOnly /\ order[req[r].o].settlement # Null
          /\ req' = [req EXCEPT ![r].pc = "findTab", ![r].s = order[req[r].o].settlement]
      BY <2>1 DEF FindLink
    <3>2. order[req[r].o].settlement \in Settlements
      BY <1>1, <1>2, <3>1 DEF RecalcSoFar, OrderRow
    <3>3. QED
      BY <1>1, <3>1, <3>2 DEF ReqRow
  <2>2. CASE FindTab(r)
    <3>1. ReadOnly /\ Open(req[r].s) /\ Goto(r, "sum") /\ At(r, "findTab")
      BY <2>2 DEF FindTab
    <3>2. req[r].s = order[req[r].o].settlement /\ req[r].s \in Settlements
      BY <1>2, <3>1 DEF RecalcSoFar, At
    <3>3. QED
      BY <1>1, <3>1, <3>2, GotoKeeps
  <2>3. QED
    BY <2>1, <2>2
<1>4. RecalcSoFar(r)'
  BY <1>1, <1>2, <1>3 DEF RecalcSoFar, Open, At, ReadOnly
<1>5. QED
  BY <1>1, <1>2, <1>3, <1>4, ReadKeepsRows, JustOne DEF SoFar

LEMMA RelinkSerial ==
  ASSUME Serial, NEW r \in Requests, ReadOrder(r) \/ Link(r), ~Rollback(r)
  PROVE  SerialInv'
<1> DEFINE o == req[r].o
           s == req[r].s
           adding == req[r].op = "AddOrder"
<1>1. TxInv /\ OneRequest /\ req[r].pc \in {"readOrder", "link"}
  BY DEF Serial, ReadOrder, Link, At
<1>2. req[r].op \in {"AddOrder", "RemoveOrder"} /\ RelinkSoFar(r)
  BY <1>1, StatementOf DEF Serial, SerialInv, SoFar
<1>3. o \in Orders /\ orderDraft = order /\ settlementDraft = settlement
  BY <1>1, <1>2 DEF RelinkSoFar, At
<1>4. CASE ReadOrder(r)
  <2>1. /\ ReadOnly /\ Goto(r, "link")
        /\ IF adding THEN order[o].status \notin {"NONE", "CANCELLED"} /\ order[o].settlement = Null
                     ELSE order[o].settlement = s
    BY <1>4 DEF ReadOrder
  <2>2. req'[r].pc = "link" /\ req'[r].op = req[r].op /\ req'[r].o = o /\ req'[r].s = s
    BY <1>1, <2>1, GotoKeeps
  <2>3. RelinkSoFar(r)'
    BY <1>2, <1>3, <2>1, <2>2 DEF RelinkSoFar, Open, Exists, At, ReadOnly
  <2>4. QED
    BY <1>1, <1>2, <2>1, <2>2, <2>3, ReadKeepsRows, JustOne DEF SoFar
<1>5. CASE Link(r)
  <2> DEFINE link == IF adding THEN s ELSE Null
             row == [orderDraft[o] EXCEPT !.settlement = link]
  <2>1. At(r, "link") /\ Goto(r, "sum") /\ UpdateOrderRow(r, o, row)
    BY <1>5 DEF Link
  <2>2. /\ FreeRowsAreCommitted' /\ UNCHANGED <<order, settlement, settlementDraft>>
        /\ orderDraft' = [orderDraft EXCEPT ![o] = row]
    BY <1>3, <2>1, OrderWriteKeepsRows
  <2>3. req'[r].pc = "sum" /\ req'[r].op = req[r].op /\ req'[r].o = o /\ req'[r].s = s
    BY <1>1, <2>1, GotoKeeps
  <2>4. orderDraft' = [order EXCEPT ![o].settlement = link]
    BY <1>3, <2>2
  <2>5. RelinkSoFar(r)'
    BY <1>2, <1>3, <2>1, <2>2, <2>3, <2>4 DEF RelinkSoFar, Open, Exists, At
  <2>6. QED
    BY <1>1, <1>2, <2>2, <2>3, <2>5, JustOne DEF SoFar
<1>6. QED
  BY <1>4, <1>5

\* A query lists each row it finds.
LEMMA ListingsComplete ==
  ASSUME NEW S \in SUBSET Orders, NEW list \in Listings(S)
  PROVE  list \in Seq(Orders) /\ Range(list) = S
<1> DEFINE n == Cardinality(S)
<1>1. IsFiniteSet(S) /\ n \in Nat
  BY FiniteOrdersAssumption, FS_Subset, FS_CardinalityType
<1>2. list \in [1 .. n -> S] /\ \A i, j \in 1 .. n : list[i] = list[j] => i = j
  BY DEF Listings
<1>3. list \in Injection(1 .. n, S)
  BY <1>2 DEF Injection, IsInjective
<1>4. Cardinality(1 .. n) = n
  BY <1>1, FS_Interval
<1>5. list \in Surjection(1 .. n, S)
  BY <1>1, <1>3, <1>4, FS_Injection
<1>6. Range(list) = S
  BY <1>2, <1>5 DEF Range, Surjection
<1>7. QED
  BY <1>6, ListingsType

\* What is left of a list without its head.
LEMMA RangeOfTail ==
  ASSUME NEW list \in Seq(Orders), list # << >>
  PROVE  /\ Head(list) \in Range(list)
         /\ Range(Tail(list)) \subseteq Range(list)
         /\ \A o \in Range(list) : o = Head(list) \/ o \in Range(Tail(list))
<1>1. Len(list) \in Nat \ {0} /\ DOMAIN list = 1 .. Len(list) /\ Head(list) = list[1]
  OBVIOUS
<1>2. /\ Len(Tail(list)) = Len(list) - 1 /\ DOMAIN Tail(list) = 1 .. Len(Tail(list))
      /\ \A i \in 1 .. Len(Tail(list)) : Tail(list)[i] = list[i + 1]
  OBVIOUS
<1>3. Head(list) \in Range(list)
  BY <1>1 DEF Range
<1>4. Range(Tail(list)) \subseteq Range(list)
  BY <1>1, <1>2 DEF Range
<1>5. ASSUME NEW i \in 1 .. Len(list), i # 1 PROVE list[i] \in Range(Tail(list))
  <2>1. i - 1 \in 1 .. Len(Tail(list)) /\ Tail(list)[i - 1] = list[i]
    BY <1>1, <1>2, <1>5
  <2>2. QED
    BY <1>2, <2>1 DEF Range
<1>6. \A o \in Range(list) : o = Head(list) \/ o \in Range(Tail(list))
  BY <1>1, <1>5 DEF Range
<1>7. QED
  BY <1>3, <1>4, <1>6

LEMMA ReadOrdersSerial ==
  ASSUME Serial, NEW r \in Requests, ReadOrders(r), ~Rollback(r)
  PROVE  SerialInv'
<1> DEFINE s == req[r].s
<1>1. /\ TxInv /\ OneRequest /\ At(r, "readOrders") /\ ReadOnly
      /\ req[r] \in ReqRow /\ req \in [Requests -> ReqRow]
      /\ order \in [Orders -> OrderRow]
  BY OrdersLoaded DEF Serial, TxInv, TxTypeOK, TypeOK
<1>2. PICK list \in Listings(ToWrite(r)) : req' = [req EXCEPT ![r] = Loaded(r, list)]
  BY OrdersLoaded
<1>3. list \in Seq(Orders) /\ Range(list) = ToWrite(r)
  BY <1>2, ListingsComplete DEF ToWrite, Charged, Linked
<1>4. req'[r] = Loaded(r, list)
  BY <1>1, <1>2
<1>5. /\ req'[r].op = req[r].op /\ req'[r].s = s /\ req'[r].amount = req[r].amount
      /\ req'[r].todo = list
      /\ req'[r].pc = IF req[r].op = "Settle" THEN "sum"
                      ELSE IF list = << >> THEN "drop" ELSE "clear"
      /\ req'[r].bill = [o \in Orders |-> IF o \in ToWrite(r) /\ req[r].op = "Settle"
                                            THEN order[o].total ELSE 0]
  BY <1>1, <1>4 DEF Loaded, ReqRow
<1>6. UNCHANGED <<order, settlement, orderDraft, settlementDraft>>
  BY <1>1 DEF ReadOnly
<1>7. CASE req[r].op = "Settle"
  <2>1. SettleSoFar(r) /\ orderDraft = order /\ settlementDraft = settlement
    BY <1>1, <1>7 DEF Serial, SerialInv, SoFar, SettleSoFar, At
  <2>2. Linked(s) # {} /\ ToWrite(r) = Charged(order, s)
    BY <1>1, <1>7 DEF ReadOrders, ToWrite
  <2>3. LoopSoFar(r, Charged(order, s),
                  [o \in Orders |-> [order[o] EXCEPT !.actual = order[o].total]])'
    BY <1>3, <1>5, <1>6, <2>1, <2>2 DEF LoopSoFar, Charged
  <2>4. \A o \in Charged(order, s) : req'[r].bill[o] = order[o].total
    BY <1>5, <1>7, <2>2 DEF Charged
  <2>5. Linked(s)' = Linked(s)
    BY <1>5, <1>6 DEF Linked
  <2> HIDE DEF s
  <2>6. SettleSoFar(r)'
    BY <1>1, <1>5, <1>6, <1>7, <2>1, <2>2, <2>3, <2>4, <2>5 DEF SettleSoFar, Open, At, s
  <2>7. QED
    BY <1>1, <1>5, <1>7, <2>6, ReadKeepsRows, JustOne DEF SoFar
<1>8. CASE req[r].op = "DeleteSettlement"
  <2>1. DeleteSoFar(r) /\ orderDraft = order /\ settlementDraft = settlement
    BY <1>1, <1>8 DEF Serial, SerialInv, SoFar, DeleteSoFar, At
  <2>2. ToWrite(r) = Linked(s) /\ Linked(s)' = Linked(s)
    BY <1>5, <1>6, <1>8 DEF ToWrite, Linked
  <2>3. LoopSoFar(r, Linked(s), [o \in Orders |-> [order[o] EXCEPT !.settlement = Null]])'
    BY <1>3, <1>5, <1>6, <2>1, <2>2 DEF LoopSoFar
  <2>4. DeleteSoFar(r)'
    BY <1>1, <1>5, <1>6, <1>8, <2>1, <2>2, <2>3 DEF DeleteSoFar, Open, At
  <2>5. QED
    BY <1>1, <1>5, <1>8, <2>4, ReadKeepsRows, JustOne DEF SoFar
<1>9. QED
  BY <1>1, <1>7, <1>8, StatementOf DEF Serial

LEMMA SumSerial ==
  ASSUME Serial, NEW r \in Requests, SumOrders(r)
  PROVE  SerialInv'
<1> DEFINE s == req[r].s
           total == Receivable(OrdersSeenBy(r), s)
<1>1. /\ TxInv /\ OneRequest /\ At(r, "sum") /\ ReadOnly
      /\ req[r] \in ReqRow /\ req \in [Requests -> ReqRow]
  BY DEF Serial, TxInv, TxTypeOK, SumOrders
<1>2. total = Receivable(orderDraft, s)
  BY SeesLatest
<1>3. /\ req'[r].pc = "writeTotal" /\ req'[r].op = req[r].op /\ req'[r].s = s
      /\ req'[r].o = req[r].o /\ req'[r].amount = req[r].amount
      /\ req'[r].current = req[r].current
      /\ req'[r].todo = req[r].todo /\ req'[r].bill = req[r].bill
      /\ req'[r].sum = Receivable(orderDraft, s)
  BY <1>1, <1>2 DEF SumOrders, ReqRow
<1>4. UNCHANGED <<order, settlement, orderDraft, settlementDraft>>
  BY <1>1 DEF ReadOnly
<1>5. SoFar(r)
  BY DEF Serial, SerialInv
<1> HIDE DEF s, total
<1>6. CASE req[r].op = "RecalcTotalForOrder"
  <2>1. RecalcSoFar(r)'
    BY <1>1, <1>3, <1>4, <1>5, <1>6 DEF SoFar, RecalcSoFar, Open, At, s
  <2>2. QED
    BY <1>1, <1>3, <1>6, <2>1, ReadKeepsRows, JustOne DEF SoFar
<1>7. CASE req[r].op \in {"AddOrder", "RemoveOrder"}
  <2>1. RelinkSoFar(r)'
    BY <1>1, <1>3, <1>4, <1>5, <1>7 DEF SoFar, RelinkSoFar, Open, Exists, At, s
  <2>2. QED
    BY <1>1, <1>3, <1>7, <2>1, ReadKeepsRows, JustOne DEF SoFar
<1>8. CASE req[r].op = "Settle"
  <2>1. SettleSoFar(r) /\ orderDraft = order
    BY <1>1, <1>5, <1>8 DEF SoFar, SettleSoFar, At
  <2>2. Linked(s)' = Linked(s) /\ (s)' = s
    BY <1>3, <1>4 DEF Linked, s
  <2>3. LoopSoFar(r, Charged(order, s),
                  [o \in Orders |-> [order[o] EXCEPT !.actual = order[o].total]])'
    <3>1. LoopSoFar(r, Charged(order, s),
                    [o \in Orders |-> [order[o] EXCEPT !.actual = order[o].total]])
      BY <1>1, <2>1 DEF SettleSoFar, At, s
    <3>2. QED
      BY <1>3, <1>4, <2>2, <3>1 DEF LoopSoFar
  <2>4. SettleSoFar(r)'
    BY <1>1, <1>3, <1>4, <2>1, <2>2, <2>3 DEF SettleSoFar, Open, At, s
  <2>5. QED
    BY <1>1, <1>3, <1>8, <2>4, ReadKeepsRows, JustOne DEF SoFar
<1>9. QED
  BY <1>1, <1>6, <1>7, <1>8, StatementOf DEF Serial, At

LEMMA WriteTotalSerial ==
  ASSUME Serial, NEW r \in Requests, WriteTotal(r)
  PROVE  SerialInv'
<1> DEFINE s == req[r].s
           row == [settlementDraft[s] EXCEPT !.total = req[r].sum]
<1>1. /\ TxInv /\ OneRequest /\ At(r, "writeTotal") /\ req[r].op # "Settle" /\ Goto(r, "commit")
      /\ UpdateSettlementRow(r, s, row)
  BY DEF Serial, WriteTotal
<1>2. s \in Settlements
  BY <1>1 DEF TxInv, KnowsItsRows, At
<1>3. /\ FreeRowsAreCommitted' /\ UNCHANGED <<order, settlement, orderDraft>>
      /\ settlementDraft' = [settlementDraft EXCEPT ![s] = row]
  BY <1>1, <1>2, TabWriteKeepsRows
<1>4. /\ req'[r].pc = "commit" /\ req'[r].op = req[r].op /\ req'[r].o = req[r].o
      /\ req'[r].s = s /\ req'[r].amount = req[r].amount /\ req'[r].current = req[r].current
  BY <1>1, GotoKeeps
<1>5. SoFar(r)
  BY DEF Serial, SerialInv
<1>6. CASE req[r].op = "RecalcTotalForOrder"
  <2>1. settlementDraft = settlement /\ req[r].sum = Receivable(order, s)
    BY <1>1, <1>5, <1>6 DEF SoFar, RecalcSoFar, At
  <2>2. settlementDraft' = [settlement EXCEPT ![s].total = Receivable(order, s)]
    BY <1>3, <2>1
  <2>3. RecalcSoFar(r)'
    BY <1>1, <1>3, <1>4, <1>5, <1>6, <2>2 DEF SoFar, RecalcSoFar, Open, At
  <2>4. QED
    BY <1>1, <1>3, <1>4, <1>6, <2>3, JustOne DEF SoFar
<1>7. CASE req[r].op \in {"AddOrder", "RemoveOrder"}
  <2>1. settlementDraft = settlement /\ req[r].sum = Receivable(orderDraft, s)
    BY <1>1, <1>5, <1>7 DEF SoFar, RelinkSoFar, At
  <2>2. settlementDraft' = [settlement EXCEPT ![s].total = Receivable(orderDraft, s)]
    BY <1>3, <2>1
  <2>3. RelinkSoFar(r)'
    BY <1>1, <1>3, <1>4, <1>5, <1>7, <2>2 DEF SoFar, RelinkSoFar, Open, Exists, At
  <2>4. QED
    BY <1>1, <1>3, <1>4, <1>7, <2>3, JustOne DEF SoFar
<1>8. QED
  BY <1>1, <1>6, <1>7, StatementOf DEF Serial, At

LEMMA CloseTabSerial ==
  ASSUME Serial, NEW r \in Requests, CloseTab(r), ~Rollback(r)
  PROVE  SerialInv'
<1> DEFINE s == req[r].s
           row == [settlementDraft[s] EXCEPT !.total = req[r].sum, !.status = "SETTLED",
                                             !.actual = req[r].amount]
           label == IF req[r].todo = << >> THEN "commit" ELSE "pay"
<1>1. /\ TxInv /\ OneRequest /\ At(r, "writeTotal") /\ req[r].op = "Settle" /\ Goto(r, label)
      /\ UpdateSettlementRow(r, s, row)
  BY DEF Serial, CloseTab
<1>2. SettleSoFar(r) /\ s \in Settlements
  BY <1>1 DEF Serial, SerialInv, SoFar, SettleSoFar
<1>3. /\ FreeRowsAreCommitted' /\ UNCHANGED <<order, settlement, orderDraft>>
      /\ settlementDraft' = [settlementDraft EXCEPT ![s] = row]
  BY <1>1, <1>2, TabWriteKeepsRows
<1>4. /\ req'[r].pc = label /\ req'[r].op = req[r].op /\ req'[r].s = s
      /\ req'[r].amount = req[r].amount
      /\ req'[r].todo = req[r].todo /\ req'[r].bill = req[r].bill
  BY <1>1, GotoKeeps
<1>5. orderDraft = order /\ settlementDraft = settlement /\ req[r].sum = Receivable(order, s)
  BY <1>1, <1>2 DEF SettleSoFar, At
<1>6. settlementDraft' = [settlement EXCEPT ![s] =
                            [@ EXCEPT !.total = Receivable(order, s), !.status = "SETTLED",
                                      !.actual = req[r].amount]]
  BY <1>3, <1>5
<1>7. Linked(s)' = Linked(s)
  BY <1>3, <1>4 DEF Linked
<1>8. LoopSoFar(r, Charged(order, s),
                [o \in Orders |-> [order[o] EXCEPT !.actual = order[o].total]])'
  BY <1>1, <1>2, <1>3, <1>4 DEF SettleSoFar, LoopSoFar, At
<1>9. SettleSoFar(r)'
  <2>1. label \in {"pay", "commit"} /\ (label = "commit" => req[r].todo = << >>)
    OBVIOUS
  <2>2. /\ Open(s) /\ req[r].amount >= 0 /\ Linked(s) # {}
        /\ \A o \in Charged(order, s) : req[r].bill[o] = order[o].total
    BY <1>1, <1>2 DEF SettleSoFar, At
  <2> HIDE DEF label
  <2>3. QED
    BY <1>2, <1>3, <1>4, <1>6, <1>7, <1>8, <2>1, <2>2 DEF SettleSoFar, Open, At
<1>10. QED
  BY <1>1, <1>3, <1>4, <1>9, JustOne DEF SoFar

\* One round of a loop: the order at the head of the list is done.
LEMMA LoopGoesOn ==
  ASSUME Serial, NEW r \in Requests, NEW S \in SUBSET Orders, NEW left,
         LoopSoFar(r, S, left), req[r].todo # << >>,
         orderDraft' = [orderDraft EXCEPT ![Head(req[r].todo)] = left[Head(req[r].todo)]],
         UNCHANGED order, req'[r].todo = Tail(req[r].todo)
  PROVE  /\ \A o \in S : o \in Range(req'[r].todo) \/ orderDraft'[o] = left[o]
         /\ \A o \in Orders : orderDraft'[o] = order'[o] \/ (o \in S /\ orderDraft'[o] = left[o])
         /\ Range(req'[r].todo) \subseteq S
<1> DEFINE list == req[r].todo
           h == Head(list)
<1>1. list \in Seq(Orders) /\ orderDraft \in [Orders -> OrderRow]
  BY DEF Serial, TxInv, TxTypeOK, ReqRow
<1>2. /\ h \in Range(list) /\ Range(Tail(list)) \subseteq Range(list)
      /\ \A o \in Range(list) : o = h \/ o \in Range(Tail(list))
  BY <1>1, RangeOfTail
<1>3. h \in S /\ h \in Orders
  BY <1>2 DEF LoopSoFar
<1> HIDE DEF h, list
<1>4. /\ req'[r].todo = Tail(list) /\ orderDraft' = [orderDraft EXCEPT ![h] = left[h]]
      /\ \A o \in S : o \in Range(list) \/ orderDraft[o] = left[o]
      /\ \A o \in Orders : orderDraft[o] = order[o] \/ (o \in S /\ orderDraft[o] = left[o])
      /\ Range(list) \subseteq S
  BY DEF LoopSoFar, h, list
<1>5. \A o \in S : o \in Range(req'[r].todo) \/ orderDraft'[o] = left[o]
  BY <1>1, <1>2, <1>3, <1>4
<1>6. \A o \in Orders : orderDraft'[o] = order'[o] \/ (o \in S /\ orderDraft'[o] = left[o])
  BY <1>1, <1>3, <1>4
<1>7. Range(req'[r].todo) \subseteq S
  BY <1>2, <1>4
<1>8. QED
  BY <1>5, <1>6, <1>7

LEMMA ShiftKeeps ==
  ASSUME TxInv, NEW r \in Requests, NEW label, NEW last, Shift(r, label, last)
  PROVE  /\ req'[r].pc = IF Tail(req[r].todo) = << >> THEN last ELSE label
         /\ req'[r].op = req[r].op /\ req'[r].s = req[r].s /\ req'[r].amount = req[r].amount
         /\ req'[r].todo = Tail(req[r].todo) /\ req'[r].bill = req[r].bill
  BY DEF Shift, TxInv, TxTypeOK, ReqRow

LEMMA PaySerial ==
  ASSUME Serial, NEW r \in Requests, PayOrder(r)
  PROVE  SerialInv'
<1> DEFINE s == req[r].s
           h == Head(req[r].todo)
           row == [orderDraft[h] EXCEPT !.actual = req[r].bill[h]]
           paid == [o \in Orders |-> [order[o] EXCEPT !.actual = order[o].total]]
<1>1. /\ TxInv /\ OneRequest /\ At(r, "pay") /\ Shift(r, "pay", "commit")
      /\ UpdateOrderRow(r, h, row)
      /\ order \in [Orders -> OrderRow] /\ req[r].todo \in Seq(Orders)
  BY DEF Serial, PayOrder, TxInv, TxTypeOK, TypeOK, ReqRow
<1>2. req[r].op = "Settle" /\ SettleSoFar(r)
  BY <1>1, StatementOf DEF Serial, SerialInv, SoFar
<1>3. /\ s \in Settlements /\ Open(s) /\ req[r].amount >= 0 /\ Linked(s) # {}
      /\ LoopSoFar(r, Charged(order, s), paid)
      /\ \A o \in Charged(order, s) : req[r].bill[o] = order[o].total
      /\ settlementDraft = [settlement EXCEPT ![s] =
                              [@ EXCEPT !.total = Receivable(order, s), !.status = "SETTLED",
                                        !.actual = req[r].amount]]
  BY <1>1, <1>2 DEF SettleSoFar, At
<1>4. req[r].todo # << >>
  BY <1>1 DEF TxInv, KnowsItsRows, At
<1>5. h \in Charged(order, s) /\ h \in Orders
  BY <1>1, <1>3, <1>4, RangeOfTail DEF LoopSoFar, Charged
<1>6. row = paid[h]
  BY <1>1, <1>3, <1>5 DEF LoopSoFar, OrderRow
<1>7. /\ FreeRowsAreCommitted' /\ UNCHANGED <<order, settlement, settlementDraft>>
      /\ orderDraft' = [orderDraft EXCEPT ![h] = row]
  BY <1>1, <1>5, OrderWriteKeepsRows
<1>8. /\ req'[r].pc = IF Tail(req[r].todo) = << >> THEN "commit" ELSE "pay"
      /\ req'[r].op = req[r].op /\ req'[r].s = s /\ req'[r].amount = req[r].amount
      /\ req'[r].todo = Tail(req[r].todo) /\ req'[r].bill = req[r].bill
  BY <1>1, ShiftKeeps
<1>9. Charged(order, s) \in SUBSET Orders
  BY DEF Charged
<1>10. /\ \A o \in Charged(order, s) : o \in Range(req'[r].todo) \/ orderDraft'[o] = paid[o]
       /\ \A o \in Orders : orderDraft'[o] = order'[o]
                              \/ (o \in Charged(order, s) /\ orderDraft'[o] = paid[o])
       /\ Range(req'[r].todo) \subseteq Charged(order, s)
  BY <1>3, <1>4, <1>6, <1>7, <1>8, <1>9, LoopGoesOn
<1>11. LoopSoFar(r, Charged(order, s), paid)'
  BY <1>7, <1>8, <1>10 DEF LoopSoFar
<1>12. Linked(s)' = Linked(s)
  BY <1>7, <1>8 DEF Linked
<1>13. SettleSoFar(r)'
  BY <1>3, <1>7, <1>8, <1>11, <1>12 DEF SettleSoFar, Open, At
<1>14. QED
  BY <1>1, <1>2, <1>7, <1>8, <1>13, JustOne DEF SoFar

LEMMA ClearSerial ==
  ASSUME Serial, NEW r \in Requests, ClearOrder(r)
  PROVE  SerialInv'
<1> DEFINE s == req[r].s
           h == Head(req[r].todo)
           row == [orderDraft[h] EXCEPT !.settlement = Null]
           released == [o \in Orders |-> [order[o] EXCEPT !.settlement = Null]]
<1>1. /\ TxInv /\ OneRequest /\ At(r, "clear") /\ Shift(r, "clear", "drop")
      /\ UpdateOrderRow(r, h, row)
      /\ order \in [Orders -> OrderRow] /\ req[r].todo \in Seq(Orders)
  BY DEF Serial, ClearOrder, TxInv, TxTypeOK, TypeOK, ReqRow
<1>2. req[r].op = "DeleteSettlement" /\ DeleteSoFar(r)
  BY <1>1, StatementOf DEF Serial, SerialInv, SoFar, At
<1>3. /\ s \in Settlements /\ Open(s) /\ LoopSoFar(r, Linked(s), released)
      /\ settlementDraft = settlement
  BY <1>1, <1>2 DEF DeleteSoFar, At
<1>4. req[r].todo # << >>
  BY <1>1 DEF TxInv, KnowsItsRows, At
<1>5. h \in Linked(s) /\ h \in Orders
  BY <1>1, <1>3, <1>4, RangeOfTail DEF LoopSoFar, Linked
<1>6. row = released[h]
  BY <1>1, <1>3, <1>5 DEF LoopSoFar, OrderRow
<1>7. /\ FreeRowsAreCommitted' /\ UNCHANGED <<order, settlement, settlementDraft>>
      /\ orderDraft' = [orderDraft EXCEPT ![h] = row]
  BY <1>1, <1>5, OrderWriteKeepsRows
<1>8. /\ req'[r].pc = IF Tail(req[r].todo) = << >> THEN "drop" ELSE "clear"
      /\ req'[r].op = req[r].op /\ req'[r].s = s
      /\ req'[r].todo = Tail(req[r].todo)
  BY <1>1, ShiftKeeps
<1>9. Linked(s) \in SUBSET Orders
  BY DEF Linked
<1>10. /\ \A o \in Linked(s) : o \in Range(req'[r].todo) \/ orderDraft'[o] = released[o]
       /\ \A o \in Orders : orderDraft'[o] = order'[o]
                              \/ (o \in Linked(s) /\ orderDraft'[o] = released[o])
       /\ Range(req'[r].todo) \subseteq Linked(s)
  BY <1>3, <1>4, <1>6, <1>7, <1>8, <1>9, LoopGoesOn
<1>11. LoopSoFar(r, Linked(s), released)'
  BY <1>7, <1>8, <1>10 DEF LoopSoFar, Linked
<1>12. DeleteSoFar(r)'
  BY <1>3, <1>7, <1>8, <1>11 DEF DeleteSoFar, Open, At
<1>13. QED
  BY <1>1, <1>2, <1>7, <1>8, <1>12, JustOne DEF SoFar

LEMMA DropSerial ==
  ASSUME Serial, NEW r \in Requests, DropSettlement(r), ~Rollback(r)
  PROVE  SerialInv'
<1> DEFINE s == req[r].s
           row == [settlementDraft[s] EXCEPT !.row = "deleted"]
           released == [o \in Orders |-> [order[o] EXCEPT !.settlement = Null]]
<1>1. /\ TxInv /\ OneRequest /\ At(r, "drop") /\ Goto(r, "commit")
      /\ UpdateSettlementRow(r, s, row)
  BY DEF Serial, DropSettlement
<1>2. req[r].op = "DeleteSettlement" /\ DeleteSoFar(r)
  BY <1>1, StatementOf DEF Serial, SerialInv, SoFar, At
<1>3. /\ s \in Settlements /\ Open(s) /\ LoopSoFar(r, Linked(s), released)
      /\ settlementDraft = settlement /\ req[r].todo = << >>
  BY <1>1, <1>2 DEF DeleteSoFar, At
<1>4. /\ FreeRowsAreCommitted' /\ UNCHANGED <<order, settlement, orderDraft>>
      /\ settlementDraft' = [settlementDraft EXCEPT ![s] = row]
  BY <1>1, <1>3, TabWriteKeepsRows
<1>5. /\ req'[r].pc = "commit" /\ req'[r].op = req[r].op /\ req'[r].s = s
      /\ req'[r].todo = req[r].todo
  BY <1>1, GotoKeeps
<1>6. settlementDraft' = [settlement EXCEPT ![s].row = "deleted"]
  BY <1>3, <1>4
<1>7. LoopSoFar(r, Linked(s), released)'
  BY <1>3, <1>4, <1>5 DEF LoopSoFar, Linked
<1>8. DeleteSoFar(r)'
  BY <1>3, <1>4, <1>5, <1>6, <1>7 DEF DeleteSoFar, Open, At
<1>9. QED
  BY <1>1, <1>2, <1>4, <1>5, <1>8, JustOne DEF SoFar

-----------------------------------------------------------------------------
(* What a commit publishes *)

LEMMA CommitPublishes ==
  ASSUME Serial, NEW r \in Requests, Commit(r)
  PROVE  /\ order' = orderDraft /\ settlement' = settlementDraft
         /\ UNCHANGED <<orderDraft, settlementDraft>>
         /\ FreeRowsAreCommitted'
  BY SeesLatest DEF Commit, FreeRowsAreCommitted

LEMMA CommitSerial ==
  ASSUME Serial, NEW r \in Requests, Commit(r)
  PROVE  SerialInv'
<1>1. /\ TxInv /\ OneRequest /\ At(r, "commit")
      /\ req[r] \in ReqRow /\ req \in [Requests -> ReqRow]
      /\ order \in [Orders -> OrderRow]
  BY DEF Serial, TxInv, TxTypeOK, TypeOK, Commit
<1>2. /\ order' = orderDraft /\ settlement' = settlementDraft
      /\ UNCHANGED <<orderDraft, settlementDraft>>
      /\ FreeRowsAreCommitted'
  BY CommitPublishes
<1>3. CASE req[r].op = "UpdateOrder"
  <2>1. req[r].o \in Orders /\ EditSoFar(r)
    BY <1>1, <1>3 DEF TxInv, KnowsItsRows, Serial, SerialInv, SoFar
  <2>2. /\ req'[r].op = "RecalcTotalForOrder" /\ req'[r].pc = "findLink"
        /\ req'[r].o = req[r].o /\ req'[r].current = req[r].current
        /\ req'[r].amount = req[r].amount
    BY <1>1, <1>3 DEF Commit, ReqRow
  <2>3. RecalcSoFar(r)'
    BY <1>1, <1>2, <2>1, <2>2 DEF EditSoFar, Editable, RecalcSoFar, At
  <2>4. QED
    BY <1>1, <1>2, <2>2, <2>3, JustOne DEF SoFar
<1>4. CASE req[r].op # "UpdateOrder"
  <2>1. req'[r] = IdleRequest
    BY <1>1, <1>4 DEF Commit
  <2>2. SoFar(r)'
    BY <1>2, <2>1 DEF SoFar, IdleRequest
  <2>3. QED
    BY <1>1, <1>2, <2>2, JustOne
<1>5. QED
  BY <1>3, <1>4

LEMMA CreateSerial ==
  ASSUME Serial, NEW r \in Requests, NEW o \in Orders, NEW total \in Amounts, NEW actual \in Amounts,
         NEW lines \in Amounts, TxCreateOrder(r, o, total, actual, lines)
  PROVE  /\ SerialInv' /\ UNCHANGED <<settlement, req>> /\ req[r].op = "none"
         /\ CreateOrder(o, total, actual)
<1>1. /\ OneRequest /\ order \in [Orders -> OrderRow] /\ At(r, "idle")
      /\ CreateOrder(o, total, actual) /\ orderDraft' = [orderDraft EXCEPT ![o] = order'[o]]
      /\ UNCHANGED <<settlement, settlementDraft, lock, req>>
  BY DEF Serial, TxInv, TxTypeOK, TypeOK, TxCreateOrder, CreateOrder
<1>2. req[r].op = "none" /\ orderDraft = order /\ settlementDraft = settlement
  BY <1>1, IdleHasNothing
<1>3. orderDraft' = order' /\ settlementDraft' = settlement'
  BY <1>1, <1>2 DEF CreateOrder
<1>4. SoFar(r)'
  BY <1>1, <1>2, <1>3 DEF SoFar
<1>5. FreeRowsAreCommitted'
  BY <1>3 DEF FreeRowsAreCommitted
<1>6. QED
  BY <1>1, <1>2, <1>4, <1>5, JustOne

\* The inductive invariant of a request that is alone.
THEOREM SerialInductive == ASSUME OneRequest PROVE TxSpec => []SerialInv
<1>1. TxInit => SerialInv
  <2> SUFFICES ASSUME TxInit PROVE SerialInv
    OBVIOUS
  <2>1. orderDraft = order /\ settlementDraft = settlement
    BY DEF TxInit
  <2>2. ASSUME NEW r \in Requests PROVE SoFar(r)
    BY <2>1 DEF TxInit, SoFar, IdleRequest
  <2>3. QED
    BY <2>1, <2>2 DEF SerialInv, FreeRowsAreCommitted
<1>2. TxInv /\ KeepsToItsHandler /\ SerialInv /\ [TxNext]_txVars => SerialInv'
  <2> SUFFICES ASSUME TxInv, KeepsToItsHandler, SerialInv, [TxNext]_txVars PROVE SerialInv'
    OBVIOUS
  <2>1. Serial
    BY DEF Serial
  <2>2. CASE UNCHANGED txVars
    <3>1. \A r \in Requests : req[r] = req'[r]
      BY <2>2 DEF txVars
    <3>2. ASSUME NEW r \in Requests PROVE SoFar(r)'
      <4>1. SoFar(r)
        BY DEF SerialInv
      <4>2. QED
        BY <2>2, <4>1 DEF txVars, SoFar, StatusSoFar, EditSoFar, RecalcSoFar, NewTabSoFar,
           RelinkSoFar, SettleSoFar, DeleteSoFar, LoopSoFar, Exists, Editable, Open, OpenFor,
           Linked, At
    <3>3. FreeRowsAreCommitted'
      BY <2>2 DEF txVars, SerialInv, FreeRowsAreCommitted
    <3>4. QED
      BY <3>2, <3>3 DEF SerialInv
  <2>3. ASSUME NEW r \in Requests, Step(r) PROVE SerialInv'
    BY <2>1, <2>3, RollbackSerial, SetStatusSerial, EditSerial, FindSerial, InsertSerial,
       RelinkSerial, ReadOrdersSerial, SumSerial, WriteTotalSerial, CloseTabSerial, PaySerial,
       ClearSerial, DropSerial, CommitSerial DEF Step
  <2>4. ASSUME NEW r \in Requests, Arrival(r) PROVE SerialInv'
    BY <2>1, <2>4, ArrivalSerial, CreateSerial
  <2>5. QED
    BY <2>1, <2>2, <2>3, <2>4, RollbackSerial DEF TxNext, DeadlockVictim, Fail
<1>3. QED
  BY <1>1, <1>2, TxInductive, HandlersKept, PTL DEF TxSpec

-----------------------------------------------------------------------------
(* The refinement mapping *)

\* What Handlers computes is what OrderBook computes.
LEMMA SameSums ==
  ASSUME NEW table, NEW s
  PROVE  Handlers!Receivable(table, s) = Receivable(table, s)
<1>1. ASSUME NEW f, NEW S PROVE Handlers!SumFunctionOnSet(f, S) = SumFunctionOnSet(f, S)
  BY DEF Handlers!SumFunctionOnSet, SumFunctionOnSet, Handlers!FoldFunctionOnSet,
     FoldFunctionOnSet, Handlers!MapThenFoldSet, MapThenFoldSet
<1>2. Handlers!Charged(table, s) = Charged(table, s)
  BY DEF Handlers!Charged, Charged
<1>3. QED
  BY <1>1, <1>2 DEF Handlers!Receivable, Receivable

LEMMA SameLifeCycle ==
  ASSUME NEW from, NEW target
  PROVE  Handlers!StatusAfter(from, target) = StatusAfter(from, target)
  BY DEF Handlers!StatusAfter, StatusAfter, Handlers!Fire, Fire, Handlers!ResolveTrigger,
     ResolveTrigger, Handlers!Triggers, Triggers, Handlers!TriggerTable, TriggerTable,
     Handlers!OrderStatuses, OrderStatuses, Handlers!Permitted, Permitted

\* The orders are shown as committed, but for the one whose tab is being recalculated.
LEMMA ShownToOne ==
  ASSUME OneRequest, NEW r \in Requests
  PROVE  /\ OrderShown = [o \in Orders |->
              IF req[r].op = "RecalcTotalForOrder" /\ req[r].o = o THEN req[r].current
                                                                   ELSE order[o]]
         /\ OrderShown' = [o \in Orders |->
              IF req'[r].op = "RecalcTotalForOrder" /\ req'[r].o = o THEN req'[r].current
                                                                     ELSE order'[o]]
<1>1. Requests = {r}
  BY DEF OneRequest
<1>2. ASSUME NEW o \in Orders, req[r].op = "RecalcTotalForOrder" /\ req[r].o = o
      PROVE  Recalculating(o) = {r} /\ req[CHOOSE p \in Recalculating(o) : TRUE] = req[r]
  BY <1>1, <1>2 DEF Recalculating
<1>3. ASSUME NEW o \in Orders, ~(req[r].op = "RecalcTotalForOrder" /\ req[r].o = o)
      PROVE  Recalculating(o) = {}
  BY <1>1, <1>3 DEF Recalculating
<1>4. ASSUME NEW o \in Orders, req'[r].op = "RecalcTotalForOrder" /\ req'[r].o = o
      PROVE  /\ Recalculating(o)' = {r}
             /\ req'[CHOOSE p \in Recalculating(o)' : TRUE] = req'[r]
  BY <1>1, <1>4 DEF Recalculating
<1>5. ASSUME NEW o \in Orders, ~(req'[r].op = "RecalcTotalForOrder" /\ req'[r].o = o)
      PROVE  Recalculating(o)' = {}
  BY <1>1, <1>5 DEF Recalculating
<1>6. QED
  BY <1>2, <1>3, <1>4, <1>5 DEF OrderShown

LEMMA ShownAsCommitted ==
  ASSUME Serial, NEW r \in Requests
  PROVE  /\ req[r].op # "RecalcTotalForOrder" => OrderShown = order
         /\ req'[r].op # "RecalcTotalForOrder" /\ order' \in [Orders -> OrderRow]
              => OrderShown' = order'
<1>1. OneRequest /\ order \in [Orders -> OrderRow]
  BY DEF Serial, TxInv, TxTypeOK, TypeOK
<1>2. QED
  BY <1>1, ShownToOne

\* A step that neither commits nor ends an edit shows nothing.
LEMMA Invisible ==
  ASSUME Serial, NEW r \in Requests, UNCHANGED <<order, settlement>>,
         \/ req[r].op # "RecalcTotalForOrder" /\ req'[r].op # "RecalcTotalForOrder"
         \/ /\ req'[r].op = req[r].op
            /\ req'[r].o = req[r].o
            /\ req'[r].current = req[r].current
  PROVE  UNCHANGED Handlers!vars
<1>1. OneRequest
  BY DEF Serial
<1>2. OrderShown' = OrderShown
  BY <1>1, ShownToOne
<1>3. QED
  BY <1>2 DEF Handlers!vars

\* An edit ends with its recalculation, done or not.
LEMMA EditEnds ==
  ASSUME Serial, NEW r \in Requests, req[r].op = "RecalcTotalForOrder",
         req'[r].op # "RecalcTotalForOrder", UNCHANGED order,
         LET s == order[req[r].o].settlement IN
           \/ UNCHANGED settlement
           \/ /\ s \in Settlements /\ Open(s)
              /\ settlement' = [settlement EXCEPT ![s].total = Receivable(order, s)]
  PROVE  Handlers!Next
<1> DEFINE o == req[r].o
           lines == req[r].amount
           current == req[r].current
<1>1. RecalcSoFar(r)
  BY DEF Serial, SerialInv, SoFar
<1>2. /\ o \in Orders /\ current.status \notin {"NONE", "COMPLETED", "CANCELLED"}
      /\ order[o] = Repriced(current, current, lines)
  BY <1>1 DEF RecalcSoFar
<1>3. OneRequest /\ order \in [Orders -> OrderRow] /\ lines \in Amounts
  BY DEF Serial, TxInv, TxTypeOK, TypeOK, ReqRow
<1>4. OrderShown = [order EXCEPT ![o] = current] /\ OrderShown' = order
  BY <1>2, <1>3, ShownToOne
<1> HIDE DEF o, lines, current
<1>5. Handlers!Editable(o)
  BY <1>2, <1>3, <1>4 DEF Handlers!Editable
<1>6. OrderShown' = [OrderShown EXCEPT ![o] = Handlers!Repriced(@, @, lines)]
  BY <1>2, <1>3, <1>4 DEF Handlers!Repriced, Repriced
<1>7. Handlers!RecalcTotalForOrder(o) \/ UNCHANGED settlement
  BY <1>2, <1>4, NullAssumption, SameSums DEF Handlers!RecalcTotalForOrder, Handlers!Open, Open, o
<1>8. Handlers!UpdateOrder(o, lines)
  BY <1>5, <1>6, <1>7 DEF Handlers!UpdateOrder
<1>9. QED
  BY <1>2, <1>3, <1>8 DEF Handlers!Next

\* What a commit makes of the orders shown, unless it is that of an edit.
LEMMA CommitShows ==
  ASSUME Serial, NEW r \in Requests, Commit(r),
         req[r].op \notin {"UpdateOrder", "RecalcTotalForOrder"}
  PROVE  /\ OrderShown = order /\ OrderShown' = orderDraft
         /\ settlement' = settlementDraft /\ At(r, "commit") /\ req[r] \in ReqRow
         /\ order \in [Orders -> OrderRow] /\ settlement \in [Settlements -> SettlementRow]
         /\ orderDraft \in [Orders -> OrderRow]
<1>1. /\ req[r] \in ReqRow /\ req \in [Requests -> ReqRow] /\ orderDraft \in [Orders -> OrderRow]
      /\ order \in [Orders -> OrderRow] /\ settlement \in [Settlements -> SettlementRow]
  BY DEF Serial, TxInv, TxTypeOK, TypeOK
<1>2. order' = orderDraft /\ settlement' = settlementDraft
  BY CommitPublishes
<1>3. req'[r] = IdleRequest /\ At(r, "commit")
  BY <1>1 DEF Commit
<1>4. req'[r].op # "RecalcTotalForOrder"
  BY <1>3 DEF IdleRequest
<1>5. QED
  BY <1>1, <1>2, <1>3, <1>4, ShownAsCommitted

LEMMA StatusCommitted ==
  ASSUME Serial, NEW r \in Requests, Commit(r), req[r].op = "UpdateOrderStatus"
  PROVE  Handlers!Next
<1> DEFINE o == req[r].o
           status == req[r].status
           actual == req[r].amount
<1>1. /\ OrderShown = order /\ OrderShown' = orderDraft /\ settlement' = settlementDraft
      /\ At(r, "commit") /\ actual \in Amounts
  BY CommitShows DEF ReqRow
<1>2. StatusSoFar(r)
  BY DEF Serial, SerialInv, SoFar
<1>3. /\ o \in Orders /\ Exists(o) /\ settlementDraft = settlement
      /\ orderDraft = [order EXCEPT ![o] = WithStatus(@, status, actual)]
  BY <1>1, <1>2 DEF StatusSoFar
<1>4. PICK target \in ApiStatuses : status \in StatusAfter(order[o].status, target)
  BY <1>2 DEF StatusSoFar
<1> HIDE DEF o, status, actual
<1>5. Handlers!Exists(o)
  BY <1>1, <1>3 DEF Handlers!Exists, Exists
<1>6. status \in Handlers!StatusAfter(OrderShown[o].status, target)
  BY <1>1, <1>4, SameLifeCycle
<1>7. OrderShown' = [OrderShown EXCEPT ![o] = Handlers!WithStatus(@, status, actual)]
  BY <1>1, <1>3 DEF Handlers!WithStatus, WithStatus
<1>8. Handlers!UpdateOrderStatus(o, target, actual)
  BY <1>1, <1>3, <1>5, <1>6, <1>7 DEF Handlers!UpdateOrderStatus
<1>9. target \in Handlers!ApiStatuses
  BY <1>4 DEF Handlers!ApiStatuses, ApiStatuses, Handlers!OrderStatuses, OrderStatuses
<1>10. QED
  BY <1>1, <1>3, <1>8, <1>9 DEF Handlers!Next

LEMMA NewTabCommitted ==
  ASSUME Serial, NEW r \in Requests, Commit(r), req[r].op = "CreateSettlement"
  PROVE  Handlers!Next
<1> DEFINE s == req[r].s
<1>1. /\ OrderShown = order /\ OrderShown' = orderDraft /\ settlement' = settlementDraft
      /\ At(r, "commit")
  BY CommitShows
<1>2. NewTabSoFar(r)
  BY DEF Serial, SerialInv, SoFar
<1>3. /\ s \in Settlements /\ settlement[s].row = "absent" /\ OpenFor(Customer[s]) = {}
      /\ orderDraft = order /\ settlementDraft = [settlement EXCEPT ![s] = NewSettlement("live")]
  BY <1>1, <1>2 DEF NewTabSoFar
<1> HIDE DEF s
<1>4. Handlers!OpenFor(Customer[s]) = {}
  BY <1>3 DEF Handlers!OpenFor, OpenFor, Handlers!Open, Open
<1>5. Handlers!CreateSettlement(s)
  BY <1>1, <1>3, <1>4
  DEF Handlers!CreateSettlement, Handlers!NewSettlement, NewSettlement
<1>6. QED
  BY <1>3, <1>5 DEF Handlers!Next

LEMMA RelinkCommitted ==
  ASSUME Serial, NEW r \in Requests, Commit(r), req[r].op \in {"AddOrder", "RemoveOrder"}
  PROVE  Handlers!Next
<1> DEFINE o == req[r].o
           s == req[r].s
           adding == req[r].op = "AddOrder"
           link == IF adding THEN s ELSE Null
<1>1. /\ OrderShown = order /\ OrderShown' = orderDraft /\ settlement' = settlementDraft
      /\ At(r, "commit")
  BY CommitShows
<1>2. RelinkSoFar(r)
  BY DEF Serial, SerialInv, SoFar
<1>3. /\ o \in Orders /\ s \in Settlements /\ Open(s)
      /\ IF adding THEN Exists(o) /\ order[o].status # "CANCELLED" /\ order[o].settlement = Null
                   ELSE order[o].settlement = s
      /\ orderDraft = [order EXCEPT ![o].settlement = link]
      /\ settlementDraft = [settlement EXCEPT ![s].total = Receivable(orderDraft, s)]
  BY <1>1, <1>2 DEF RelinkSoFar, At
<1> HIDE DEF o, s
<1>4. Handlers!Open(s)
  BY <1>3 DEF Handlers!Open, Open
<1>5. Handlers!Relink(o, s, link)
  BY <1>1, <1>3, SameSums DEF Handlers!Relink
<1>6. CASE adding
  <2>1. Handlers!AddOrder(s, o)
    BY <1>1, <1>3, <1>4, <1>5, <1>6 DEF Handlers!AddOrder, Handlers!Exists, Exists
  <2>2. QED
    BY <1>3, <2>1 DEF Handlers!Next
<1>7. CASE ~adding
  <2>1. Handlers!RemoveOrder(s, o)
    BY <1>1, <1>3, <1>4, <1>5, <1>7 DEF Handlers!RemoveOrder
  <2>2. QED
    BY <1>3, <2>1 DEF Handlers!Next
<1>8. QED
  BY <1>6, <1>7

LEMMA SettleCommitted ==
  ASSUME Serial, NEW r \in Requests, Commit(r), req[r].op = "Settle"
  PROVE  Handlers!Next
<1> DEFINE s == req[r].s
           actual == req[r].amount
           paid == [o \in Orders |-> [order[o] EXCEPT !.actual = order[o].total]]
<1>1. /\ OrderShown = order /\ OrderShown' = orderDraft /\ settlement' = settlementDraft
      /\ At(r, "commit") /\ actual \in Amounts /\ orderDraft \in [Orders -> OrderRow]
  BY CommitShows DEF ReqRow
<1>2. SettleSoFar(r)
  BY DEF Serial, SerialInv, SoFar
<1>3. /\ s \in Settlements /\ Open(s) /\ actual >= 0 /\ Linked(s) # {}
      /\ LoopSoFar(r, Charged(order, s), paid) /\ req[r].todo = << >>
      /\ settlementDraft = [settlement EXCEPT ![s] =
                              [@ EXCEPT !.total = Receivable(order, s), !.status = "SETTLED",
                                        !.actual = actual]]
  BY <1>1, <1>2 DEF SettleSoFar, At
<1>4. Range(req[r].todo) = {}
  BY <1>3 DEF Range
<1>5. \A o \in Orders : orderDraft[o] = IF o \in Charged(order, s) THEN paid[o] ELSE order[o]
  BY <1>3, <1>4 DEF LoopSoFar
<1>6. orderDraft = [o \in Orders |-> IF o \in Charged(order, s)
                                       THEN [order[o] EXCEPT !.actual = order[o].total]
                                       ELSE order[o]]
  BY <1>1, <1>5
<1> HIDE DEF s, actual, paid
<1>7. Handlers!Charged(OrderShown, s) = Charged(order, s) /\ Handlers!Linked(s) = Linked(s)
  BY <1>1 DEF Handlers!Charged, Charged, Handlers!Linked, Linked
<1>8. Handlers!Open(s)
  BY <1>3 DEF Handlers!Open, Open
<1>9. Handlers!Settle(s, actual)
  BY <1>1, <1>3, <1>6, <1>7, <1>8, SameSums DEF Handlers!Settle
<1>10. QED
  BY <1>1, <1>3, <1>9 DEF Handlers!Next

LEMMA DeletionCommitted ==
  ASSUME Serial, NEW r \in Requests, Commit(r), req[r].op = "DeleteSettlement"
  PROVE  Handlers!Next
<1> DEFINE s == req[r].s
           released == [o \in Orders |-> [order[o] EXCEPT !.settlement = Null]]
<1>1. /\ OrderShown = order /\ OrderShown' = orderDraft /\ settlement' = settlementDraft
      /\ At(r, "commit") /\ orderDraft \in [Orders -> OrderRow]
  BY CommitShows
<1>2. DeleteSoFar(r)
  BY DEF Serial, SerialInv, SoFar
<1>3. /\ s \in Settlements /\ Open(s)
      /\ LoopSoFar(r, Linked(s), released) /\ req[r].todo = << >>
      /\ settlementDraft = [settlement EXCEPT ![s].row = "deleted"]
  BY <1>1, <1>2 DEF DeleteSoFar, At
<1>4. Range(req[r].todo) = {}
  BY <1>3 DEF Range
<1>5. \A o \in Orders : orderDraft[o] = IF o \in Linked(s) THEN released[o] ELSE order[o]
  BY <1>3, <1>4 DEF LoopSoFar
<1>6. orderDraft = [o \in Orders |-> IF o \in Linked(s)
                                       THEN [order[o] EXCEPT !.settlement = Null]
                                       ELSE order[o]]
  BY <1>1, <1>5
<1> HIDE DEF s, released
<1>7. Handlers!Linked(s) = Linked(s) /\ Handlers!Open(s)
  BY <1>1, <1>3 DEF Handlers!Linked, Linked, Handlers!Open, Open
<1>8. Handlers!DeleteSettlement(s)
  BY <1>1, <1>3, <1>6, <1>7 DEF Handlers!DeleteSettlement
<1>9. QED
  BY <1>3, <1>8 DEF Handlers!Next

\* The lines of an edit are committed first; nothing shows yet.
LEMMA EditCommitted ==
  ASSUME Serial, NEW r \in Requests, Commit(r), req[r].op = "UpdateOrder"
  PROVE  UNCHANGED Handlers!vars
<1> DEFINE o == req[r].o
<1>1. /\ OneRequest /\ At(r, "commit") /\ order \in [Orders -> OrderRow]
      /\ req[r] \in ReqRow /\ req \in [Requests -> ReqRow]
  BY DEF Serial, TxInv, TxTypeOK, TypeOK, Commit
<1>2. EditSoFar(r)
  BY DEF Serial, SerialInv, SoFar
<1>3. /\ req[r].current = order[o] /\ settlementDraft = settlement
      /\ orderDraft = [order EXCEPT ![o] = Repriced(@, @, req[r].amount)]
  BY <1>1, <1>2 DEF EditSoFar, At
<1>4. order' = orderDraft /\ settlement' = settlementDraft
  BY CommitPublishes
<1>5. /\ req'[r].op = "RecalcTotalForOrder" /\ req'[r].o = o
      /\ req'[r].current = req[r].current
  BY <1>1 DEF Commit, ReqRow
<1>6. OrderShown = order /\ OrderShown' = order
  <2>1. OrderShown = order
    BY ShownAsCommitted
  <2>2. OrderShown' = [x \in Orders |-> IF o = x THEN order[o] ELSE order'[x]]
    BY <1>1, <1>3, <1>5, ShownToOne
  <2>3. QED
    BY <1>1, <1>3, <1>4, <2>1, <2>2
<1>7. QED
  BY <1>3, <1>4, <1>6 DEF Handlers!vars

LEMMA RecalcCommitted ==
  ASSUME Serial, NEW r \in Requests, Commit(r), req[r].op = "RecalcTotalForOrder"
  PROVE  Handlers!Next
<1> DEFINE s == req[r].s
<1>1. At(r, "commit") /\ req \in [Requests -> ReqRow]
  BY DEF Serial, TxInv, TxTypeOK, Commit
<1>2. RecalcSoFar(r)
  BY DEF Serial, SerialInv, SoFar
<1>3. /\ s \in Settlements /\ s = order[req[r].o].settlement /\ Open(s)
      /\ orderDraft = order
      /\ settlementDraft = [settlement EXCEPT ![s].total = Receivable(order, s)]
  BY <1>1, <1>2 DEF RecalcSoFar, At
<1>4. order' = orderDraft /\ settlement' = settlementDraft
  BY CommitPublishes
<1>5. req'[r].op # "RecalcTotalForOrder"
  BY <1>1 DEF Commit, IdleRequest
<1>6. QED
  BY <1>3, <1>4, <1>5, EditEnds

\* Statements before the commit.
LEMMA StatementInvisible ==
  ASSUME Serial, NEW r \in Requests, Step(r), ~Commit(r), ~Rollback(r)
  PROVE  UNCHANGED Handlers!vars
<1>1. TxInv /\ req[r] \in ReqRow /\ req \in [Requests -> ReqRow]
  BY DEF Serial, TxInv, TxTypeOK
<1>2. ASSUME NEW label, Goto(r, label), UNCHANGED <<order, settlement>>
      PROVE  UNCHANGED Handlers!vars
  BY <1>1, <1>2, GotoKeeps, Invisible
<1>3. CASE SetStatus(r) \/ SetTotal(r) \/ Link(r)
  BY <1>2, <1>3 DEF SetStatus, SetTotal, Link, UpdateOrderRow
<1>4. CASE InsertSettlement(r) \/ WriteTotal(r) \/ CloseTab(r) \/ DropSettlement(r)
  BY <1>2, <1>4
  DEF InsertSettlement, WriteTotal, CloseTab, DropSettlement, UpdateSettlementRow
<1>5. CASE FindTab(r) \/ ReadOrder(r)
  BY <1>2, <1>5 DEF FindTab, ReadOrder, ReadOnly
<1>6. CASE SelectOrder(r) \/ FindItems(r) \/ ReplaceItems(r)
  <2>1. req[r].op = "UpdateOrder"
    BY <1>6, StatementOf DEF Serial, SelectOrder, FindItems, ReplaceItems, At
  <2>2. req'[r].op = req[r].op /\ UNCHANGED <<order, settlement>>
    BY <1>1, <1>6 DEF SelectOrder, FindItems, ReplaceItems, ReadOnly, ReqRow
  <2>3. QED
    BY <2>1, <2>2, Invisible
<1>7. CASE FindLink(r)
  <2>1. /\ req'[r].op = req[r].op /\ req'[r].o = req[r].o /\ req'[r].current = req[r].current
        /\ UNCHANGED <<order, settlement>>
    BY <1>1, <1>7 DEF FindLink, ReadOnly, ReqRow
  <2>2. QED
    BY <2>1, Invisible
<1>8. CASE ReadOrders(r)
  <2>1. PICK list \in Listings(ToWrite(r)) : req' = [req EXCEPT ![r] = Loaded(r, list)]
    BY <1>8, OrdersLoaded
  <2>2. ReadOnly
    BY <1>8, OrdersLoaded
  <2>3. /\ req'[r].op = req[r].op /\ req'[r].o = req[r].o /\ req'[r].current = req[r].current
        /\ UNCHANGED <<order, settlement>>
    BY <1>1, <2>1, <2>2 DEF Loaded, ReadOnly, ReqRow
  <2>4. QED
    BY <2>3, Invisible
<1>9. CASE SumOrders(r)
  <2>1. /\ req'[r].op = req[r].op /\ req'[r].o = req[r].o /\ req'[r].current = req[r].current
        /\ UNCHANGED <<order, settlement>>
    BY <1>1, <1>9 DEF SumOrders, ReadOnly, ReqRow
  <2>2. QED
    BY <2>1, Invisible
<1>10. CASE PayOrder(r) \/ ClearOrder(r)
  <2>1. /\ req'[r].op = req[r].op /\ req'[r].o = req[r].o /\ req'[r].current = req[r].current
        /\ UNCHANGED <<order, settlement>>
    BY <1>1, <1>10 DEF PayOrder, ClearOrder, Shift, UpdateOrderRow, ReqRow
  <2>2. QED
    BY <2>1, Invisible
<1>11. QED
  BY <1>3, <1>4, <1>5, <1>6, <1>7, <1>8, <1>9, <1>10 DEF Step

LEMMA RollbackMaps ==
  ASSUME Serial, NEW r \in Requests, Rollback(r)
  PROVE  Handlers!Next \/ UNCHANGED Handlers!vars
<1>1. UNCHANGED <<order, settlement>> /\ req'[r].op = "none"
  BY RollbackSerial DEF IdleRequest
<1>2. CASE req[r].op = "RecalcTotalForOrder"
  BY <1>1, <1>2, EditEnds
<1>3. CASE req[r].op # "RecalcTotalForOrder"
  BY <1>1, <1>3, Invisible
<1>4. QED
  BY <1>2, <1>3

LEMMA CommitMaps ==
  ASSUME Serial, NEW r \in Requests, Commit(r)
  PROVE  Handlers!Next \/ UNCHANGED Handlers!vars
<1>1. req[r].op \in {"UpdateOrderStatus", "UpdateOrder", "RecalcTotalForOrder", "CreateSettlement",
                     "AddOrder", "RemoveOrder", "Settle", "DeleteSettlement"}
  <2>1. At(r, "commit") /\ req[r].pc \in LabelsOf(req[r].op) /\ req[r] \in ReqRow
    BY DEF Commit, Serial, KeepsToItsHandler, TxInv, TxTypeOK
  <2>2. req[r].op \notin {"none", "CreateOrder"}
    BY <2>1 DEF LabelsOf, At
  <2>3. QED
    BY <2>1, <2>2 DEF ReqRow, Endpoints
<1>2. QED
  BY <1>1, StatusCommitted, EditCommitted, RecalcCommitted, NewTabCommitted, RelinkCommitted,
     SettleCommitted, DeletionCommitted

LEMMA CreationMaps ==
  ASSUME Serial, NEW r \in Requests, NEW o \in Orders, NEW total \in Amounts, NEW actual \in Amounts,
         NEW lines \in Amounts, TxCreateOrder(r, o, total, actual, lines)
  PROVE  Handlers!Next
<1>1. /\ CreateOrder(o, total, actual) /\ UNCHANGED <<settlement, req>>
      /\ req[r].op = "none" /\ OneRequest
  BY CreateSerial DEF Serial
<1>2. order \in [Orders -> OrderRow]
  BY DEF Serial, TxInv, TxTypeOK, TypeOK
<1>3. OrderShown = order /\ OrderShown' = order'
  BY <1>1, <1>2, ShownToOne DEF CreateOrder
<1>4. Handlers!CreateOrder(o, total, actual)
  BY <1>1, <1>3 DEF CreateOrder, Handlers!CreateOrder, Exists, Handlers!Exists, NewOrder,
     Handlers!NewOrder, InitialActual, Handlers!InitialActual
<1>5. QED
  BY <1>4 DEF Handlers!Next

\* With one request at a time, failures included, every behaviour of the statements is a
\* behaviour of the handlers.
THEOREM StatementsImplementHandlers == ASSUME OneRequest PROVE TxSpec => ImplementsHandlers
<1>1. TxInit => Handlers!Init
  <2> SUFFICES ASSUME TxInit PROVE Handlers!Init
    OBVIOUS
  <2>1. ASSUME NEW o \in Orders PROVE Recalculating(o) = {}
    BY DEF TxInit, IdleRequest, Recalculating
  <2>2. OrderShown = [o \in Orders |-> order[o]]
    BY <2>1 DEF OrderShown
  <2>3. QED
    BY <2>2 DEF TxInit, Init, Handlers!Init, NewOrder, Handlers!NewOrder, NewSettlement,
       Handlers!NewSettlement
<1>2. TxInv /\ KeepsToItsHandler /\ SerialInv /\ [TxNext]_txVars
        => [Handlers!Next]_(Handlers!vars)
  <2> SUFFICES ASSUME TxInv, KeepsToItsHandler, SerialInv, [TxNext]_txVars
               PROVE  Handlers!Next \/ UNCHANGED Handlers!vars
    OBVIOUS
  <2>1. Serial
    BY DEF Serial
  <2>2. CASE UNCHANGED txVars
    BY <2>2 DEF txVars, Handlers!vars, OrderShown, Recalculating
  <2>3. ASSUME NEW r \in Requests, Step(r) PROVE Handlers!Next \/ UNCHANGED Handlers!vars
    BY <2>1, <2>3, StatementInvisible, CommitMaps, RollbackMaps
  <2>4. ASSUME NEW r \in Requests, Arrival(r) PROVE Handlers!Next \/ UNCHANGED Handlers!vars
    <3>1. CASE \E o \in Orders, total, actual, lines \in Amounts :
                 TxCreateOrder(r, o, total, actual, lines)
      BY <2>1, <3>1, CreationMaps
    <3>2. CASE ~\E o \in Orders, total, actual, lines \in Amounts :
                  TxCreateOrder(r, o, total, actual, lines)
      BY <2>1, <2>4, <3>2, ArrivalSerial, Invisible
    <3>3. QED
      BY <3>1, <3>2
  <2>5. QED
    BY <2>1, <2>2, <2>3, <2>4, RollbackMaps DEF TxNext, DeadlockVictim, Fail
<1>3. QED
  BY <1>1, <1>2, TxInductive, HandlersKept, SerialInductive, PTL
  DEF TxSpec, ImplementsHandlers, Handlers!Spec
=============================================================================
