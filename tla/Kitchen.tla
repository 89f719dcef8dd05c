------------------------------ MODULE Kitchen ------------------------------
(***************************************************************************)
(* Orders and the tickets the kitchen cooks by.                            *)
(*                                                                         *)
(* Creating an order prints all of its lines.  Replacing the lines prints  *)
(* only the difference to the lines the handler read first: what was       *)
(* added, changed in quantity or struck out.  A goroutine submits the      *)
(* ticket to the printing service after the handler answered; tickets wait *)
(* there in no order, may fail, and are never repeated.  Staff can print   *)
(* the whole order again.  Nobody tells the server what the kitchen knows: *)
(* `board` is what somebody who follows the tickets would cook.            *)
(*                                                                         *)
(* What a missing, late or stale ticket can spoil is the subject: `doubt`  *)
(* names the dishes a hazard has touched, and everything else must agree.  *)
(*                                                                         *)
(* The statements of one transaction, and status changes, are in           *)
(* OrderBookTx; here a transaction has the two instants that matter: when  *)
(* its DELETE sees the lines and when it commits.                          *)
(***************************************************************************)
EXTENDS Integers, Sequences, FiniteSets

CONSTANTS
  Orders,
  Requests,    \* calls of CreateOrder, UpdateOrder and PrintOrderKitchen
  Dishes,      \* what itemKey tells apart: a dish with its specification
  MaxQuantity, \* bound on the quantity of one line
  Bills,       \* the lists of items clients submit
  Null         \* no order

ASSUME QuantityAssumption == MaxQuantity \in Nat
ASSUME BillsAssumption ==
  \A bill \in Bills : /\ bill \in Seq(Dishes \X (0 .. MaxQuantity))
                      /\ bill # << >>

VARIABLES
  lines,    \* committed lines of each order
  closed,   \* the order is COMPLETED or CANCELLED
  req,      \* local state of each request
  tickets,  \* tickets being submitted
  board,    \* how much of each dish of each order the kitchen thinks it owes
  doubt     \* history: the dishes of each order a hazard has touched

vars == <<lines, closed, req, tickets, board, doubt>>

-----------------------------------------------------------------------------
(* Lines, and the difference between two lists of them. *)

\* A row of order_items.  `by` and `pos` are its identity: the request that
\* inserted it and its place in that request's list.  A quantity that is not
\* positive, which only CreateOrder lets through, counts as 0.
Line == [by : Requests, pos : Nat, dish : Dishes, qty : 0 .. MaxQuantity]

\* The lines one order can have.
Rows == {L \in SUBSET Line : IsFiniteSet(L)}

LinesOf(r, bill) ==
  {[by |-> r, pos |-> i, dish |-> bill[i][1], qty |-> bill[i][2]] : i \in 1 .. Len(bill)}

Keys(L) == {l.dish : l \in L}

\* How much of dish d the lines L ask for: one for each portion.
Quantity(L, d) ==
  Cardinality({p \in {l \in L : l.dish = d} \X (1 .. MaxQuantity) : p[2] <= p[1].qty})

\* Dishes on more than one line: the comparison collapses them.
Twins(L) == {l.dish : l \in {m \in L : \E n \in L : n # m /\ n.dish = m.dish}}

\* Dishes two lists ask for differently.
Differing(L, M) == {d \in Dishes : Quantity(L, d) # Quantity(M, d)}

\* oldMap of DiffOrderItems: of two old lines with one key the later in the
\* list stays, and the query that read the list gives no order.
OldMaps(old) == {f \in [Keys(old) -> old] : \A k \in Keys(old) : f[k].dish = k}

Added(oldMap, new) == Keys(new) \ DOMAIN oldMap

\* Fault: a smaller quantity goes unnoticed.
QtyGrown(oldMap, new) ==
  {k \in Keys(new) \cap DOMAIN oldMap :
     \E n \in new : n.dish = k /\ n.qty > oldMap[k].qty}

QtyChanged(oldMap, new) ==
  {k \in Keys(new) \cap DOMAIN oldMap :
     \E n \in new : n.dish = k /\ n.qty # oldMap[k].qty}
Removed(old, new) == {o \in old : o.dish \notin Keys(new)}

-----------------------------------------------------------------------------
(* Tickets. *)

\* The whole order: a new order, a reprint, or an edit that changed nothing.
FullTicket(r, o, new, tells) ==
  [of |-> r, order |-> o, mode |-> "Full", shows |-> new, struck |-> {},
   touches |-> Dishes, tells |-> tells]

\* Fault: IsAddOnly looks for removed lines only.
LenientMode(added, changed, removed) ==
  IF added = {} /\ changed = {} /\ removed = {} THEN "Full"
  ELSE IF removed = {} THEN "AddOnly" ELSE "Change"

Mode(added, changed, removed) ==
  IF added = {} /\ changed = {} /\ removed = {} THEN "Full"
  ELSE IF changed = {} /\ removed = {} THEN "AddOnly" ELSE "Change"

\* An edit's ticket lists what is new or changed, and what is gone.
DiffTicket(r, o, old, oldMap, new) ==
  LET added   == Added(oldMap, new)
      changed == QtyChanged(oldMap, new)
      removed == Removed(old, new)
      touched == added \cup changed \cup Keys(removed)
  IN  IF Mode(added, changed, removed) = "Full" THEN FullTicket(r, o, new, {})
      ELSE [of |-> r, order |-> o, mode |-> Mode(added, changed, removed),
            shows |-> {n \in new : n.dish \in added \cup changed}, struck |-> removed,
            touches |-> touched, tells |-> touched]

\* What somebody who thinks the order is b thinks after reading the ticket.
Follow(b, t) ==
  [d \in Dishes |->
     IF t.mode = "Full" THEN Quantity(t.shows, d)
     ELSE IF t.mode = "AddOnly" THEN b[d] + Quantity(t.shows, d)
     ELSE IF d \in Keys(t.shows) THEN Quantity(t.shows, d)
     ELSE IF d \in Keys(t.struck) THEN 0 ELSE b[d]]

-----------------------------------------------------------------------------
Labels == {"idle", "read", "deleting", "committed", "done"}

Working == {"read", "deleting", "committed"}

Idle == [pc |-> "idle", order |-> Null, creates |-> FALSE,
         old |-> {},     \* the lines the handler read first
         sees |-> {},    \* the lines its DELETE sees
         moved |-> {}]   \* history: the dishes its commit changed

At(r, label) == req[r].pc = label
On(o, labels) == {r \in Requests : req[r].pc \in labels /\ req[r].order = o}
Waiting(o) == {t \in tickets : t.order = o}

\* Dishes of o that a request has changed and not yet announced, r apart.
Unannounced(o, r) == UNION {req[s].moved : s \in On(o, {"committed"}) \ {r}}

\* Lines of o change while other requests work on what they read before.
Disturb(r, o, new) ==
  LET moved == Differing(lines[o], new)
  IN  doubt' = [doubt EXCEPT ![o] = @ \cup Twins(lines[o]) \cup Twins(new) \cup
                  (IF On(o, Working) \subseteq {r} THEN {}
                   ELSE moved)]

\* Ticket t joins those under way: what another one touches too may now be
\* followed in either order.
Submit(r, t) ==
  LET o == t.order
  IN  /\ tickets' = tickets \cup {t}
      /\ doubt' = [doubt EXCEPT ![o] = @ \cup
           (t.touches \cap (Unannounced(o, r) \cup UNION {u.touches : u \in Waiting(o)}))]

Finish(r) == req' = [req EXCEPT ![r] = [Idle EXCEPT !.pc = "done"]]

-----------------------------------------------------------------------------
(* CreateOrder. *)

Create(r, o, bill) ==
  /\ At(r, "idle") /\ lines[o] = {}
  /\ lines' = [lines EXCEPT ![o] = LinesOf(r, bill)]
  /\ Disturb(r, o, LinesOf(r, bill))
  /\ req' = [req EXCEPT ![r] = [Idle EXCEPT !.pc = "committed", !.order = o,
                                 !.creates = TRUE, !.moved = Dishes]]
  /\ UNCHANGED <<closed, tickets, board>>

\* The committed order is read again for the reply and the ticket.
AnnounceNew(r, o) ==
  /\ At(r, "committed") /\ req[r].creates /\ req[r].order = o
  /\ Submit(r, FullTicket(r, o, lines[o], Dishes))
  /\ Finish(r)
  /\ UNCHANGED <<lines, closed, board>>

(* UpdateOrder. *)

ReadOrder(r, o) ==
  /\ At(r, "idle") /\ lines[o] # {} /\ ~ closed[o]
  /\ req' = [req EXCEPT ![r] = [Idle EXCEPT !.pc = "read", !.order = o, !.old = lines[o]]]
  /\ UNCHANGED <<lines, closed, tickets, board, doubt>>

\* ReplaceItems: lines that another transaction inserts from here on are not
\* deleted.  UpdateOrder has refused a list with a quantity that is not positive.
DeleteItems(r, o) ==
  /\ At(r, "read") /\ req[r].order = o
  /\ req' = [req EXCEPT ![r].pc = "deleting", ![r].sees = lines[o]]
  /\ UNCHANGED <<lines, closed, tickets, board, doubt>>

CommitItems(r, o, bill) ==
  LET new == (lines[o] \ req[r].sees) \cup LinesOf(r, bill)
  IN  /\ At(r, "deleting") /\ req[r].order = o
      /\ \A i \in DOMAIN bill : bill[i][2] > 0
      /\ lines' = [lines EXCEPT ![o] = new]
      /\ Disturb(r, o, new)
      /\ req' = [req EXCEPT ![r].pc = "committed",
                            ![r].moved = Differing(lines[o], new)]
      /\ UNCHANGED <<closed, tickets, board>>

\* Fault: nothing is printed when lines were only removed.
AnnounceOnlyNews(r, o) ==
  /\ At(r, "committed") /\ ~ req[r].creates /\ req[r].order = o
  /\ \E oldMap \in OldMaps(req[r].old) :
       LET t == DiffTicket(r, o, req[r].old, oldMap, lines[o])
       IN  IF t.shows = {} THEN UNCHANGED <<tickets, doubt>> ELSE Submit(r, t)
  /\ Finish(r)
  /\ UNCHANGED <<lines, closed, board>>

\* ReplaceItems reads the order again, and the difference is printed.
AnnounceEdit(r, o) ==
  /\ At(r, "committed") /\ ~ req[r].creates /\ req[r].order = o
  /\ \E oldMap \in OldMaps(req[r].old) :
       Submit(r, DiffTicket(r, o, req[r].old, oldMap, lines[o]))
  /\ Finish(r)
  /\ UNCHANGED <<lines, closed, board>>

(* PrintOrderKitchen: reads the order and prints it within the request. *)

Reprint(r, o) ==
  /\ At(r, "idle") /\ lines[o] # {}
  /\ Submit(r, FullTicket(r, o, lines[o], {}))
  /\ Finish(r)
  /\ UNCHANGED <<lines, closed, board>>

(* A request ends with an error: any statement may fail.  Once the lines are
   committed nothing undoes them, and no ticket is printed. *)

Fail(r) ==
  /\ ~ At(r, "idle") /\ ~ At(r, "done")
  /\ doubt' = [o \in Orders |-> doubt[o] \cup
                 (IF r \in On(o, {"committed"}) THEN req[r].moved ELSE {})]
  /\ Finish(r)
  /\ UNCHANGED <<lines, closed, tickets, board>>

\* UpdateOrderStatus writes by id, whatever the status has become since it was
\* checked: a late write can also reopen an order another one has closed.
ChangeStatus(o) ==
  /\ lines[o] # {}
  /\ closed' = [closed EXCEPT ![o] = ~ @]
  /\ UNCHANGED <<lines, req, tickets, board, doubt>>

-----------------------------------------------------------------------------
(* The printing service. *)

\* The ticket comes out.  A full ticket that shows the order as it is, with
\* nothing else under way, settles every doubt.
ComesOut(t) ==
  LET o == t.order
      settles == /\ t.mode = "Full" /\ t.shows = lines[o]
                 /\ Waiting(o) = {t} /\ On(o, Working) = {}
  IN  /\ tickets' = tickets \ {t}
      /\ board' = [board EXCEPT ![o] = Follow(@, t)]
      /\ doubt' = IF settles THEN [doubt EXCEPT ![o] = {}] ELSE doubt
      /\ UNCHANGED <<lines, closed, req>>

\* It does not: the 25 seconds pass, or the service refuses.  Only logged.
Lose(t) ==
  /\ tickets' = tickets \ {t}
  /\ doubt' = [doubt EXCEPT ![t.order] = @ \cup t.tells]
  /\ UNCHANGED <<lines, closed, req, board>>

\* The server stops: every request and every goroutine is gone.
Crash ==
  /\ tickets' = {}
  /\ req' = [r \in Requests |-> IF At(r, "idle") THEN Idle ELSE [Idle EXCEPT !.pc = "done"]]
  /\ doubt' = [o \in Orders |-> doubt[o] \cup
                 {d \in Dishes : \/ \E t \in Waiting(o) : d \in t.tells
                                 \/ \E r \in On(o, {"committed"}) : d \in req[r].moved}]
  /\ UNCHANGED <<lines, closed, board>>

-----------------------------------------------------------------------------
Init ==
  /\ lines = [o \in Orders |-> {}]
  /\ closed = [o \in Orders |-> FALSE]
  /\ req = [r \in Requests |-> Idle]
  /\ tickets = {}
  /\ board = [o \in Orders |-> [d \in Dishes |-> 0]]
  /\ doubt = [o \in Orders |-> {}]

Handle(r) ==
  \/ Fail(r)
  \/ \E o \in Orders :
       \/ ReadOrder(r, o) \/ DeleteItems(r, o)
       \/ AnnounceNew(r, o) \/ AnnounceEdit(r, o) \/ Reprint(r, o)
       \/ \E bill \in Bills : Create(r, o, bill) \/ CommitItems(r, o, bill)

Next ==
  \/ \E r \in Requests : Handle(r)
  \/ \E o \in Orders : ChangeStatus(o)
  \/ \E t \in tickets : ComesOut(t) \/ Lose(t)
  \/ Crash

Spec == Init /\ [][Next]_vars

\* A handler that has begun runs on, and a ticket's goroutine ends within its
\* timeout.  No call need begin, and no ticket need come out.
Begun(r) == ~ At(r, "idle") /\ Handle(r)
FairSpec ==
  /\ Spec
  /\ \A r \in Requests : WF_vars(Begun(r))
  /\ WF_vars(\E t \in tickets : ComesOut(t) \/ Lose(t))

-----------------------------------------------------------------------------
(* Properties. *)

Request == [pc : Labels, order : Orders \cup {Null}, creates : BOOLEAN,
            old : Rows, sees : Rows, moved : SUBSET Dishes]
Ticket == [of : Requests, order : Orders, mode : {"Full", "AddOnly", "Change"},
           shows : Rows, struck : Rows,
           touches : SUBSET Dishes, tells : SUBSET Dishes]

\* Every variable holds values of its table, request or ticket.
TypeOK ==
  /\ lines \in [Orders -> Rows]
  /\ closed \in [Orders -> BOOLEAN]
  /\ req \in [Requests -> Request]
  /\ tickets \in SUBSET Ticket
  /\ board \in [Orders -> [Dishes -> Nat]]
  /\ doubt \in [Orders -> SUBSET Dishes]

Quiet(o) == Waiting(o) = {} /\ On(o, {"committed"}) = {}

\* Once every ticket of an order is out, the kitchen owes what the order says
\* of every dish no hazard touched: losing, delaying or reordering tickets,
\* and editing over one another, spoil only the dishes those tickets name,
\* until an undisturbed reprint settles them.
KitchenInStep ==
  \A o \in Orders : Quiet(o) =>
    \A d \in Dishes \ doubt[o] : board[o][d] = Quantity(lines[o], d)

\* Delay alone never leaves the kitchen behind: whatever the tickets' order,
\* it comes to owe what the order says of every dish no hazard touched.
KitchenCatchesUp ==
  \A o \in Orders : <>[](\A d \in Dishes \ doubt[o] : board[o][d] = Quantity(lines[o], d))

-----------------------------------------------------------------------------
(* The inductive invariant behind KitchenInStep. *)

NoTwin(L, d) == \A l, m \in L : l.dish = d /\ m.dish = d => l = m

\* Requests that changed dish d of o and have not announced it, and tickets
\* under way that touch it.
Movers(o, d) == {r \in On(o, {"committed"}) : d \in req[r].moved}
Touching(o, d) == {t \in Waiting(o) : d \in t.touches}

\* q is what the kitchen should owe before the announcements still to come.
Due(o, d, q) ==
  /\ \A r \in Movers(o, d) : req[r].creates \/ q = Quantity(req[r].old, d)
  /\ Movers(o, d) = {} => q = Quantity(lines[o], d)

\* What a working request read is still what its ticket must be relative to.
ReadStands(r, o, d) ==
  /\ req[r].pc \in {"read", "deleting"} /\ NoTwin(lines[o], d) => NoTwin(req[r].old, d)
  /\ req[r].pc = "committed" => NoTwin(req[r].old, d) /\ NoTwin(lines[o], d)
  /\ r \notin Movers(o, d) => Quantity(req[r].old, d) = Quantity(lines[o], d)

Tracked(o, d) ==
  /\ \A r \in On(o, Working) : req[r].creates \/ ReadStands(r, o, d)
  /\ \A t, u \in Touching(o, d) : t = u
  /\ \A t \in Touching(o, d) :
       /\ Due(o, d, Follow(board[o], t)[d])
       /\ d \notin t.tells => Due(o, d, board[o][d])
  /\ Touching(o, d) = {} => Due(o, d, board[o][d])

\* Nothing works on an order that does not exist, and it is not closed.
NewIsUntouched(o) ==
  lines[o] = {} => Waiting(o) = {} /\ On(o, Working) = {} /\ ~ closed[o]

\* Only a new order's ticket is made without a difference, and only creating
\* requests stand at "committed" without having read the order.
CreatesOnlyNew == \A r \in Requests : req[r].creates => req[r].pc = "committed"

\* A ticket names no dish it does not touch.
TicketsTouchWhatTheyName ==
  \A t \in tickets : /\ t.mode = "Full" => t.touches = Dishes
                     /\ Keys(t.shows) \cup Keys(t.struck) \subseteq t.touches

IInv ==
  /\ TypeOK
  /\ CreatesOnlyNew
  /\ TicketsTouchWhatTheyName
  /\ \A o \in Orders : NewIsUntouched(o)
  /\ \A o \in Orders : \A d \in Dishes \ doubt[o] : Tracked(o, d)
=============================================================================
