--------------------------- MODULE KitchenProofs ---------------------------
(***************************************************************************)
(* The kitchen stays in step, for every number of orders, requests, dishes *)
(* and quantities: a ticket resolved from two lists of lines turns the one *)
(* into the other (DiffTicketTells), and IInv carries that through every   *)
(* interleaving of requests, tickets, losses and crashes.                  *)
(***************************************************************************)
EXTENDS Kitchen, FiniteSetTheorems, TLAPS

-----------------------------------------------------------------------------
(* Lists of lines. *)

\* A dish that is on no line is not asked for.
LEMMA QuantityNone ==
  ASSUME NEW L, NEW d, d \notin Keys(L)
  PROVE  Quantity(L, d) = 0
<1>1. {p \in {l \in L : l.dish = d} \X (1 .. MaxQuantity) : p[2] <= p[1].qty} = {}
  BY DEF Keys
<1> QED
  BY <1>1, FS_EmptySet DEF Quantity

\* A dish on a single line is asked for as often as that line says.
LEMMA QuantityOne ==
  ASSUME NEW L \in Rows, NEW l \in L, NoTwin(L, l.dish)
  PROVE  Quantity(L, l.dish) = l.qty
<1> DEFINE S == {p \in {m \in L : m.dish = l.dish} \X (1 .. MaxQuantity) : p[2] <= p[1].qty}
           T == 1 .. l.qty
           f == [i \in T |-> <<l, i>>]
<1>1. l.qty \in 0 .. MaxQuantity /\ l.qty \in Nat /\ MaxQuantity \in Nat
  BY QuantityAssumption DEF Rows, Line
<1>2. {m \in L : m.dish = l.dish} = {l}
  BY DEF NoTwin
<1>3. S = {<<l, i>> : i \in T}
  BY <1>1, <1>2
<1>4. f \in Bijection(T, S)
  BY <1>3 DEF Bijection, Injection, Surjection, IsInjective
<1>5. IsFiniteSet(T) /\ Cardinality(T) = l.qty
  <2>1. /\ 1 \in Int /\ l.qty \in Int
        /\ (IF 1 > l.qty THEN 0 ELSE l.qty - 1 + 1) = l.qty
    BY <1>1
  <2>2. IsFiniteSet(1 .. l.qty) /\ Cardinality(1 .. l.qty) = IF 1 > l.qty THEN 0 ELSE l.qty - 1 + 1
    BY <2>1, FS_Interval
  <2> QED
    BY <2>1, <2>2
<1>6. Cardinality(S) = Cardinality(T)
  <2>1. ExistsBijection(T, S)
    BY <1>4 DEF ExistsBijection
  <2> QED
    BY <2>1, <1>5, FS_Bijection
<1> QED
  BY <1>5, <1>6 DEF Quantity

\* Quantities are natural numbers.
LEMMA QuantityNat ==
  ASSUME NEW L \in Rows, NEW d
  PROVE  Quantity(L, d) \in Nat
<1> DEFINE M == {l \in L : l.dish = d}
           S == {p \in M \X (1 .. MaxQuantity) : p[2] <= p[1].qty}
<1>1. IsFiniteSet(M)
  BY FS_Subset DEF Rows
<1>2. IsFiniteSet(1 .. MaxQuantity)
  BY FS_Interval, QuantityAssumption
<1>3. IsFiniteSet(M \X (1 .. MaxQuantity))
  BY <1>1, <1>2, FS_Product
<1>4. IsFiniteSet(S)
  BY <1>3, FS_Subset
<1> QED
  BY <1>4, FS_CardinalityType DEF Quantity

\* What a client submits becomes at least one line.
LEMMA LinesOfType ==
  ASSUME NEW r \in Requests, NEW bill \in Bills
  PROVE  LinesOf(r, bill) \in Rows /\ LinesOf(r, bill) # {}
<1> DEFINE line(i) == [by |-> r, pos |-> i, dish |-> bill[i][1], qty |-> bill[i][2]]
           I == 1 .. Len(bill)
           f == [i \in I |-> line(i)]
<1>1. bill \in Seq(Dishes \X (0 .. MaxQuantity)) /\ bill # << >> /\ Len(bill) \in Nat
  BY BillsAssumption
<1>2. \A i \in I : bill[i] \in Dishes \X (0 .. MaxQuantity) /\ i \in Nat
  BY <1>1
<1>3. \A i \in I : line(i) \in Line
  BY <1>2 DEF Line
<1>4. LinesOf(r, bill) \subseteq Line
  BY <1>3 DEF LinesOf
<1>5. IsFiniteSet(LinesOf(r, bill))
  <2>1. IsFiniteSet(I)
    BY <1>1, FS_Interval
  <2>2. f \in Surjection(I, LinesOf(r, bill))
    BY DEF Surjection, LinesOf
  <2> QED
    BY <2>1, <2>2, FS_Surjection DEF ExistsSurjection
<1>6. 1 \in I
  BY <1>1
<1> QED
  BY <1>4, <1>5, <1>6 DEF LinesOf, Rows

\* Part of a list of lines is a list of lines, and so are two together.
LEMMA RowsClosed ==
  ASSUME NEW L \in Rows
  PROVE  /\ \A M \in SUBSET L : M \in Rows
         /\ \A M \in Rows : L \cup M \in Rows
<1>1. \A M \in SUBSET L : M \in Rows
  BY FS_Subset DEF Rows
<1>2. \A M \in Rows : L \cup M \in Rows
  BY FS_Union DEF Rows
<1> QED
  BY <1>1, <1>2

-----------------------------------------------------------------------------
(* DiffOrderItems, resolveKitchenTicketMode and the ticket. *)

\* An edit is printed in full exactly when nothing changed.
LEMMA FullIfNothing ==
  ASSUME NEW added, NEW changed, NEW removed
  PROVE  /\ Mode(added, changed, removed) = "Full" <=> added \cup changed \cup Keys(removed) = {}
         /\ Mode(added, changed, removed) # "Full" =>
              Mode(added, changed, removed) =
                IF changed = {} /\ removed = {} THEN "AddOnly" ELSE "Change"
<1>1. Keys(removed) = {} <=> removed = {}
  BY DEF Keys
<1> QED
  BY <1>1 DEF Mode

\* A ticket is a ticket.
LEMMA DiffTicketType ==
  ASSUME NEW r \in Requests, NEW o \in Orders, NEW old \in Rows, NEW new \in Rows,
         NEW oldMap \in OldMaps(old)
  PROVE  /\ DiffTicket(r, o, old, oldMap, new) \in Ticket
         /\ DiffTicket(r, o, old, oldMap, new).order = o
<1> DEFINE t == DiffTicket(r, o, old, oldMap, new)
<1>1. Keys(old) \subseteq Dishes /\ Keys(new) \subseteq Dishes
  BY DEF Keys, Rows, Line
<1>2. /\ Added(oldMap, new) \subseteq Dishes
      /\ QtyChanged(oldMap, new) \subseteq Dishes
      /\ Keys(Removed(old, new)) \subseteq Dishes
  BY <1>1 DEF Added, QtyChanged, Removed, Keys
<1>3. /\ Removed(old, new) \in Rows
      /\ {n \in new : n.dish \in Added(oldMap, new) \cup QtyChanged(oldMap, new)} \in Rows
      /\ {} \in Rows
  BY RowsClosed DEF Removed
<1> QED
  BY <1>2, <1>3 DEF DiffTicket, Mode, FullTicket, Ticket

\* Whoever owes the old quantity of a dish and follows the ticket owes the new
\* one, and a dish the ticket says nothing of did not change; provided no two
\* lines of either list have that dish.
LEMMA DiffTicketTells ==
  ASSUME NEW r, NEW o, NEW old \in Rows, NEW new \in Rows,
         NEW oldMap \in OldMaps(old), NEW d \in Dishes,
         NoTwin(old, d), NoTwin(new, d),
         NEW b \in [Dishes -> Nat], b[d] = Quantity(old, d)
  PROVE  LET t == DiffTicket(r, o, old, oldMap, new)
         IN  /\ Follow(b, t)[d] = Quantity(new, d)
             /\ d \notin t.tells => Quantity(old, d) = Quantity(new, d)
<1> DEFINE t == DiffTicket(r, o, old, oldMap, new)
           added == Added(oldMap, new)
           changed == QtyChanged(oldMap, new)
           removed == Removed(old, new)
           touched == added \cup changed \cup Keys(removed)
           shown == {n \in new : n.dish \in added \cup changed}
<1>1. oldMap \in [Keys(old) -> old] /\ \A k \in Keys(old) : oldMap[k].dish = k
  BY DEF OldMaps
<1>2. ASSUME d \notin touched
      PROVE  Quantity(old, d) = Quantity(new, d)
  <2>1. CASE d \in Keys(new)
    <3>1. d \in Keys(old)
      BY <2>1, <1>2, <1>1 DEF Added
    <3>2. PICK n \in new : n.dish = d
      BY <2>1 DEF Keys
    <3>3. oldMap[d] \in old /\ oldMap[d].dish = d /\ oldMap[d].qty = n.qty
      BY <3>1, <3>2, <1>1, <1>2, <2>1 DEF QtyChanged
    <3>4. Quantity(old, d) = oldMap[d].qty
      BY <3>3, QuantityOne
    <3>5. Quantity(new, d) = n.qty
      BY <3>2, QuantityOne
    <3> QED
      BY <3>3, <3>4, <3>5
  <2>2. CASE d \notin Keys(new)
    <3>1. d \notin Keys(old)
      BY <2>2, <1>2 DEF Removed, Keys
    <3> QED
      BY <2>2, <3>1, QuantityNone
  <2> QED
    BY <2>1, <2>2
<1>3. CASE touched = {}
  <2>1. t = FullTicket(r, o, new, {})
    BY <1>3, FullIfNothing DEF DiffTicket
  <2>2. Follow(b, t)[d] = Quantity(new, d)
    BY <2>1 DEF Follow, FullTicket
  <2> QED
    BY <2>2, <1>2, <1>3
<1>4. CASE touched # {}
  <2>1. /\ t.mode = IF changed = {} /\ removed = {} THEN "AddOnly" ELSE "Change"
        /\ t.shows = shown /\ t.struck = removed /\ t.tells = touched
    BY <1>4, FullIfNothing DEF DiffTicket
  <2>2. ASSUME d \in added \cup changed
        PROVE  Quantity(shown, d) = Quantity(new, d)
    <3>1. {l \in shown : l.dish = d} = {l \in new : l.dish = d}
      BY <2>2
    <3> QED
      BY <3>1 DEF Quantity
  <2>3. ASSUME d \notin added \cup changed
        PROVE  d \notin Keys(shown) /\ Quantity(shown, d) = 0
    <3>1. d \notin Keys(shown)
      BY <2>3 DEF Keys
    <3> QED
      BY <3>1, QuantityNone
  <2>4. Quantity(new, d) \in Nat /\ Quantity(old, d) \in Nat
    BY QuantityNat
  <2>5. CASE t.mode = "AddOnly"
    <3>1. changed = {} /\ removed = {}
      BY <2>1, <2>5
    <3>2. Follow(b, t)[d] = b[d] + Quantity(shown, d)
      BY <2>5, <2>1 DEF Follow
    <3>3. CASE d \in added
      <4>1. Quantity(old, d) = 0
        BY <3>3, <1>1, QuantityNone DEF Added
      <4> QED
        BY <3>2, <3>3, <4>1, <2>1, <2>2, <2>4
    <3>4. CASE d \notin added
      <4>1. d \notin touched
        BY <3>1, <3>4 DEF Keys
      <4> QED
        BY <4>1, <3>1, <3>2, <3>4, <2>3, <2>4, <1>2
    <3> QED
      BY <3>3, <3>4
  <2>6. CASE t.mode = "Change"
    <3>1. Follow(b, t)[d] = IF d \in Keys(shown) THEN Quantity(shown, d)
                            ELSE IF d \in Keys(removed) THEN 0 ELSE b[d]
      BY <2>6, <2>1 DEF Follow
    <3>2. CASE d \in added \cup changed
      <4>1. d \in Keys(shown)
        BY <3>2 DEF Keys, Added, QtyChanged
      <4> QED
        BY <4>1, <3>1, <3>2, <2>1, <2>2
    <3>3. CASE d \notin added \cup changed /\ d \in Keys(removed)
      <4>1. d \notin Keys(new)
        BY <3>3 DEF Removed, Keys
      <4> QED
        BY <4>1, <3>1, <3>3, <2>1, <2>3, QuantityNone
    <3>4. CASE d \notin touched
      BY <3>1, <3>4, <2>3, <1>2
    <3> QED
      BY <3>2, <3>3, <3>4
  <2> QED
    BY <2>1, <2>5, <2>6
<1> QED
  BY <1>3, <1>4

-----------------------------------------------------------------------------
(* Types. *)

\* A full ticket is a ticket.
LEMMA FullTicketType ==
  ASSUME NEW r \in Requests, NEW o \in Orders, NEW new \in Rows, NEW tells \in SUBSET Dishes
  PROVE  /\ FullTicket(r, o, new, tells) \in Ticket
         /\ FullTicket(r, o, new, tells).order = o
<1>1. {} \in Rows
  BY RowsClosed
<1> QED
  BY <1>1 DEF FullTicket, Ticket

\* Following a ticket keeps the board a board.
LEMMA FollowType ==
  ASSUME NEW b \in [Dishes -> Nat], NEW t \in Ticket
  PROVE  Follow(b, t) \in [Dishes -> Nat]
<1>1. t.shows \in Rows
  BY DEF Ticket
<1>2. \A d \in Dishes : Quantity(t.shows, d) \in Nat
  BY <1>1, QuantityNat
<1> QED
  BY <1>2 DEF Follow

\* The empty list is a list of lines, and an idle request is a request.
LEMMA IdleType ==
  /\ {} \in Rows
  /\ Idle \in Request /\ [Idle EXCEPT !.pc = "done"] \in Request
<1>1. {} \in Rows
  BY FS_EmptySet DEF Rows
<1> QED
  BY <1>1 DEF Idle, Request, Labels

\* Doubt grows within the dishes when a list of lines or the queue changes.
LEMMA DoubtType ==
  ASSUME TypeOK, NEW r \in Requests, NEW o \in Orders
  PROVE  /\ \A new \in Rows : Disturb(r, o, new) => doubt' \in [Orders -> SUBSET Dishes]
         /\ \A t \in Ticket : t.order = o /\ Submit(r, t) =>
              tickets' \in SUBSET Ticket /\ doubt' \in [Orders -> SUBSET Dishes]
<1>1. ASSUME NEW L \in Rows
      PROVE  Twins(L) \subseteq Dishes
  BY DEF Twins, Rows, Line
<1>2. ASSUME NEW new \in Rows, Disturb(r, o, new)
      PROVE  doubt' \in [Orders -> SUBSET Dishes]
  <2>1. lines[o] \in Rows
    BY DEF TypeOK
  <2>2. Twins(lines[o]) \subseteq Dishes /\ Twins(new) \subseteq Dishes
    BY <2>1, <1>1
  <2> QED
    BY <1>2, <2>2 DEF Disturb, Differing, TypeOK
<1>3. ASSUME NEW t \in Ticket, t.order = o, Submit(r, t)
      PROVE  tickets' \in SUBSET Ticket /\ doubt' \in [Orders -> SUBSET Dishes]
  BY <1>3 DEF Submit, TypeOK, Ticket
<1> QED
  BY <1>2, <1>3

\* Init => TypeOK, and every step preserves it.
LEMMA InitType == Init => TypeOK
  BY IdleType DEF Init, TypeOK

LEMMA StepType == TypeOK /\ [Next]_vars => TypeOK'
<1> SUFFICES ASSUME TypeOK, [Next]_vars PROVE TypeOK'
  OBVIOUS
<1> USE DEF TypeOK
<1>1. ASSUME NEW r \in Requests, NEW o \in Orders, NEW bill \in Bills, Create(r, o, bill)
      PROVE  TypeOK'
  <2>1. LinesOf(r, bill) \in Rows
    BY LinesOfType
  <2>2. doubt' \in [Orders -> SUBSET Dishes]
    BY <1>1, <2>1, DoubtType DEF Create
  <2>3. [Idle EXCEPT !.pc = "committed", !.order = o, !.creates = TRUE, !.moved = Dishes]
          \in Request
    BY IdleType DEF Idle, Request, Labels
  <2> QED
    BY <1>1, <2>1, <2>2, <2>3 DEF Create
<1>2. ASSUME NEW r \in Requests, NEW o \in Orders, AnnounceNew(r, o)
      PROVE  TypeOK'
  <2>1. FullTicket(r, o, lines[o], Dishes) \in Ticket /\ FullTicket(r, o, lines[o], Dishes).order = o
    BY FullTicketType
  <2>2. tickets' \in SUBSET Ticket /\ doubt' \in [Orders -> SUBSET Dishes]
    BY <1>2, <2>1, DoubtType DEF AnnounceNew
  <2> QED
    BY <1>2, <2>2, IdleType DEF AnnounceNew, Finish
<1>3. ASSUME NEW r \in Requests, NEW o \in Orders, ReadOrder(r, o)
      PROVE  TypeOK'
  <2>1. [Idle EXCEPT !.pc = "read", !.order = o, !.old = lines[o]] \in Request
    BY IdleType DEF Idle, Request, Labels
  <2> QED
    BY <1>3, <2>1 DEF ReadOrder
<1>4. ASSUME NEW r \in Requests, NEW o \in Orders, DeleteItems(r, o)
      PROVE  TypeOK'
  <2>1. [req[r] EXCEPT !.pc = "deleting", !.sees = lines[o]] \in Request
    BY DEF Request, Labels
  <2> QED
    BY <1>4, <2>1 DEF DeleteItems
<1>5. ASSUME NEW r \in Requests, NEW o \in Orders, NEW bill \in Bills, CommitItems(r, o, bill)
      PROVE  TypeOK'
  <2> DEFINE new == (lines[o] \ req[r].sees) \cup LinesOf(r, bill)
  <2>1. new \in Rows
    BY LinesOfType, RowsClosed
  <2>2. doubt' \in [Orders -> SUBSET Dishes]
    BY <1>5, <2>1, DoubtType DEF CommitItems
  <2>3. [req[r] EXCEPT !.pc = "committed", !.moved = Differing(lines[o], new)] \in Request
    BY DEF Request, Labels, Differing
  <2> QED
    BY <1>5, <2>1, <2>2, <2>3 DEF CommitItems
<1>6. ASSUME NEW r \in Requests, NEW o \in Orders, AnnounceEdit(r, o)
      PROVE  TypeOK'
  <2>1. PICK oldMap \in OldMaps(req[r].old) :
          Submit(r, DiffTicket(r, o, req[r].old, oldMap, lines[o]))
    BY <1>6 DEF AnnounceEdit
  <2>2. req[r].old \in Rows /\ lines[o] \in Rows
    BY DEF Request
  <2>3. /\ DiffTicket(r, o, req[r].old, oldMap, lines[o]) \in Ticket
        /\ DiffTicket(r, o, req[r].old, oldMap, lines[o]).order = o
    BY <2>2, DiffTicketType
  <2>4. tickets' \in SUBSET Ticket /\ doubt' \in [Orders -> SUBSET Dishes]
    BY <2>1, <2>3, DoubtType
  <2> QED
    BY <1>6, <2>4, IdleType DEF AnnounceEdit, Finish
<1>7. ASSUME NEW r \in Requests, NEW o \in Orders, Reprint(r, o)
      PROVE  TypeOK'
  <2>1. FullTicket(r, o, lines[o], {}) \in Ticket /\ FullTicket(r, o, lines[o], {}).order = o
    BY FullTicketType
  <2>2. tickets' \in SUBSET Ticket /\ doubt' \in [Orders -> SUBSET Dishes]
    BY <1>7, <2>1, DoubtType DEF Reprint
  <2> QED
    BY <1>7, <2>2, IdleType DEF Reprint, Finish
<1>8. ASSUME NEW r \in Requests, Fail(r)
      PROVE  TypeOK'
  <2>1. req[r].moved \subseteq Dishes
    BY DEF Request
  <2>2. doubt' \in [Orders -> SUBSET Dishes]
    BY <1>8, <2>1 DEF Fail
  <2> QED
    BY <1>8, <2>2, IdleType DEF Fail, Finish
<1>9. ASSUME NEW o \in Orders, ChangeStatus(o)
      PROVE  TypeOK'
  BY <1>9 DEF ChangeStatus
<1>10. ASSUME NEW t \in tickets, ComesOut(t)
       PROVE  TypeOK'
  <2>1. t \in Ticket /\ t.order \in Orders
    BY DEF Ticket
  <2>2. board[t.order] \in [Dishes -> Nat]
    BY <2>1
  <2>3. Follow(board[t.order], t) \in [Dishes -> Nat]
    BY <2>1, <2>2, FollowType
  <2> QED
    BY <1>10, <2>1, <2>3 DEF ComesOut
<1>11. ASSUME NEW t \in tickets, Lose(t)
       PROVE  TypeOK'
  BY <1>11 DEF Lose, Ticket
<1>12. ASSUME Crash
       PROVE  TypeOK'
  <2>1. \A t \in tickets : t.tells \subseteq Dishes
    BY DEF Ticket
  <2>2. \A r \in Requests : req[r].moved \subseteq Dishes
    BY DEF Request
  <2>3. doubt' \in [Orders -> SUBSET Dishes]
    BY <1>12, <2>1, <2>2 DEF Crash, Waiting, On
  <2> QED
    BY <1>12, <2>3, IdleType DEF Crash
<1>13. CASE UNCHANGED vars
  BY <1>13 DEF vars
<1> QED
  BY <1>1, <1>2, <1>3, <1>4, <1>5, <1>6, <1>7, <1>8, <1>9, <1>10, <1>11, <1>12, <1>13
     DEF Next, Handle

-----------------------------------------------------------------------------
(* The parts of IInv that do not count quantities. *)

\* A ticket of either kind names what it touches.
LEMMA TicketShape ==
  ASSUME NEW r, NEW o, NEW old \in Rows, NEW new \in Rows, NEW oldMap, NEW tells
  PROVE  \A t \in {FullTicket(r, o, new, tells), DiffTicket(r, o, old, oldMap, new)} :
           /\ t.mode = "Full" => t.touches = Dishes
           /\ Keys(t.shows) \cup Keys(t.struck) \subseteq t.touches
<1>1. Keys(new) \subseteq Dishes
  BY DEF Keys, Rows, Line
<1>2. Keys({}) = {}
  BY DEF Keys
<1>3. \A S : Keys({n \in new : n.dish \in S}) \subseteq S
  BY DEF Keys
<1> DEFINE Shaped(t) == /\ t.mode = "Full" => t.touches = Dishes
                        /\ Keys(t.shows) \cup Keys(t.struck) \subseteq t.touches
           touched == Added(oldMap, new) \cup QtyChanged(oldMap, new) \cup Keys(Removed(old, new))
           t == DiffTicket(r, o, old, oldMap, new)
<1>4. \A x : Shaped(FullTicket(r, o, new, x))
  BY <1>1, <1>2 DEF FullTicket
<1>5. CASE touched = {}
  BY <1>4, <1>5, FullIfNothing DEF DiffTicket
<1>6. CASE touched # {}
  <2>1. t.mode # "Full" /\ t.touches = touched /\ t.struck = Removed(old, new)
    BY <1>6, FullIfNothing DEF DiffTicket
  <2>2. t.shows = {n \in new : n.dish \in Added(oldMap, new) \cup QtyChanged(oldMap, new)}
    BY <1>6, FullIfNothing DEF DiffTicket
  <2>3. Keys(t.shows) \subseteq Added(oldMap, new) \cup QtyChanged(oldMap, new)
    BY <2>2, <1>3
  <2> QED
    BY <1>4, <2>1, <2>3
<1> QED
  BY <1>4, <1>5, <1>6

LEMMA StepShape ==
  ASSUME TypeOK, TicketsTouchWhatTheyName, [Next]_vars
  PROVE  TicketsTouchWhatTheyName'
<1> DEFINE Shaped(t) == /\ t.mode = "Full" => t.touches = Dishes
                        /\ Keys(t.shows) \cup Keys(t.struck) \subseteq t.touches
<1>1. ASSUME NEW r \in Requests, NEW t, Shaped(t), Submit(r, t)
      PROVE  TicketsTouchWhatTheyName'
  <2>1. tickets' = tickets \cup {t}
    BY <1>1 DEF Submit
  <2> QED
    BY <1>1, <2>1 DEF TicketsTouchWhatTheyName
<1>2. ASSUME NEW r \in Requests, NEW o \in Orders, AnnounceNew(r, o) \/ Reprint(r, o)
      PROVE  TicketsTouchWhatTheyName'
  <2>1. lines[o] \in Rows
    BY DEF TypeOK
  <2>2. Shaped(FullTicket(r, o, lines[o], Dishes)) /\ Shaped(FullTicket(r, o, lines[o], {}))
    BY <2>1, TicketShape
  <2> QED
    BY <1>1, <1>2, <2>2 DEF AnnounceNew, Reprint
<1>3. ASSUME NEW r \in Requests, NEW o \in Orders, AnnounceEdit(r, o)
      PROVE  TicketsTouchWhatTheyName'
  <2>1. lines[o] \in Rows /\ req[r].old \in Rows
    BY DEF TypeOK, Request
  <2>2. \A oldMap : Shaped(DiffTicket(r, o, req[r].old, oldMap, lines[o]))
    BY <2>1, TicketShape
  <2> QED
    BY <1>1, <1>3, <2>2 DEF AnnounceEdit
<1>4. ASSUME tickets' \subseteq tickets
      PROVE  TicketsTouchWhatTheyName'
  BY <1>4 DEF TicketsTouchWhatTheyName
<1> QED
  BY <1>2, <1>3, <1>4
     DEF Next, Handle, Create, ReadOrder, DeleteItems, CommitItems, Fail, ChangeStatus, ComesOut, Lose,
         Crash, vars

LEMMA StepCreates ==
  ASSUME TypeOK, CreatesOnlyNew, [Next]_vars
  PROVE  CreatesOnlyNew'
<1> USE DEF CreatesOnlyNew, TypeOK, Idle, At
<1>1. ASSUME NEW r \in Requests, Handle(r)
      PROVE  CreatesOnlyNew'
  <2>1. \A s \in Requests \ {r} : req'[s] = req[s]
    BY <1>1 DEF Handle, Create, AnnounceNew, ReadOrder, DeleteItems, CommitItems, AnnounceEdit,
                Reprint, Fail, Finish
  <2>2. r \in DOMAIN req /\ req[r] \in Request
    OBVIOUS
  <2>3. ASSUME Finish(r)
        PROVE  ~ req'[r].creates
    BY <2>2, <2>3 DEF Finish
  <2>4. ASSUME NEW o \in Orders, ReadOrder(r, o)
        PROVE  ~ req'[r].creates
    BY <2>2, <2>4 DEF ReadOrder
  <2>5. ASSUME NEW o \in Orders, NEW bill \in Bills, Create(r, o, bill)
        PROVE  req'[r].pc = "committed"
    BY <2>2, <2>5 DEF Create
  <2>6. ASSUME NEW o \in Orders, DeleteItems(r, o)
        PROVE  ~ req'[r].creates
    <3>1. ~ req[r].creates
      BY <2>6 DEF DeleteItems
    <3> QED
      BY <2>2, <2>6, <3>1 DEF DeleteItems, Request
  <2>7. ASSUME NEW o \in Orders, NEW bill \in Bills, CommitItems(r, o, bill)
        PROVE  ~ req'[r].creates
    <3>1. ~ req[r].creates
      BY <2>7 DEF CommitItems
    <3> QED
      BY <2>2, <2>7, <3>1 DEF CommitItems, Request
  <2>8. req'[r].creates => req'[r].pc = "committed"
    <3>1. CASE Finish(r)
      BY <3>1, <2>3
    <3>2. CASE \E o \in Orders : ReadOrder(r, o) \/ DeleteItems(r, o)
      BY <3>2, <2>4, <2>6
    <3>3. CASE \E o \in Orders, bill \in Bills : Create(r, o, bill) \/ CommitItems(r, o, bill)
      BY <3>3, <2>5, <2>7
    <3> HIDE DEF At, Idle, TypeOK, CreatesOnlyNew
    <3>4. Handle(r) => \/ Finish(r)
                       \/ \E o \in Orders : ReadOrder(r, o) \/ DeleteItems(r, o)
                       \/ \E o \in Orders, bill \in Bills :
                            Create(r, o, bill) \/ CommitItems(r, o, bill)
      BY DEF Handle, Fail, AnnounceNew, AnnounceEdit, Reprint
    <3> QED
      BY <1>1, <3>1, <3>2, <3>3, <3>4
  <2> QED
    BY <2>1, <2>8
<1>2. CASE \E o \in Orders : ChangeStatus(o)
  BY <1>2 DEF ChangeStatus
<1>3. CASE \E t \in tickets : ComesOut(t) \/ Lose(t)
  BY <1>3 DEF ComesOut, Lose
<1>4. CASE Crash
  BY <1>4 DEF Crash
<1>5. CASE UNCHANGED vars
  BY <1>5 DEF vars
<1> QED
  BY <1>1, <1>2, <1>3, <1>4, <1>5 DEF Next

LEMMA StepNew ==
  ASSUME TypeOK, NEW o \in Orders, NewIsUntouched(o), [Next]_vars
  PROVE  NewIsUntouched(o)'
<1> USE DEF NewIsUntouched, Waiting, On, Working, TypeOK, At, Idle
<1>1. ASSUME NEW r \in Requests, NEW p \in Orders, NEW bill \in Bills,
             Create(r, p, bill) \/ CommitItems(r, p, bill)
      PROVE  NewIsUntouched(o)'
  <2>1. LinesOf(r, bill) # {}
    BY LinesOfType
  <2>2. CASE p = o
    <3>1. lines'[o] # {}
      BY <1>1, <2>1, <2>2 DEF Create, CommitItems
    <3> QED
      BY <3>1
  <2>3. CASE p # o
    <3>1. lines'[o] = lines[o] /\ tickets' = tickets /\ closed' = closed
      BY <1>1, <2>3 DEF Create, CommitItems
    <3>2. \A s \in Requests \ {r} : req'[s] = req[s]
      BY <1>1 DEF Create, CommitItems
    <3>3. req'[r].order = p
      <4>1. r \in DOMAIN req /\ req[r] \in Request
        OBVIOUS
      <4>2. CASE Create(r, p, bill)
        BY <4>1, <4>2 DEF Create
      <4>3. CASE CommitItems(r, p, bill)
        BY <4>1, <4>3 DEF CommitItems, Request
      <4> QED
        BY <1>1, <4>2, <4>3
    <3>4. On(o, Working)' \subseteq On(o, Working)
      BY <2>3, <3>2, <3>3
    <3> QED
      BY <3>1, <3>4
  <2> QED
    BY <2>2, <2>3
<1>2. ASSUME NEW r \in Requests, NEW p \in Orders,
             AnnounceNew(r, p) \/ AnnounceEdit(r, p) \/ Reprint(r, p)
      PROVE  NewIsUntouched(o)'
  <2>1. lines' = lines /\ closed' = closed /\ \A s \in On(o, Working)' : s \in On(o, Working)
    BY <1>2 DEF AnnounceNew, AnnounceEdit, Reprint, Finish
  <2>2. PICK t : tickets' = tickets \cup {t} /\ t.order = p
    <3>1. \A x : FullTicket(r, p, lines[p], x).order = p
      BY DEF FullTicket
    <3>2. \A oldMap : DiffTicket(r, p, req[r].old, oldMap, lines[p]).order = p
      BY DEF DiffTicket, Mode, FullTicket
    <3> QED
      BY <1>2, <3>1, <3>2 DEF AnnounceNew, AnnounceEdit, Reprint, Submit
  <2>3. p = o => lines[o] # {}
    BY <1>2 DEF AnnounceNew, AnnounceEdit, Reprint
  <2> QED
    BY <2>1, <2>2, <2>3
<1>3. ASSUME NEW r \in Requests, NEW p \in Orders, ReadOrder(r, p) \/ DeleteItems(r, p)
      PROVE  NewIsUntouched(o)'
  <2>1. /\ lines' = lines /\ tickets' = tickets /\ closed' = closed
        /\ \A s \in Requests \ {r} : req'[s] = req[s]
    BY <1>3 DEF ReadOrder, DeleteItems
  <2>2. req'[r].order = p
    <3>1. r \in DOMAIN req /\ req[r] \in Request
      OBVIOUS
    <3>2. CASE ReadOrder(r, p)
      BY <3>1, <3>2 DEF ReadOrder
    <3>3. CASE DeleteItems(r, p)
      BY <3>1, <3>3 DEF DeleteItems, Request
    <3> QED
      BY <1>3, <3>2, <3>3
  <2>3. r \in On(o, Working)' => lines[o] # {}
    BY <1>3, <2>2 DEF ReadOrder, DeleteItems
  <2> QED
    BY <2>1, <2>3
<1>4. ASSUME NEW r \in Requests, Fail(r)
      PROVE  NewIsUntouched(o)'
  BY <1>4 DEF Fail, Finish
<1>5. CASE \E p \in Orders : ChangeStatus(p)
  BY <1>5 DEF ChangeStatus
<1>6. CASE \E t \in tickets : ComesOut(t) \/ Lose(t)
  BY <1>6 DEF ComesOut, Lose
<1>7. CASE Crash
  BY <1>7 DEF Crash
<1>8. CASE UNCHANGED vars
  BY <1>8 DEF vars
<1> QED
  BY <1>1, <1>2, <1>3, <1>4, <1>5, <1>6, <1>7, <1>8 DEF Next, Handle

-----------------------------------------------------------------------------
(* The part that does: one lemma per way a step can touch an order. *)

LEMMA TwinsNone ==
  ASSUME NEW L, NEW d
  PROVE  d \notin Twins(L) <=> NoTwin(L, d)
BY DEF Twins, NoTwin

\* Reading a ticket about other dishes, or about this dish from boards that
\* agree on it, makes no difference to this dish.
LEMMA FollowLocal ==
  ASSUME NEW t \in Ticket, NEW b \in [Dishes -> Nat], NEW c \in [Dishes -> Nat],
         NEW d \in Dishes, b[d] = c[d],
         t.mode = "Full" => t.touches = Dishes,
         Keys(t.shows) \cup Keys(t.struck) \subseteq t.touches
  PROVE  /\ Follow(b, t)[d] = Follow(c, t)[d]
         /\ d \notin t.touches => Follow(b, t)[d] = b[d]
<1>1. Follow(b, t)[d] = Follow(c, t)[d]
  BY DEF Follow
<1>2. ASSUME d \notin t.touches
      PROVE  Follow(b, t)[d] = b[d]
  <2>1. d \notin Keys(t.shows) /\ d \notin Keys(t.struck) /\ t.mode # "Full"
    BY <1>2
  <2>2. Quantity(t.shows, d) = 0
    BY <2>1, QuantityNone
  <2> QED
    BY <2>1, <2>2 DEF Follow
<1> QED
  BY <1>1, <1>2

\* Nothing of the order changes, except that requests may leave it that have
\* no change of this dish to announce.
LEMMA FrameTracked ==
  ASSUME NEW o \in Orders, NEW d \in Dishes, Tracked(o, d),
         lines'[o] = lines[o], board'[o] = board[o], Waiting(o)' = Waiting(o),
         \A r \in Requests : \/ req'[r] = req[r]
                             \/ r \notin On(o, Working)' /\ r \notin Movers(o, d)
  PROVE  Tracked(o, d)'
<1>1. Touching(o, d)' = Touching(o, d)
  BY DEF Touching
<1>2. \A r \in On(o, Working)' : r \in On(o, Working) /\ req'[r] = req[r]
  BY DEF On
<1>3. Movers(o, d)' = Movers(o, d) /\ \A r \in Movers(o, d) : req'[r] = req[r]
  <2>1. \A r \in Movers(o, d) : r \in Requests /\ req'[r] = req[r] /\ r \in Movers(o, d)'
    BY DEF Movers, On
  <2>2. \A r \in Movers(o, d)' : r \in On(o, Working)' /\ r \in Requests
    BY DEF Movers, On, Working
  <2>3. \A r \in Movers(o, d)' : r \in Movers(o, d)
    BY <2>2, <1>2 DEF Movers, On
  <2> QED
    BY <2>1, <2>3
<1>4. \A q : Due(o, d, q) => Due(o, d, q)'
  BY <1>3 DEF Due
<1>5. \A r \in On(o, Working)' : ReadStands(r, o, d) => ReadStands(r, o, d)'
  BY <1>2, <1>3 DEF ReadStands
<1> QED
  BY <1>1, <1>2, <1>4, <1>5 DEF Tracked

\* A request announces what it did, or prints the order again, and ends.
\* The ticket must bring a kitchen that is owed the rest up to date.
LEMMA JoinTracked ==
  ASSUME TypeOK, NEW r \in Requests, NEW o \in Orders, NEW d \in Dishes, NEW t,
         t.order = o, Submit(r, t), Finish(r), UNCHANGED <<lines, closed, board>>,
         d \notin doubt'[o], Tracked(o, d),
         d \in t.touches /\ Touching(o, d) = {} /\ Movers(o, d) \subseteq {r} =>
           /\ Follow(board[o], t)[d] = Quantity(lines[o], d)
           /\ d \notin t.tells => board[o][d] = Quantity(lines[o], d),
         d \notin t.touches =>
           r \notin Movers(o, d) \/ (/\ ~ req[r].creates
                                     /\ Quantity(req[r].old, d) = Quantity(lines[o], d))
  PROVE  Tracked(o, d)'
<1>1. tickets' = tickets \cup {t}
  BY DEF Submit
<1>2. d \in t.touches => Touching(o, d) = {} /\ Movers(o, d) \subseteq {r}
  <2>1. doubt'[o] = doubt[o] \cup
          (t.touches \cap (Unannounced(o, r) \cup UNION {u.touches : u \in Waiting(o)}))
    BY DEF Submit, TypeOK
  <2>2. d \in t.touches => d \notin Unannounced(o, r) /\ \A u \in Waiting(o) : d \notin u.touches
    BY <2>1
  <2> QED
    BY <2>2 DEF Unannounced, Touching, Movers
<1>3. /\ r \notin On(o, Working)' /\ r \notin Movers(o, d)'
      /\ \A s \in Requests \ {r} : req'[s] = req[s]
  BY DEF Finish, TypeOK, Idle, On, Working, Movers
<1>4. \A s \in On(o, Working)' : s \in On(o, Working) /\ req'[s] = req[s] /\ s # r
  BY <1>3 DEF On
<1>5. Movers(o, d)' = Movers(o, d) \ {r} /\ \A s \in Movers(o, d)' : req'[s] = req[s]
  BY <1>3 DEF Movers, On
<1>6. \A s \in On(o, Working)' : req'[s].creates \/ ReadStands(s, o, d)'
  <2> SUFFICES ASSUME NEW s \in On(o, Working)', ~ req[s].creates
               PROVE  ReadStands(s, o, d)'
    BY <1>4
  <2>1. ReadStands(s, o, d)
    BY <1>4 DEF Tracked
  <2> QED
    BY <2>1, <1>4, <1>5 DEF ReadStands
<1>7. CASE d \in t.touches
  <2>1. Touching(o, d)' = {t} /\ Movers(o, d)' = {}
    BY <1>1, <1>2, <1>5, <1>7 DEF Touching, Waiting
  <2>2. Due(o, d, Follow(board[o], t)[d])'
    BY <1>2, <1>7, <2>1 DEF Due
  <2>3. d \notin t.tells => Due(o, d, board[o][d])'
    BY <1>2, <1>7, <2>1 DEF Due
  <2> QED
    BY <1>6, <2>1, <2>2, <2>3 DEF Tracked
<1>8. CASE d \notin t.touches
  <2>1. Touching(o, d)' = Touching(o, d)
    BY <1>1, <1>8 DEF Touching, Waiting
  <2>2. ASSUME NEW q, Due(o, d, q)
        PROVE  Due(o, d, q)'
    <3>1. CASE r \notin Movers(o, d)
      BY <2>2, <1>5, <3>1 DEF Due
    <3>2. CASE r \in Movers(o, d)
      BY <2>2, <1>5, <1>8, <3>2 DEF Due
    <3> QED
      BY <3>1, <3>2
  <2> QED
    BY <1>6, <2>1, <2>2 DEF Tracked
<1> QED
  BY <1>7, <1>8

\* New lines of an order that did not exist.
LEMMA CreateTracked ==
  ASSUME TypeOK, NEW r \in Requests, NEW o \in Orders, NEW d \in Dishes, NEW bill \in Bills,
         Create(r, o, bill), NewIsUntouched(o)
  PROVE  Tracked(o, d)'
<1>1. Waiting(o) = {} /\ On(o, Working) = {}
  BY DEF Create, NewIsUntouched
<1>2. /\ req'[r] = [Idle EXCEPT !.pc = "committed", !.order = o, !.creates = TRUE,
                                !.moved = Dishes]
      /\ \A s \in Requests \ {r} : req'[s] = req[s]
  BY DEF Create, TypeOK
<1>3. req'[r].pc = "committed" /\ req'[r].order = o /\ req'[r].creates /\ req'[r].moved = Dishes
  BY <1>2 DEF Idle
<1>4. On(o, Working)' = {r} /\ Movers(o, d)' = {r}
  <2>1. \A s \in Requests \ {r} : s \notin On(o, Working)' /\ s \notin On(o, {"committed"})'
    BY <1>1, <1>2 DEF On, Working
  <2>2. r \in On(o, Working)' /\ r \in On(o, {"committed"})'
    BY <1>3 DEF On, Working
  <2>3. On(o, Working)' \subseteq Requests /\ On(o, {"committed"})' \subseteq Requests
    BY DEF On
  <2>4. On(o, Working)' = {r} /\ On(o, {"committed"})' = {r}
    BY <2>1, <2>2, <2>3
  <2> QED
    BY <1>3, <2>4 DEF Movers
<1>5. Touching(o, d)' = {}
  BY <1>1 DEF Create, Touching, Waiting
<1>6. \A q : Due(o, d, q)'
  BY <1>3, <1>4 DEF Due
<1> QED
  BY <1>3, <1>4, <1>5, <1>6 DEF Tracked

\* UpdateOrder reads the order.
LEMMA ReadTracked ==
  ASSUME TypeOK, NEW r \in Requests, NEW o \in Orders, NEW d \in Dishes,
         ReadOrder(r, o), Tracked(o, d)
  PROVE  Tracked(o, d)'
<1>1. /\ req'[r] = [Idle EXCEPT !.pc = "read", !.order = o, !.old = lines[o]]
      /\ \A s \in Requests \ {r} : req'[s] = req[s]
      /\ req[r].pc = "idle"
  BY DEF ReadOrder, TypeOK, At
<1>2. req'[r].pc = "read" /\ req'[r].old = lines[o]
  BY <1>1 DEF Idle
<1>3. Movers(o, d)' = Movers(o, d) /\ r \notin Movers(o, d)
  BY <1>1, <1>2 DEF Movers, On
<1>4. \A s \in Movers(o, d) : req'[s] = req[s]
  BY <1>1, <1>3 DEF Movers, On
<1>5. lines' = lines /\ board' = board /\ Touching(o, d)' = Touching(o, d)
  BY DEF ReadOrder, Touching, Waiting
<1>6. \A q : Due(o, d, q) => Due(o, d, q)'
  BY <1>3, <1>4, <1>5 DEF Due
<1>7. ReadStands(r, o, d)'
  BY <1>2, <1>5 DEF ReadStands
<1>8. ASSUME NEW s \in On(o, Working)', s # r
      PROVE  s \in On(o, Working) /\ req'[s] = req[s] /\ (ReadStands(s, o, d) => ReadStands(s, o, d)')
  BY <1>1, <1>3, <1>5, <1>8 DEF On, ReadStands
<1> QED
  BY <1>5, <1>6, <1>7, <1>8 DEF Tracked

\* The DELETE of ReplaceItems takes its snapshot.
LEMMA DeleteTracked ==
  ASSUME TypeOK, NEW r \in Requests, NEW o \in Orders, NEW d \in Dishes,
         DeleteItems(r, o), Tracked(o, d)
  PROVE  Tracked(o, d)'
<1>1. /\ req'[r] = [req[r] EXCEPT !.pc = "deleting", !.sees = lines[o]]
      /\ \A s \in Requests \ {r} : req'[s] = req[s]
      /\ req[r].pc = "read" /\ req[r] \in Request /\ req[r].order = o
  BY DEF DeleteItems, TypeOK, At
<1>2. /\ req'[r].pc = "deleting" /\ req'[r].old = req[r].old
      /\ req'[r].creates = req[r].creates /\ req'[r].order = o
  BY <1>1 DEF Request
<1>3. Movers(o, d)' = Movers(o, d) /\ r \notin Movers(o, d)
  BY <1>1, <1>2 DEF Movers, On
<1>4. \A s \in Movers(o, d) : req'[s] = req[s]
  BY <1>1, <1>3 DEF Movers, On
<1>5. lines' = lines /\ board' = board /\ Touching(o, d)' = Touching(o, d)
  BY DEF DeleteItems, Touching, Waiting
<1>6. \A q : Due(o, d, q) => Due(o, d, q)'
  BY <1>3, <1>4, <1>5 DEF Due
<1>7. On(o, Working)' = On(o, Working)
  BY <1>1, <1>2 DEF On, Working
<1>8. ASSUME NEW s \in On(o, Working)
      PROVE  /\ req'[s].creates = req[s].creates
             /\ ReadStands(s, o, d) => ReadStands(s, o, d)'
  BY <1>1, <1>2, <1>3, <1>5, <1>8 DEF On, ReadStands
<1> QED
  BY <1>5, <1>6, <1>7, <1>8 DEF Tracked

\* ReplaceItems commits.
LEMMA CommitTracked ==
  ASSUME TypeOK, CreatesOnlyNew, NEW r \in Requests, NEW o \in Orders, NEW d \in Dishes,
         NEW bill \in Bills, CommitItems(r, o, bill), Tracked(o, d), d \notin doubt'[o]
  PROVE  Tracked(o, d)'
<1> DEFINE new == (lines[o] \ req[r].sees) \cup LinesOf(r, bill)
           moved == Differing(lines[o], new)
<1>1. /\ req'[r] = [req[r] EXCEPT !.pc = "committed", !.moved = moved]
      /\ \A s \in Requests \ {r} : req'[s] = req[s]
      /\ req[r].pc = "deleting" /\ req[r] \in Request /\ req[r].order = o
      /\ lines'[o] = new
  BY DEF CommitItems, TypeOK, At
<1>2. /\ req'[r].pc = "committed" /\ req'[r].old = req[r].old /\ req'[r].moved = moved
      /\ req'[r].creates = req[r].creates /\ req'[r].order = o
  BY <1>1 DEF Request
<1>3. ~ req[r].creates /\ r \notin Movers(o, d) /\ r \in On(o, Working)
  BY <1>1 DEF CreatesOnlyNew, Movers, On, Working
<1>4. /\ NoTwin(lines[o], d) /\ NoTwin(new, d)
      /\ d \in moved => On(o, Working) \subseteq {r}
  <2>1. doubt'[o] = doubt[o] \cup Twins(lines[o]) \cup Twins(new) \cup
                      (IF On(o, Working) \subseteq {r} THEN {} ELSE moved)
    BY DEF CommitItems, Disturb, TypeOK
  <2> QED
    BY <2>1, TwinsNone
<1>5. ReadStands(r, o, d)
  BY <1>3 DEF Tracked
<1>6. NoTwin(req[r].old, d) /\ Quantity(req[r].old, d) = Quantity(lines[o], d)
  BY <1>1, <1>3, <1>4, <1>5 DEF ReadStands
<1>7. Touching(o, d)' = Touching(o, d) /\ board' = board /\ On(o, Working)' = On(o, Working)
  <2>1. On(o, Working)' = On(o, Working)
    BY <1>1, <1>2 DEF On, Working
  <2> QED
    BY <2>1 DEF CommitItems, Touching, Waiting
<1>8. CASE d \in moved
  <2>1. On(o, Working) = {r} /\ Movers(o, d) = {}
    BY <1>3, <1>4, <1>8 DEF Movers, On, Working
  <2>2. Movers(o, d)' = {r}
    <3>1. r \in Movers(o, d)'
      BY <1>2, <1>8 DEF Movers, On
    <3>2. Movers(o, d)' \subseteq On(o, Working)'
      BY DEF Movers, On, Working
    <3> QED
      BY <3>1, <3>2, <2>1, <1>7
  <2>3. \A q : Due(o, d, q) => Due(o, d, q)'
    BY <2>1, <2>2, <1>2, <1>6 DEF Due
  <2>4. ReadStands(r, o, d)'
    BY <1>1, <1>2, <1>4, <1>6, <2>2 DEF ReadStands
  <2> QED
    BY <1>7, <2>1, <2>3, <2>4 DEF Tracked
<1>9. CASE d \notin moved
  <2>1. Quantity(new, d) = Quantity(lines[o], d)
    BY <1>9 DEF Differing
  <2>2. Movers(o, d)' = Movers(o, d)
    BY <1>1, <1>2, <1>3, <1>9 DEF Movers, On
  <2>3. \A s \in Movers(o, d) : req'[s] = req[s]
    BY <1>1, <1>3 DEF Movers, On
  <2>4. \A q : Due(o, d, q) => Due(o, d, q)'
    BY <1>1, <2>1, <2>2, <2>3 DEF Due
  <2>5. ReadStands(r, o, d)'
    BY <1>1, <1>2, <1>3, <1>4, <1>6, <2>1, <2>2 DEF ReadStands
  <2>6. ASSUME NEW s \in On(o, Working), s # r
        PROVE  /\ req'[s] = req[s]
               /\ ReadStands(s, o, d) => ReadStands(s, o, d)'
    <3>1. req'[s] = req[s]
      BY <1>1, <2>6 DEF On
    <3> QED
      BY <3>1, <1>1, <1>4, <2>1, <2>2 DEF ReadStands
  <2> QED
    BY <1>7, <2>4, <2>5, <2>6 DEF Tracked
<1> QED
  BY <1>8, <1>9

\* UpdateOrder announces the difference between what it read and what it left.
LEMMA EditTracked ==
  ASSUME TypeOK, NEW r \in Requests, NEW o \in Orders, NEW d \in Dishes,
         AnnounceEdit(r, o), Tracked(o, d), d \notin doubt'[o]
  PROVE  Tracked(o, d)'
<1>1. PICK oldMap \in OldMaps(req[r].old) :
        Submit(r, DiffTicket(r, o, req[r].old, oldMap, lines[o]))
  BY DEF AnnounceEdit
<1> DEFINE t == DiffTicket(r, o, req[r].old, oldMap, lines[o])
<1>2. /\ req[r].pc = "committed" /\ req[r].order = o /\ ~ req[r].creates
      /\ req[r].old \in Rows /\ lines[o] \in Rows /\ board[o] \in [Dishes -> Nat]
  BY DEF AnnounceEdit, At, TypeOK, Request
<1>3. t.order = o
  BY <1>2, DiffTicketType
<1>4. ReadStands(r, o, d)
  BY <1>2 DEF Tracked, On, Working
<1>5. NoTwin(req[r].old, d) /\ NoTwin(lines[o], d)
  BY <1>2, <1>4 DEF ReadStands
<1>6. d \notin t.touches => Quantity(req[r].old, d) = Quantity(lines[o], d)
  <2>1. t.tells \subseteq t.touches
    BY DEF DiffTicket, Mode, FullTicket
  <2> DEFINE c == [e \in Dishes |-> Quantity(req[r].old, d)]
  <2>2. c \in [Dishes -> Nat] /\ c[d] = Quantity(req[r].old, d)
    <3>1. Quantity(req[r].old, d) \in Nat
      BY <1>2, QuantityNat
    <3> QED
      BY <3>1
  <2> HIDE DEF c
  <2>3. d \notin t.tells => Quantity(req[r].old, d) = Quantity(lines[o], d)
    BY <1>2, <1>5, <2>2, DiffTicketTells
  <2> QED
    BY <2>1, <2>3
<1>7. ASSUME Touching(o, d) = {}, Movers(o, d) \subseteq {r}
      PROVE  /\ Follow(board[o], t)[d] = Quantity(lines[o], d)
             /\ d \notin t.tells => board[o][d] = Quantity(lines[o], d)
  <2>1. Due(o, d, board[o][d])
    BY <1>7 DEF Tracked
  <2>2. board[o][d] = Quantity(req[r].old, d)
    <3>1. CASE r \in Movers(o, d)
      BY <2>1, <1>2, <3>1 DEF Due
    <3>2. CASE r \notin Movers(o, d)
      BY <2>1, <1>4, <1>7, <3>2 DEF Due, ReadStands
    <3> QED
      BY <3>1, <3>2
  <2> QED
    BY <2>2, <1>2, <1>5, DiffTicketTells
<1> HIDE DEF t
<1>8. Submit(r, t) /\ Finish(r) /\ UNCHANGED <<lines, closed, board>>
  BY <1>1 DEF AnnounceEdit, t
<1> QED
  BY <1>2, <1>3, <1>6, <1>7, <1>8, JoinTracked

\* CreateOrder announces the new order.
LEMMA NewTracked ==
  ASSUME TypeOK, NEW r \in Requests, NEW o \in Orders, NEW d \in Dishes,
         AnnounceNew(r, o), Tracked(o, d), d \notin doubt'[o]
  PROVE  Tracked(o, d)'
<1> DEFINE t == FullTicket(r, o, lines[o], Dishes)
<1>1. t.order = o /\ t.touches = Dishes /\ t.tells = Dishes
  BY DEF FullTicket
<1>2. Follow(board[o], t)[d] = Quantity(lines[o], d)
  BY DEF Follow, FullTicket
<1>3. Submit(r, t) /\ Finish(r) /\ UNCHANGED <<lines, closed, board>>
  BY DEF AnnounceNew
<1> HIDE DEF t
<1> QED
  BY <1>1, <1>2, <1>3, JoinTracked

\* The whole order is printed again.
LEMMA ReprintTracked ==
  ASSUME TypeOK, NEW r \in Requests, NEW o \in Orders, NEW d \in Dishes,
         Reprint(r, o), Tracked(o, d), d \notin doubt'[o]
  PROVE  Tracked(o, d)'
<1> DEFINE t == FullTicket(r, o, lines[o], {})
<1>1. t.order = o /\ t.touches = Dishes
  BY DEF FullTicket
<1>2. Follow(board[o], t)[d] = Quantity(lines[o], d)
  BY DEF Follow, FullTicket
<1>3. Submit(r, t) /\ Finish(r) /\ UNCHANGED <<lines, closed, board>>
  BY DEF Reprint
<1>4. r \notin Movers(o, d)
  BY DEF Reprint, At, Movers, On
<1>5. ASSUME Touching(o, d) = {}, Movers(o, d) \subseteq {r}
      PROVE  board[o][d] = Quantity(lines[o], d)
  BY <1>4, <1>5 DEF Tracked, Due
<1> HIDE DEF t
<1> QED
  BY <1>1, <1>2, <1>3, <1>5, JoinTracked

\* A ticket comes out.
LEMMA OutTracked ==
  ASSUME TypeOK, TicketsTouchWhatTheyName, NEW t \in tickets, NEW d \in Dishes, ComesOut(t),
         d \notin doubt[t.order] => Tracked(t.order, d),
         d \notin doubt'[t.order]
  PROVE  Tracked(t.order, d)'
<1> DEFINE o == t.order
<1>1. /\ t \in Ticket /\ o \in Orders /\ t \in Waiting(o)
      /\ board[o] \in [Dishes -> Nat] /\ lines[o] \in Rows
  BY DEF TypeOK, Ticket, Waiting
<1>2. /\ board'[o] = Follow(board[o], t) /\ lines' = lines /\ req' = req
      /\ Waiting(o)' = Waiting(o) \ {t}
  BY <1>1 DEF ComesOut, TypeOK, Waiting
<1>3. /\ On(o, Working)' = On(o, Working) /\ Movers(o, d)' = Movers(o, d)
      /\ Touching(o, d)' = Touching(o, d) \ {t}
      /\ \A q : Due(o, d, q) <=> Due(o, d, q)'
      /\ \A r : ReadStands(r, o, d) <=> ReadStands(r, o, d)'
  <2>1. On(o, Working)' = On(o, Working) /\ Movers(o, d)' = Movers(o, d)
    BY <1>2 DEF On, Movers
  <2>2. Touching(o, d)' = Touching(o, d) \ {t}
    BY <1>2 DEF Touching
  <2> QED
    BY <1>2, <2>1, <2>2 DEF Due, ReadStands
<1>4. CASE d \in doubt[o]
  <2>1. /\ t.mode = "Full" /\ t.shows = lines[o]
        /\ Waiting(o) = {t} /\ On(o, Working) = {}
    BY <1>4 DEF ComesOut
  <2>2. Touching(o, d)' = {} /\ Movers(o, d)' = {}
    BY <1>3, <2>1 DEF Touching, Movers, On, Working
  <2>3. board'[o][d] = Quantity(lines[o], d)
    BY <1>2, <2>1 DEF Follow
  <2>4. Due(o, d, board[o][d])'
    BY <1>2, <2>2, <2>3 DEF Due
  <2> QED
    BY <1>3, <2>1, <2>2, <2>4 DEF Tracked
<1>5. CASE d \notin doubt[o] /\ t \in Touching(o, d)
  <2>1. Touching(o, d)' = {}
    BY <1>3, <1>5 DEF Tracked
  <2>2. Due(o, d, board[o][d])'
    BY <1>2, <1>3, <1>5 DEF Tracked
  <2> QED
    BY <1>2, <1>3, <1>5, <2>1, <2>2 DEF Tracked
<1>6. CASE d \notin doubt[o] /\ t \notin Touching(o, d)
  <2>1. d \notin t.touches
    BY <1>1, <1>6 DEF Touching
  <2>2. board'[o][d] = board[o][d]
    BY <1>1, <1>2, <2>1, FollowLocal DEF TicketsTouchWhatTheyName
  <2>3. \A u \in Touching(o, d) : Follow(board'[o], u)[d] = Follow(board[o], u)[d]
    <3>1. board'[o] \in [Dishes -> Nat]
      BY <1>1, <1>2, FollowType
    <3>2. \A u \in Touching(o, d) : u \in Ticket /\ u \in tickets
      BY DEF Touching, Waiting, TypeOK
    <3> QED
      BY <1>1, <2>2, <3>1, <3>2, FollowLocal DEF TicketsTouchWhatTheyName
  <2> QED
    BY <1>2, <1>3, <1>6, <2>2, <2>3 DEF Tracked
<1> QED
  BY <1>4, <1>5, <1>6

\* A ticket is lost.
LEMMA LostTracked ==
  ASSUME TypeOK, NEW t \in tickets, NEW d \in Dishes, Lose(t), Tracked(t.order, d),
         d \notin doubt'[t.order]
  PROVE  Tracked(t.order, d)'
<1> DEFINE o == t.order
<1>1. o \in Orders /\ d \notin t.tells
  BY DEF TypeOK, Ticket, Lose
<1>2. board' = board /\ lines' = lines /\ req' = req /\ Waiting(o)' = Waiting(o) \ {t}
  BY DEF Lose, Waiting
<1>3. /\ On(o, Working)' = On(o, Working) /\ Movers(o, d)' = Movers(o, d)
      /\ Touching(o, d)' = Touching(o, d) \ {t}
      /\ \A q : Due(o, d, q) <=> Due(o, d, q)'
      /\ \A r : ReadStands(r, o, d) <=> ReadStands(r, o, d)'
  <2>1. On(o, Working)' = On(o, Working) /\ Movers(o, d)' = Movers(o, d)
    BY <1>2 DEF On, Movers
  <2>2. Touching(o, d)' = Touching(o, d) \ {t}
    BY <1>2 DEF Touching
  <2> QED
    BY <1>2, <2>1, <2>2 DEF Due, ReadStands
<1>4. Due(o, d, board[o][d]) \/ \E u \in Touching(o, d) : u # t
  BY <1>1 DEF Tracked
<1> QED
  BY <1>2, <1>3, <1>4 DEF Tracked

\* The server stops.
LEMMA CrashTracked ==
  ASSUME TypeOK, NEW o \in Orders, NEW d \in Dishes, Crash, Tracked(o, d), d \notin doubt'[o]
  PROVE  Tracked(o, d)'
<1>1. /\ \A t \in Waiting(o) : d \notin t.tells
      /\ Movers(o, d) = {}
  BY DEF Crash, Movers
<1>2. Due(o, d, board[o][d])
  <2>1. CASE Touching(o, d) = {}
    BY <2>1 DEF Tracked
  <2>2. CASE Touching(o, d) # {}
    <3>1. PICK t : t \in Touching(o, d)
      BY <2>2
    <3>2. d \notin t.tells
      BY <3>1, <1>1 DEF Touching
    <3> QED
      BY <3>1, <3>2 DEF Tracked
  <2> QED
    BY <2>1, <2>2
<1>3. lines' = lines /\ board' = board /\ tickets' = {}
  BY DEF Crash
<1>4. \A r \in Requests : req'[r].pc \in {"idle", "done"}
  BY DEF Crash, Idle, At
<1>5. On(o, Working)' = {} /\ Movers(o, d)' = {} /\ Touching(o, d)' = {}
  BY <1>3, <1>4 DEF On, Working, Movers, Touching, Waiting
<1>6. Due(o, d, board[o][d])'
  BY <1>1, <1>2, <1>3, <1>5 DEF Due
<1> QED
  BY <1>5, <1>6 DEF Tracked

-----------------------------------------------------------------------------
(* The theorems. *)

LEMMA InitIInv == Init => IInv
<1> SUFFICES ASSUME Init PROVE IInv
  OBVIOUS
<1>1. TypeOK
  BY InitType
<1>2. CreatesOnlyNew /\ TicketsTouchWhatTheyName
  BY DEF Init, Idle, CreatesOnlyNew, TicketsTouchWhatTheyName
<1>3. ASSUME NEW o \in Orders
      PROVE  Waiting(o) = {} /\ On(o, Working) = {} /\ ~ closed[o]
  BY DEF Init, Idle, Waiting, On, Working
<1>4. ASSUME NEW o \in Orders, NEW d \in Dishes
      PROVE  Tracked(o, d)
  <2>1. Touching(o, d) = {} /\ Movers(o, d) = {}
    BY <1>3 DEF Touching, Movers, On, Working
  <2>2. board[o][d] = Quantity(lines[o], d)
    <3>1. Quantity({}, d) = 0
      BY QuantityNone DEF Keys
    <3> QED
      BY <3>1 DEF Init
  <2> QED
    BY <1>3, <2>1, <2>2 DEF Tracked, Due
<1> QED
  BY <1>1, <1>2, <1>3, <1>4 DEF IInv, NewIsUntouched

\* A step that leaves order o alone leaves what is tracked of it alone.
LEMMA OtherTracked ==
  ASSUME TypeOK, NEW o \in Orders, NEW d \in Dishes, Tracked(o, d),
         NEW r \in Requests, NEW p \in Orders, p # o,
         \/ \E bill \in Bills : Create(r, p, bill) \/ CommitItems(r, p, bill)
         \/ AnnounceNew(r, p) \/ AnnounceEdit(r, p) \/ Reprint(r, p)
         \/ ReadOrder(r, p) \/ DeleteItems(r, p)
  PROVE  Tracked(o, d)'
<1>1. lines'[o] = lines[o] /\ board' = board
  BY DEF Create, CommitItems, AnnounceNew, AnnounceEdit, Reprint, ReadOrder, DeleteItems, TypeOK
<1>2. Waiting(o)' = Waiting(o)
  <2>1. CASE tickets' = tickets
    BY <2>1 DEF Waiting
  <2>2. CASE \E t : tickets' = tickets \cup {t} /\ t.order = p
    BY <2>2 DEF Waiting
  <2>3. \A x : FullTicket(r, p, lines[p], x).order = p
    BY DEF FullTicket
  <2>4. \A oldMap : DiffTicket(r, p, req[r].old, oldMap, lines[p]).order = p
    BY DEF DiffTicket, Mode, FullTicket
  <2> QED
    BY <2>1, <2>2, <2>3, <2>4
       DEF Create, CommitItems, AnnounceNew, AnnounceEdit, Reprint, ReadOrder, DeleteItems, Submit
<1>3. \A s \in Requests \ {r} : req'[s] = req[s]
  BY DEF Create, CommitItems, AnnounceNew, AnnounceEdit, Reprint, ReadOrder, DeleteItems, Finish,
         TypeOK
<1>4. r \notin Movers(o, d)
  BY DEF Movers, On, Create, CommitItems, AnnounceNew, AnnounceEdit, Reprint, ReadOrder,
         DeleteItems, At
<1>5. r \notin On(o, Working)'
  <2>1. r \in DOMAIN req /\ req[r] \in Request
    BY DEF TypeOK
  <2>2. CASE Finish(r)
    BY <2>1, <2>2 DEF Finish, Idle, On, Working
  <2>3. CASE ReadOrder(r, p)
    BY <2>1, <2>3 DEF ReadOrder, Idle, On
  <2>4. CASE DeleteItems(r, p)
    BY <2>1, <2>4 DEF DeleteItems, Request, On
  <2>5. ASSUME NEW bill \in Bills, Create(r, p, bill)
        PROVE  r \notin On(o, Working)'
    BY <2>1, <2>5 DEF Create, Idle, On
  <2>6. ASSUME NEW bill \in Bills, CommitItems(r, p, bill)
        PROVE  r \notin On(o, Working)'
    <3>1. req'[r] = [req[r] EXCEPT !.pc = "committed",
                        !.moved = Differing(lines[p], (lines[p] \ req[r].sees) \cup LinesOf(r, bill))]
      BY <2>1, <2>6 DEF CommitItems
    <3>2. req'[r].order = p
      BY <2>1, <2>6, <3>1 DEF Request, CommitItems
    <3> QED
      BY <3>2 DEF On
  <2> QED
    BY <2>2, <2>3, <2>4, <2>5, <2>6 DEF AnnounceNew, AnnounceEdit, Reprint
<1> QED
  BY <1>1, <1>2, <1>3, <1>4, <1>5, FrameTracked

LEMMA StepTracked ==
  ASSUME IInv, [Next]_vars, NEW o \in Orders, NEW d \in Dishes, d \notin doubt'[o]
  PROVE  Tracked(o, d)'
<1>1. TypeOK /\ CreatesOnlyNew /\ TicketsTouchWhatTheyName /\ NewIsUntouched(o)
  BY DEF IInv
<1>2. d \notin doubt[o] => Tracked(o, d)
  BY DEF IInv
<1>3. ASSUME NEW r \in Requests, NEW p \in Orders,
             \/ \E bill \in Bills : Create(r, p, bill) \/ CommitItems(r, p, bill)
             \/ AnnounceNew(r, p) \/ AnnounceEdit(r, p) \/ Reprint(r, p)
             \/ ReadOrder(r, p) \/ DeleteItems(r, p)
      PROVE  Tracked(o, d)'
  <2>1. doubt[o] \subseteq doubt'[o]
    <3>1. \A t : Submit(r, t) => doubt[o] \subseteq doubt'[o]
      BY <1>1 DEF Submit, TypeOK
    <3>2. \A new : Disturb(r, p, new) => doubt[o] \subseteq doubt'[o]
      BY <1>1 DEF Disturb, TypeOK
    <3> QED
      BY <1>3, <3>1, <3>2 DEF Create, CommitItems, AnnounceNew, AnnounceEdit, Reprint, ReadOrder,
                              DeleteItems
  <2>2. Tracked(o, d)
    BY <1>2, <2>1
  <2>3. CASE p = o
    BY <1>1, <1>3, <2>2, <2>3, CreateTracked, CommitTracked, NewTracked, EditTracked,
       ReprintTracked, ReadTracked, DeleteTracked
  <2>4. CASE p # o
    BY <1>1, <1>3, <2>2, <2>4, OtherTracked
  <2> QED
    BY <2>3, <2>4
<1>4. ASSUME NEW r \in Requests, Fail(r)
      PROVE  Tracked(o, d)'
  <2>1. d \notin doubt[o] /\ (r \in On(o, {"committed"}) => d \notin req[r].moved)
    BY <1>4 DEF Fail
  <2>2. r \notin Movers(o, d) /\ r \notin On(o, Working)'
    BY <2>1, <1>1, <1>4 DEF Movers, Fail, Finish, TypeOK, Idle, On, Working
  <2>3. \A s \in Requests \ {r} : req'[s] = req[s]
    BY <1>1, <1>4 DEF Fail, Finish, TypeOK
  <2>4. lines' = lines /\ board' = board /\ Waiting(o)' = Waiting(o)
    BY <1>4 DEF Fail, Waiting
  <2> QED
    BY <1>2, <2>1, <2>2, <2>3, <2>4, FrameTracked
<1>5. ASSUME UNCHANGED <<lines, req, tickets, board, doubt>>
      PROVE  Tracked(o, d)'
  <2>1. d \notin doubt[o] /\ Waiting(o)' = Waiting(o)
    BY <1>5 DEF Waiting
  <2> QED
    BY <1>2, <1>5, <2>1, FrameTracked
<1>6. ASSUME NEW t \in tickets, ComesOut(t) \/ Lose(t), t.order # o
      PROVE  Tracked(o, d)'
  <2>1. t.order \in Orders
    BY <1>1 DEF TypeOK, Ticket
  <2>2. d \notin doubt[o] /\ board'[o] = board[o] /\ lines' = lines /\ req' = req
    BY <1>1, <1>6, <2>1 DEF ComesOut, Lose, TypeOK
  <2>3. Waiting(o)' = Waiting(o)
    BY <1>6 DEF ComesOut, Lose, Waiting
  <2> QED
    BY <1>2, <2>2, <2>3, FrameTracked
<1>7. ASSUME NEW t \in tickets, ComesOut(t), t.order = o
      PROVE  Tracked(o, d)'
  BY <1>1, <1>2, <1>7, OutTracked
<1>8. ASSUME NEW t \in tickets, Lose(t), t.order = o
      PROVE  Tracked(o, d)'
  <2>1. d \notin doubt[o]
    BY <1>1, <1>8 DEF Lose, TypeOK
  <2> QED
    BY <1>1, <1>2, <1>8, <2>1, LostTracked
<1>9. ASSUME Crash
      PROVE  Tracked(o, d)'
  <2>1. d \notin doubt[o]
    BY <1>9 DEF Crash
  <2> QED
    BY <1>1, <1>2, <1>9, <2>1, CrashTracked
<1> QED
  BY <1>3, <1>4, <1>5, <1>6, <1>7, <1>8, <1>9 DEF Next, Handle, ChangeStatus, vars

LEMMA StepIInv == IInv /\ [Next]_vars => IInv'
<1> SUFFICES ASSUME IInv, [Next]_vars PROVE IInv'
  OBVIOUS
<1>1. TypeOK'
  BY StepType DEF IInv
<1>2. CreatesOnlyNew'
  BY StepCreates DEF IInv
<1>3. TicketsTouchWhatTheyName'
  BY StepShape DEF IInv
<1>4. \A o \in Orders : NewIsUntouched(o)'
  BY StepNew DEF IInv
<1>5. \A o \in Orders : \A d \in Dishes : d \notin doubt'[o] => Tracked(o, d)'
  BY StepTracked
<1> QED
  BY <1>1, <1>2, <1>3, <1>4, <1>5 DEF IInv

LEMMA IInvKeepsStep == IInv => KitchenInStep
<1> SUFFICES ASSUME IInv, NEW o \in Orders, Quiet(o), NEW d \in Dishes \ doubt[o]
             PROVE  board[o][d] = Quantity(lines[o], d)
  BY DEF KitchenInStep
<1>1. Touching(o, d) = {} /\ Movers(o, d) = {}
  BY DEF Quiet, Touching, Movers
<1>2. Tracked(o, d)
  BY DEF IInv
<1> QED
  BY <1>1, <1>2 DEF Tracked, Due

\* In every reachable state the variables hold values of their tables.
THEOREM KitchenType == Spec => []TypeOK
<1>1. TypeOK /\ [Next]_vars => TypeOK'
  BY StepType
<1> QED
  BY InitType, <1>1, PTL DEF Spec

\* The inductive invariant holds in every reachable state.
THEOREM KitchenInvariant == Spec => []IInv
BY InitIInv, StepIInv, PTL DEF Spec

\* Whatever is lost, delayed, reordered or edited over: once an order's tickets
\* are out, the kitchen owes what the order says of every dish no hazard
\* touched.
THEOREM InStep == Spec => []KitchenInStep
BY KitchenInvariant, IInvKeepsStep, PTL
=============================================================================
