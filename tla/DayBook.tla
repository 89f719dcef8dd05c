------------------------------ MODULE DayBook ------------------------------
(***************************************************************************)
(* What is counted by day: the pick-up number of an order, its position    *)
(* among the orders created on its day, and the sales report of a range of *)
(* days.  Both are computed from the orders each time they are asked for,  *)
(* while handlers change the orders.                                       *)
(*                                                                         *)
(* A new order takes its creation time and then its id in the server, and  *)
(* is seen by others when its transaction commits: numbers follow the ids, *)
(* so an order that commits late pushes up the numbers of later ones that  *)
(* were already called out.  A report reads the days and the sum over them *)
(* with two queries.                                                       *)
(*                                                                         *)
(* Time is counted from midnight of day 0 in the time zone of the code.    *)
(* All other handlers are those of OrderBook.                              *)
(***************************************************************************)
EXTENDS OrderBook, FiniteSets

CONSTANTS
  DayLength,   \* instants per day
  Horizon      \* bound: the last instant

ASSUME TimeAssumption == DayLength \in Nat \ {0} /\ Horizon \in Nat
ASSUME OrdersAssumption == IsFiniteSet(Orders)

VARIABLES
  now,      \* the clock
  entry,    \* how far the creation of each order is, with created_at and id
  drawn,    \* the last id given out
  shown,    \* history: the last look at each order's number, if it found one
  report    \* a sales report, from its first query to its reply

dayVars == <<order, settlement, now, entry, drawn, shown, report>>

-----------------------------------------------------------------------------
(* Pick-up numbers *)

\* dateOnlyCST, and the first instant of a day.
DayOf(t) == t \div DayLength
Midnight(d) == d * DayLength

\* The range of created_at in a WHERE clause, for the days first to last.
Within(o, first, last) ==
  entry[o].created >= Midnight(first) /\ entry[o].created < Midnight(last + 1)

\* Fault: cancelled orders are not numbered.
NotCancelledOf(day) ==
  {o \in Orders : Exists(o) /\ order[o].status # "CANCELLED" /\ Within(o, day, day)}

\* The orders DailySequences numbers.
OrdersOf(day) == {o \in Orders : Exists(o) /\ Within(o, day, day)}

\* Fault: orders are numbered by their creation time.
CountedByTime(o) ==
  {p \in OrdersOf(DayOf(entry[o].created)) : entry[p].created <= entry[o].created}

\* Those up to o in the order of ids.
Counted(o) == {p \in OrdersOf(DayOf(entry[o].created)) : entry[p].id <= entry[o].id}

DailySequence(o) == Cardinality(Counted(o))

\* Orders of o's day with an earlier id that nobody can see yet.
InFlightBefore(o) ==
  LET day == DayOf(entry[o].created) IN
  {p \in Orders : entry[p].stage = "inserted" /\ Within(p, day, day) /\ entry[p].id < entry[o].id}

-----------------------------------------------------------------------------
(* Sales reports *)

SaleStatuses == {"PAID", "PREPARING", "COMPLETED"}

Revenue(o) == IF order[o].actual > 0 THEN order[o].actual ELSE order[o].total

\* ParseStatsDateRange; Null stands for a date that is not given.
DateRange(start, end) ==
  LET from == IF start = Null THEN DayOf(now) ELSE start
      to   == IF end = Null THEN from ELSE end
  IN  IF to < from THEN [first |-> to, last |-> from] ELSE [first |-> from, last |-> to]

SaleOrders(range) ==
  {o \in Orders : /\ Exists(o) /\ order[o].status \in SaleStatuses
                  /\ Within(o, range.first, range.last)}

Figures(S) ==
  [orders     |-> Cardinality(S),
   revenue    |-> SumFunctionOnSet([o \in Orders |-> Revenue(o)], S),
   receivable |-> SumFunctionOnSet([o \in Orders |-> order[o].total], S)]

AggregateSummary(range) == Figures(SaleOrders(range))

\* Fault: days are told apart in another time zone than that of the range.
AggregateInOtherZone(range) ==
  [d \in range.first .. range.last |->
     Figures({o \in SaleOrders(range) : DayOf(entry[o].created + 1) = d})]

\* Fault: the last day of the range is left out.
AggregateUntilLast(range) ==
  [d \in range.first .. range.last - 1 |->
     Figures({o \in SaleOrders(range) : DayOf(entry[o].created) = d})]

AggregateDaily(range) ==
  [d \in range.first .. range.last |->
     Figures({o \in SaleOrders(range) : DayOf(entry[o].created) = d})]

NoReport == [stage |-> "none", touched |-> {}]

\* A report between its two queries remembers the orders that change.
Touch ==
  report' = IF report.stage = "daily"
              THEN [report EXCEPT !.touched = @ \cup {o \in Orders : order'[o] # order[o]}]
              ELSE report

-----------------------------------------------------------------------------
DayInit ==
  /\ Init
  /\ now = 0 /\ drawn = 0
  /\ entry = [o \in Orders |-> [stage |-> "none", created |-> 0, id |-> 0]]
  /\ shown = [o \in Orders |-> {}]
  /\ report = NoReport

Tick ==
  /\ now < Horizon
  /\ now' = now + 1
  /\ UNCHANGED <<order, settlement, entry, drawn, shown, report>>

\* The default of created_at.
StampOrder(o) ==
  /\ entry[o].stage = "none"
  /\ entry' = [entry EXCEPT ![o] = [@ EXCEPT !.stage = "stamped", !.created = now]]
  /\ UNCHANGED <<order, settlement, now, drawn, shown, report>>

\* Fault: two orders can get the same id.
DrawSameId(o) ==
  /\ entry[o].stage = "stamped"
  /\ entry' = [entry EXCEPT ![o] = [@ EXCEPT !.stage = "inserted", !.id = drawn + 1]]
  /\ UNCHANGED <<order, settlement, now, drawn, shown, report>>

\* The hook that sets the id, and the INSERT.
DrawId(o) ==
  /\ entry[o].stage = "stamped"
  /\ drawn' = drawn + 1
  /\ entry' = [entry EXCEPT ![o] = [@ EXCEPT !.stage = "inserted", !.id = drawn + 1]]
  /\ UNCHANGED <<order, settlement, now, shown, report>>

\* The lines are inserted and the transaction commits: others see the order.
CommitOrder(o, total, actual) ==
  /\ entry[o].stage = "inserted"
  /\ CreateOrder(o, total, actual)
  /\ entry' = [entry EXCEPT ![o] = [@ EXCEPT !.stage = "committed"]]
  /\ Touch
  /\ UNCHANGED <<now, drawn, shown>>

\* An error, a taken order number or a crash: the id is lost.
FailOrder(o) ==
  /\ entry[o].stage \in {"stamped", "inserted"}
  /\ entry' = [entry EXCEPT ![o] = [@ EXCEPT !.stage = "failed"]]
  /\ UNCHANGED <<order, settlement, now, drawn, shown, report>>

\* Any other handler on orders and tabs.
ChangeOrders ==
  /\ Next
  /\ \A o \in Orders : Exists(o)' => Exists(o)
  /\ Touch
  /\ UNCHANGED <<now, entry, drawn, shown>>

\* The number goes on a screen or on a ticket.  Looks at several orders of a day are
\* one query in the code, and looks without a step between them here.  When the query
\* fails, the reply says 0 and the ticket nothing: the order is shown without a number.
ShowNumber(o) ==
  /\ Exists(o)
  /\ \E looks \in {{}, {[counted |-> Counted(o), ahead |-> InFlightBefore(o)]}} :
       shown' = [shown EXCEPT ![o] = looks]
  /\ UNCHANGED <<order, settlement, now, entry, drawn, report>>

ReadDaily(start, end) ==
  LET range == DateRange(start, end) IN
  /\ report.stage = "none"
  /\ report' = [stage |-> "daily", touched |-> {}, range |-> range,
                daily |-> AggregateDaily(range)]
  /\ UNCHANGED <<order, settlement, now, entry, drawn, shown>>

\* The second query; the reply goes out, or the query failed.
ReadSummary ==
  /\ report.stage = "daily"
  /\ report' = NoReport
  /\ UNCHANGED <<order, settlement, now, entry, drawn, shown>>

Dates == {Null} \cup 0 .. DayOf(Horizon)

DayNext ==
  \/ Tick
  \/ \E o \in Orders : StampOrder(o) \/ DrawId(o) \/ FailOrder(o) \/ ShowNumber(o)
  \/ \E o \in Orders, total, actual \in Amounts : CommitOrder(o, total, actual)
  \/ ChangeOrders
  \/ \E start, end \in Dates : ReadDaily(start, end)
  \/ ReadSummary

DaySpec == DayInit /\ [][DayNext]_dayVars

-----------------------------------------------------------------------------
(* Properties *)

Entry == [stage : {"none", "stamped", "inserted", "committed", "failed"},
          created : 0 .. Horizon, id : Nat]

Look == [counted : SUBSET Orders, ahead : SUBSET Orders]

DayTypeOK ==
  /\ now \in 0 .. Horizon
  /\ drawn \in Nat
  /\ entry \in [Orders -> Entry]
  /\ shown \in [Orders -> SUBSET Look]

\* An order is visible from the commit of its creation on.
SeenWhenCommitted == \A o \in Orders : Exists(o) <=> entry[o].stage = "committed"

\* Ids are drawn once, in ascending order.
IdsAreUnique ==
  \A o \in Orders :
    /\ entry[o].id <= drawn
    /\ entry[o].stage \in {"inserted", "committed"} => entry[o].id > 0
    /\ \A p \in Orders : entry[o].id = entry[p].id /\ entry[o].id > 0 => o = p

\* What a look counted is still counted; what is counted more, or may yet be, was in
\* flight when it looked.
LooksAge ==
  \A o \in Orders : \A look \in shown[o] :
    /\ Exists(o)
    /\ look.counted \subseteq Counted(o)
    /\ Counted(o) \subseteq look.counted \cup look.ahead
    /\ InFlightBefore(o) \subseteq look.ahead

\* The inductive invariant: a number only changes by orders that already had their
\* ids, so ids and looks must be known to agree in every step.
DayInv == TypeOK /\ DayTypeOK /\ SeenWhenCommitted /\ IdsAreUnique /\ LooksAge

\* A number that was called out is never too high, and too low by at most the orders
\* whose creation was in flight at that moment: cancelling, editing or settling orders
\* later, and any order that begins later, leave it alone.
NumberDrift ==
  \A o \in Orders : \A look \in shown[o] :
    /\ Cardinality(look.counted) <= DailySequence(o)
    /\ DailySequence(o) <= Cardinality(look.counted) + Cardinality(look.ahead)

\* Two orders of one day whose numbers were read with no earlier creation in flight
\* never carry the same number, whenever each of them was read.
NumbersAreDistinct ==
  \A o, p \in Orders : \A look \in shown[o], other \in shown[p] :
    o # p /\ DayOf(entry[o].created) = DayOf(entry[p].created)
          /\ look.ahead = {} /\ other.ahead = {}
      => Cardinality(look.counted) # Cardinality(other.counted)

\* The inductive invariant of a report under way: its days count the sale orders there were
\* at its first query, and an order that was not touched since is still a sale or still not.
ReportInv ==
  LET range == report.range IN
  /\ report.stage \in {"none", "daily"}
  /\ report.stage = "daily" =>
       /\ DOMAIN report = {"stage", "touched", "range", "daily"}
       /\ range.first \in Int /\ range.last \in Int /\ report.touched \subseteq Orders
       /\ DOMAIN report.daily = range.first .. range.last
       /\ report.touched = {} => report.daily = AggregateDaily(range)
       /\ \E S \in SUBSET Orders :
            /\ \A o \in S : Exists(o) /\ Within(o, range.first, range.last)
            /\ \A o \in Orders \ report.touched : o \in S <=> o \in SaleOrders(range)
            /\ \A d \in DOMAIN report.daily :
                 report.daily[d].orders = Cardinality({o \in S : DayOf(entry[o].created) = d})

Sum(field) == SumFunctionOnSet([d \in DOMAIN report.daily |-> report.daily[d][field]],
                               DOMAIN report.daily)

\* The days of a report add up to its summary, whenever that is read and whatever range
\* was asked for, unless orders changed since the first query; then the count is off by
\* at most as many orders.
ReportAddsUp ==
  LET summary == AggregateSummary(report.range) IN
  report.stage = "daily" =>
    /\ report.touched = {} => \A field \in {"orders", "revenue", "receivable"} :
                                 Sum(field) = summary[field]
    /\ Sum("orders") - summary.orders \in -Cardinality(report.touched) .. Cardinality(report.touched)
=============================================================================
