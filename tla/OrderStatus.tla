---------------------------- MODULE OrderStatus ----------------------------
(***************************************************************************)
(* The order life cycle (app/internal/pkg/status).  The code holds it      *)
(* twice: as the Permit table of a stateless state machine, and as the     *)
(* (from, to) table of ResolveTrigger that turns the target status of an   *)
(* API call into a trigger.  A status change passes through both.          *)
(***************************************************************************)

OrderStatuses == {"NONE", "CREATED", "PAID", "PREPARING", "COMPLETED", "CANCELLED"}

Triggers == {"create", "pay", "prepare", "complete", "cancel"}

\* What ParseAPIStatus accepts as the target of a request.
ApiStatuses == OrderStatuses \ {"NONE"}

\* Permit calls of NewOrderStateMachine: from, trigger, to.
Permitted ==
  { <<"NONE",      "create",   "CREATED">>,
    <<"NONE",      "cancel",   "CANCELLED">>,
    <<"CREATED",   "pay",      "PAID">>,
    <<"CREATED",   "prepare",  "PREPARING">>,
    <<"CREATED",   "complete", "COMPLETED">>,
    <<"CREATED",   "cancel",   "CANCELLED">>,
    <<"PAID",      "prepare",  "PREPARING">>,
    <<"PAID",      "cancel",   "CANCELLED">>,
    <<"PREPARING", "complete", "COMPLETED">>,
    <<"PREPARING", "cancel",   "CANCELLED">>,
    <<"COMPLETED", "cancel",   "CANCELLED">> }

\* The map of ResolveTrigger: from, to, trigger.
TriggerTable ==
  { <<"CREATED",   "PAID",      "pay">>,
    <<"CREATED",   "PREPARING", "prepare">>,
    <<"CREATED",   "COMPLETED", "complete">>,
    <<"CREATED",   "CANCELLED", "cancel">>,
    <<"PAID",      "PREPARING", "prepare">>,
    <<"PAID",      "CANCELLED", "cancel">>,
    <<"PREPARING", "COMPLETED", "complete">>,
    <<"PREPARING", "CANCELLED", "cancel">>,
    <<"COMPLETED", "CANCELLED", "cancel">> }

ResolveTrigger(from, to) == {t \in Triggers : <<from, to, t>> \in TriggerTable}

Fire(from, trigger) == {to \in OrderStatuses : <<from, trigger, to>> \in Permitted}

\* Fault: the requested status is stored without consulting the state machine.
StatusUnchecked(from, target) == {target}

(***************************************************************************)
(* The status a request for `target` leaves an order in when it was read   *)
(* as `from`: what the machine reports after the resolved trigger fired,   *)
(* not the requested target itself.  Empty when either table refuses.      *)
(***************************************************************************)
StatusAfter(from, target) == UNION {Fire(from, t) : t \in ResolveTrigger(from, target)}

\* Position of a status on the way from a new order to a finished one.
Stage(status) ==
  CASE status = "NONE"      -> 0
    [] status = "CREATED"   -> 1
    [] status = "PAID"      -> 2
    [] status = "PREPARING" -> 3
    [] status = "COMPLETED" -> 4
    [] status = "CANCELLED" -> 5
=============================================================================
