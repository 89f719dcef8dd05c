------------------------------- MODULE MCRbac -------------------------------
(* Model values for Rbac: one preset and one custom role, and either a single   *)
(* permission or two that share an endpoint.                                    *)
EXTENDS Rbac, TLC

CONSTANTS admin, u1, super, r1, a, b, e1, e2, q1, q2, startup

MCRules == a :> {e1} @@ b :> {e1, e2}
MCDefaults == super :> {a, b}

MCOneRule == b :> {e1, e2}
MCOneDefault == super :> {b}
=============================================================================
