---------------------------- MODULE MCOrderBook ----------------------------
(* Model values for OrderBook: customer c1 may open two tabs, c2 one. *)
EXTENDS OrderBook, TLC

CONSTANTS o1, o2, s1, s2, s3, c1, c2

MCOrders == {o1, o2}
MCSettlements == {s1, s2, s3}
MCCustomer == s1 :> c1 @@ s2 :> c1 @@ s3 :> c2

\* Nothing tells two orders apart, nor two tabs of the same customer.
MCSymmetry == Permutations({o1, o2}) \cup Permutations({s1, s2})
=============================================================================
