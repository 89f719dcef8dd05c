--------------------------- MODULE MCOrderBookTx ---------------------------
(* Model values for OrderBookTx. *)
EXTENDS OrderBookTx, TLC

CONSTANTS o1, o2, s1, s2, c1, c2, r1, r2

MCSameCustomer == s1 :> c1 @@ s2 :> c1
MCTwoCustomers == s1 :> c1 @@ s2 :> c2
MCOneTab == s1 :> c1

\* Nothing tells two orders apart, nor two requests, nor two tabs of one customer.
MCSymmetry == Permutations({o1, o2}) \cup Permutations({r1, r2})
MCTabSymmetry == Permutations({o1, o2}) \cup Permutations({s1, s2})
=============================================================================
