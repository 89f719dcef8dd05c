----------------------------- MODULE MCCatalog -----------------------------
(* Model values for Catalog. *)
EXTENDS Catalog, TLC

CONSTANTS r1, r2, c1, c2, g1, g2, i1, i2, k1, k2, m1, m2, t1, t2, n1, n2

\* What clients write: names alone, a template, an item, both, or names that
\* are not to be matched with a template.
ByName(n) == [template |-> Null, item |-> Null, type |-> t1, name |-> n, price |-> 0,
              custom |-> FALSE]
Custom(n) == [ByName(n) EXCEPT !.custom = TRUE]
ById(k, i) == [ByName(Null) EXCEPT !.template = k, !.item = i, !.type = Null]

MCLists == {<< >>}
           \cup {<<ByName(n)>> : n \in Names}
           \cup {<<Custom(n), ById(k, Null)>> : n \in Names, k \in Templates}
           \cup {<<ById(Null, i), ById(k, i)>> : k \in Templates, i \in Items}
MCFewLists == {<<ByName(n1)>>}

\* Nothing tells rows or names apart.
MCSymmetry == Permutations({g1, g2}) \cup Permutations({i1, i2}) \cup Permutations({n1, n2})
=============================================================================
