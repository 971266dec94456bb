----------------------------- MODULE MCPayments -----------------------------
(* Small instances of Payments for TLC. *)
EXTENDS Payments, TLC

CONSTANTS u1, c1, o1, o2, p1, p2, h1, h2

OneUser == {u1}
OneCourse == {c1}
OneOrder == {o1}
TwoOrders == {o1, o2}
TwoPayments == {p1, p2}
OneHandler == {h1}
TwoHandlers == {h1, h2}

Symmetry == Permutations({o1, o2}) \union Permutations({p1, p2})
              \union Permutations({h1, h2})
=============================================================================
