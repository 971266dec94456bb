--------------------------- MODULE MCNotifications ---------------------------
(* A small instance of Notifications for TLC: no symmetry, for the sake of    *)
(* liveness.                                                                  *)
EXTENDS Notifications

CONSTANTS u1, c1, o1, p1, p2, h1

OneUser == {u1}
OneCourse == {c1}
OneOrder == {o1}
TwoPayments == {p1, p2}
OneHandler == {h1}
=============================================================================
