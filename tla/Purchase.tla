------------------------------ MODULE Purchase ------------------------------
(***************************************************************************)
(* What the shop promises its students, independently of webhooks, polling *)
(* and locks: money that reached the gateway is exchanged for the          *)
(* materials of its order, each payment at most once, and nothing is       *)
(* handed over before some payment of the order was approved.  Payments    *)
(* implements this specification (Payments!PurchaseSpec).                  *)
(***************************************************************************)
CONSTANTS Orders, PaymentIds

VARIABLES
  owed,       \* owed[p]: the order payment p was made for, once approved
  spent,      \* payments already exchanged for their order's materials
  delivered   \* orders whose materials were handed over

purchaseVars == <<owed, spent, delivered>>

Init ==
  /\ owed = {}
  /\ spent = {}
  /\ delivered = {}

\* The gateway approves a payment of order o.
Approve(p, o) ==
  /\ \A e \in owed : e.payment # p
  /\ owed' = owed \union {[payment |-> p, order |-> o]}
  /\ UNCHANGED <<spent, delivered>>

\* The shop turns an approved, unused payment into the order's materials.
Deliver(p, o) ==
  /\ [payment |-> p, order |-> o] \in owed
  /\ p \notin spent
  /\ spent' = spent \union {p}
  /\ delivered' = delivered \union {o}
  /\ UNCHANGED owed

Next == \E p \in PaymentIds, o \in Orders : Approve(p, o) \/ Deliver(p, o)

Spec == Init /\ [][Next]_purchaseVars
=============================================================================
