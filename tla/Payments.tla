------------------------------ MODULE Payments ------------------------------
(***************************************************************************)
(* Course purchases and paid certificate renewals through Mercado Pago:    *)
(* endpoints/payments.py and services/payment_service.py.                  *)
(*                                                                         *)
(* A student places an order (Checkout, RenewCheckout); the gateway, which *)
(* is external, creates payments for it and moves them between states; the *)
(* backend learns about them from webhook deliveries, which may be lost,   *)
(* duplicated and reordered, and from the student's polling of             *)
(* GET /payments/orders/{id}.  Both paths read the payment from the        *)
(* gateway first and only then open the order row FOR UPDATE, so they act  *)
(* on a snapshot.  The transaction that follows (lock, event lookup,       *)
(* materialisation, event insert, commit) is one action: the row lock is   *)
(* held to the commit, so no other handler of the same order runs inside   *)
(* it, and an insert that collides with one of another order (unique       *)
(* enrolment, unique pending request) rolls everything back, as Abort.     *)
(***************************************************************************)
EXTENDS Naturals, FiniteSets

CONSTANTS
  Users,         \* students
  Courses,       \* published courses that are for sale
  CertCourses,   \* courses with a certificate type
  Orders,        \* order numbers (external_reference), globally unique
  PaymentIds,    \* ids the gateway gives to payments
  Handlers,      \* concurrent requests of the API: webhooks and polls
  None           \* null

ASSUME ConstantsAssumption ==
  /\ CertCourses \subseteq Courses
  /\ None \notin Orders \union PaymentIds \union Users

Seats == Users \X Courses

OrderStatus == {"pending", "approved", "failed", "cancelled"}
PaymentStatus == {"in_process", "approved", "rejected", "cancelled", "refunded"}
\* Without "revoked", which takes a certificate out of the renewals, and is the
\* business of CertificateLifecycle.
CertStatus == {"none", "active", "expired"}
PendingStatus == {"none", "in_progress", "issued"}

OrderRecord == [status: OrderStatus \union {"unplaced"},
                user: Users \union {None}, items: SUBSET Courses,
                renewal: BOOLEAN]
Unplaced == [status |-> "unplaced", user |-> None, items |-> {}, renewal |-> FALSE]

PaymentRecord == [status: PaymentStatus \union {"unknown"},
                  order: Orders \union {None}, everApproved: BOOLEAN]
Unknown == [status |-> "unknown", order |-> None, everApproved |-> FALSE]

PendingRecord == [status: PendingStatus, renewal: BOOLEAN]
NoPending == [status |-> "none", renewal |-> FALSE]

\* pc = "loaded": a poll holds its order as read; "fetched": a request also
\* holds a snapshot of a payment and is about to open its transaction.
HandlerRecord == [pc: {"idle", "loaded", "fetched"}, path: {"webhook", "poll"},
                  order: Orders \union {None}, payment: PaymentIds \union {None},
                  snapshot: PaymentStatus \union {"unknown"}]
Idle == [pc |-> "idle", path |-> "webhook", order |-> None, payment |-> None,
         snapshot |-> "unknown"]

VARIABLES
  orders,      \* course_orders with their items
  payments,    \* the gateway's payments, with whether each was ever approved
  events,      \* payment ids in payment_webhook_events
  enrolled,    \* course_enrollments
  pending,     \* pending_certificates, at most one per student and course
  completed,   \* seats whose course is at 100%
  certs,       \* the status of the seat's certificate
  handlers,    \* the requests being served
  grants       \* grants[p]: how often payment p was materialised (history)

db == <<orders, events, enrolled, pending, completed, certs, grants>>
vars == <<orders, payments, events, enrolled, pending, completed, certs,
          handlers, grants>>

\* An administrator may have issued certificates before.
Init ==
  /\ orders = [o \in Orders |-> Unplaced]
  /\ payments = [p \in PaymentIds |-> Unknown]
  /\ events = {}
  /\ enrolled = {}
  /\ pending = [s \in Seats |-> NoPending]
  /\ completed = {}
  /\ certs \in [Seats -> CertStatus]
  /\ handlers = [h \in Handlers |-> Idle]
  /\ grants = [p \in PaymentIds |-> 0]

-----------------------------------------------------------------------------
(* The student places orders.                                              *)

PlaceOrder(o, u, items, renewal) ==
  /\ orders[o] = Unplaced
  /\ orders' = [orders EXCEPT ![o] = [status |-> "pending", user |-> u,
                                      items |-> items, renewal |-> renewal]]

\* POST /payments/checkout; nothing stops a student from buying a course twice.
Checkout(o, u, items) ==
  /\ items # {}
  /\ PlaceOrder(o, u, items, FALSE)
  /\ UNCHANGED <<payments, events, enrolled, pending, completed, certs, handlers, grants>>

\* The guard of POST /payments/renew/{certificate_id}: the certificate is
\* expired and no renewal of it is in progress.
Renewable(s) == certs[s] = "expired" /\ pending[s] # [status |-> "in_progress", renewal |-> TRUE]

RenewCheckout(o, s) ==
  /\ Renewable(s)
  /\ PlaceOrder(o, s[1], {s[2]}, TRUE)
  /\ UNCHANGED <<payments, events, enrolled, pending, completed, certs, handlers, grants>>

\* Re-enrol the student, wipe the course's progress and reopen the request.
OpenRenewal(seats) ==
  /\ enrolled' = enrolled \union seats
  /\ completed' = completed \ seats
  /\ pending' = [s \in Seats |->
       IF s \in seats THEN [status |-> "in_progress", renewal |-> TRUE] ELSE pending[s]]

\* The same endpoint when the renewal price, which an administrator may change at
\* any time, is 0: start_renewal at once.
FreeRenewal(s) ==
  /\ Renewable(s)
  /\ OpenRenewal({s})
  /\ UNCHANGED <<orders, payments, events, certs, handlers, grants>>

-----------------------------------------------------------------------------
(* The gateway (external).  A student may pay an order with several        *)
(* payments: a rejected card followed by a good one, or two tabs.          *)

PaymentStarts(p, o, status) ==
  /\ payments[p] = Unknown
  /\ orders[o].status # "unplaced"
  /\ status \in {"in_process", "approved", "rejected"}
  /\ payments' = [payments EXCEPT ![p] = [status |-> status, order |-> o,
                                          everApproved |-> status = "approved"]]
  /\ UNCHANGED <<orders, events, enrolled, pending, completed, certs, handlers, grants>>

PaymentMoves(p, status) ==
  /\ \/ payments[p].status = "in_process" /\ status \in {"approved", "rejected", "cancelled"}
     \/ payments[p].status = "approved" /\ status = "refunded"
  /\ payments' = [payments EXCEPT ![p].status = status,
                                  ![p].everApproved = @ \/ status = "approved"]
  /\ UNCHANGED <<orders, events, enrolled, pending, completed, certs, handlers, grants>>

-----------------------------------------------------------------------------
(* Requests of the API.                                                    *)

\* A notification of payment p, first or repeated, or of the merchant order
\* whose list begins with p, is resolved by asking the gateway.
WebhookFetch(h, p) ==
  /\ handlers[h].pc = "idle"
  /\ payments[p].status # "unknown"
  /\ handlers' = [handlers EXCEPT ![h] =
       [pc |-> "fetched", path |-> "webhook", order |-> payments[p].order,
        payment |-> p, snapshot |-> payments[p].status]]
  /\ UNCHANGED <<payments, db>>

\* get_order reads the order into its session and goes on only if pending.
PollLoad(h, o) ==
  /\ handlers[h].pc = "idle"
  /\ orders[o].status = "pending"
  /\ handlers' = [handlers EXCEPT ![h] = [Idle EXCEPT !.pc = "loaded", !.path = "poll",
                                                      !.order = o]]
  /\ UNCHANGED <<payments, db>>

\* Faults: the search result is taken as proof of payment; only its first result
\* is looked at.
PaidFor_AnyPayment(o) == {p \in PaymentIds : payments[p].order = o}
PaidFor_First(o) ==
  LET found == {p \in PaymentIds : payments[p].order = o}
  IN  {p \in found : p = (CHOOSE q \in found : TRUE) /\ payments[p].status = "approved"}

\* The approved payments among those the gateway finds for the order.
PaidFor(o) == {p \in PaymentIds : payments[p].order = o /\ payments[p].status = "approved"}

\* reconcile_order processes the first approved payment of the search, if any.
PollSearch(h) ==
  /\ handlers[h].pc = "loaded"
  /\ \/ /\ PaidFor(handlers[h].order) = {}
        /\ handlers' = [handlers EXCEPT ![h] = Idle]
     \/ \E p \in PaidFor(handlers[h].order) :
          handlers' = [handlers EXCEPT ![h].pc = "fetched", ![h].payment = p,
                                       ![h].snapshot = "approved"]
  /\ UNCHANGED <<payments, db>>

\* A crash, a gateway or database error, or a collision with another
\* transaction: rolled back.  The gateway repeats what was answered with 500.
Abort(h) ==
  /\ handlers[h].pc # "idle"
  /\ handlers' = [handlers EXCEPT ![h] = Idle]
  /\ UNCHANGED <<payments, db>>

-----------------------------------------------------------------------------
(* process_payment: one transaction that locks the order row and commits.  *)

\* Faults of the definitions below: the event lookup is dropped; an order that
\* already failed is taken for settled; the gateway's word is stored as it is;
\* an order is taken as paid while its payment is being processed; buying a
\* course again starts it afresh.
IsNew_Always(p) == TRUE
SeenStatus_Settled(h) ==
  IF handlers[h].path = "webhook" /\ orders[handlers[h].order].status # "pending"
  THEN "approved" ELSE "pending"
StatusFor_Echo(snapshot) == snapshot
StatusFor_Optimistic(snapshot) == IF snapshot = "in_process" THEN "approved" ELSE "failed"
OpenPurchase_Afresh(seats) == OpenRenewal(seats)

\* The payment has no row in payment_webhook_events.
IsNew(p) == p \notin events

\* The order status the session sees.  The poll's row was loaded before the
\* gateway was asked, and the locking SELECT does not refresh it.
SeenStatus(h) ==
  IF handlers[h].path = "poll" THEN "pending" ELSE orders[handlers[h].order].status

AnswersFor(h) == handlers[h].pc = "fetched"
Finish(h) == handlers' = [handlers EXCEPT ![h] = Idle]

\* Approved, but the event table knows the payment: nothing to do.
SkipProcessed(h) ==
  /\ AnswersFor(h)
  /\ handlers[h].snapshot = "approved"
  /\ ~IsNew(handlers[h].payment)
  /\ Finish(h)
  /\ UNCHANGED <<payments, db>>

\* A further approved payment of an order that is seen approved: only its
\* event is recorded.
RecordRepeated(h) ==
  /\ AnswersFor(h)
  /\ handlers[h].snapshot = "approved"
  /\ IsNew(handlers[h].payment)
  /\ SeenStatus(h) = "approved"
  /\ events' = events \union {handlers[h].payment}
  /\ Finish(h)
  /\ UNCHANGED <<orders, payments, enrolled, pending, completed, certs, grants>>

\* Enrol the student in every item, and open a pending request for each
\* course with a certificate type that has none.
OpenPurchase(seats) ==
  /\ enrolled' = enrolled \union seats
  /\ pending' = [s \in Seats |->
       IF s \in seats /\ s[2] \in CertCourses /\ pending[s] = NoPending
       THEN [status |-> "in_progress", renewal |-> FALSE] ELSE pending[s]]
  /\ UNCHANGED completed

OrderSeats(o) == {orders[o].user} \X orders[o].items

\* The order becomes approved, its items are materialised, the event is kept.
Materialise(h) ==
  /\ AnswersFor(h)
  /\ handlers[h].snapshot = "approved"
  /\ IsNew(handlers[h].payment)
  /\ SeenStatus(h) # "approved"
  /\ orders' = [orders EXCEPT ![handlers[h].order].status = "approved"]
  /\ events' = events \union {handlers[h].payment}
  /\ grants' = [grants EXCEPT ![handlers[h].payment] = @ + 1]
  /\ IF orders[handlers[h].order].renewal
     THEN OpenRenewal(OrderSeats(handlers[h].order))
     ELSE OpenPurchase(OrderSeats(handlers[h].order))
  /\ Finish(h)
  /\ UNCHANGED <<payments, certs>>

StatusFor(snapshot) ==
  CASE snapshot = "cancelled" -> "cancelled"
    [] snapshot = "rejected"  -> "failed"
    [] OTHER                  -> "pending"

\* Any other state of the payment overwrites the order's, whatever it was.
OverwriteStatus(h) ==
  /\ AnswersFor(h)
  /\ handlers[h].snapshot # "approved"
  /\ orders' = [orders EXCEPT ![handlers[h].order].status = StatusFor(handlers[h].snapshot)]
  /\ Finish(h)
  /\ UNCHANGED <<payments, events, enrolled, pending, completed, certs, grants>>

ProcessPayment(h) ==
  SkipProcessed(h) \/ RecordRepeated(h) \/ Materialise(h) \/ OverwriteStatus(h)

-----------------------------------------------------------------------------
(* What the rest of the backend does to the shared rows.                   *)

\* The student reaches 100% of the course; maybe_issue_pending issues or
\* renews the certificate of a request that is in progress.  Evaluations can be
\* answered again, so a course that was complete already comes here too.
CompleteCourse(s) ==
  /\ s \in enrolled
  /\ completed' = completed \union {s}
  /\ IF pending[s].status = "in_progress"
     THEN /\ pending' = [pending EXCEPT ![s].status = "issued"]
          /\ certs' = [certs EXCEPT ![s] = "active"]
     ELSE UNCHANGED <<pending, certs>>
  /\ UNCHANGED <<orders, payments, events, enrolled, handlers, grants>>

\* The nightly worker expires the certificate and removes the enrolment.
ExpireCertificate(s) ==
  /\ certs[s] = "active"
  /\ certs' = [certs EXCEPT ![s] = "expired"]
  /\ enrolled' = enrolled \ {s}
  /\ UNCHANGED <<orders, payments, events, pending, completed, handlers, grants>>

Student ==
  \/ \E o \in Orders, u \in Users, items \in SUBSET Courses : Checkout(o, u, items)
  \/ \E o \in Orders, s \in Seats : RenewCheckout(o, s)
  \/ \E s \in Seats : FreeRenewal(s) \/ CompleteCourse(s)

Gateway == \E p \in PaymentIds, status \in PaymentStatus :
  \/ \E o \in Orders : PaymentStarts(p, o, status)
  \/ PaymentMoves(p, status)

Request(h) ==
  \/ \E p \in PaymentIds : WebhookFetch(h, p)
  \/ \E o \in Orders : PollLoad(h, o)
  \/ PollSearch(h) \/ ProcessPayment(h) \/ Abort(h)

Next ==
  \/ Student \/ Gateway
  \/ \E h \in Handlers : Request(h)
  \/ \E s \in Seats : ExpireCertificate(s)

Spec == Init /\ [][Next]_vars

-----------------------------------------------------------------------------
(* Properties.                                                             *)

\* The type invariant: every row holds values its column accepts; in
\* particular an order's status is one of ORDER_STATUSES.
TypeOK ==
  /\ orders \in [Orders -> OrderRecord]
  /\ payments \in [PaymentIds -> PaymentRecord]
  /\ events \subseteq PaymentIds
  /\ enrolled \subseteq Seats
  /\ pending \in [Seats -> PendingRecord]
  /\ completed \subseteq Seats
  /\ certs \in [Seats -> CertStatus]
  /\ handlers \in [Handlers -> HandlerRecord]
  /\ grants \in [PaymentIds -> Nat]

Delivered(o) == \E p \in PaymentIds : payments[p].order = o /\ grants[p] > 0

\* However often and in whatever order its notifications arrive, and even when
\* a poll works on a stale order, a payment is materialised at most once.
GrantedOnce == \A p \in PaymentIds : grants[p] <= 1

\* A payment that is ticked off in payment_webhook_events, and therefore never
\* looked at again, belongs to an order whose materials were handed over.
NoPaymentSwallowed == \A p \in events : Delivered(payments[p].order)

\* An order shown as approved was delivered.
ApprovedMeansDelivered ==
  \A o \in Orders : orders[o].status = "approved" => Delivered(o)

\* A student's progress in a course is wiped only when a renewal starts: a free
\* one, or by a payment of a renewal order, the first time it is processed.
\* Purchases, repeated notifications and refunds never cost progress.
ProgressWipedByRenewalOnly ==
  [][\A s \in completed \ completed' :
       \/ FreeRenewal(s)
       \/ \E p \in PaymentIds : /\ grants[p] = 0 /\ grants'[p] = 1
                                 /\ orders[payments[p].order].renewal
                                 /\ s \in OrderSeats(payments[p].order)]_vars

\* What ties the rows, the gateway and the requests together, and makes the
\* four invariants above inductive.
PaymentsAgree ==
  \A p \in PaymentIds :
    /\ payments[p].status = "unknown" => payments[p] = Unknown /\ grants[p] = 0
    /\ payments[p].status # "unknown" =>
         payments[p].order \in Orders /\ orders[payments[p].order].status # "unplaced"
    /\ payments[p].status = "approved" => payments[p].everApproved
    /\ grants[p] > 0 => payments[p].everApproved /\ p \in events

OrdersAgree ==
  \A o \in Orders : orders[o].status # "unplaced" => orders[o].user \in Users

\* A request that is about to open its transaction holds a payment of its
\* order, and a snapshot that says "approved" was true when it was taken.
RequestsAgree ==
  \A h \in Handlers :
    /\ handlers[h].pc = "loaded" => handlers[h].path = "poll" /\ handlers[h].order \in Orders
    /\ handlers[h].pc = "fetched" =>
         /\ handlers[h].payment \in PaymentIds
         /\ payments[handlers[h].payment].status # "unknown"
         /\ payments[handlers[h].payment].order = handlers[h].order
         /\ handlers[h].snapshot = "approved" => payments[handlers[h].payment].everApproved

IInv ==
  /\ TypeOK /\ GrantedOnce /\ NoPaymentSwallowed /\ ApprovedMeansDelivered
  /\ PaymentsAgree /\ OrdersAgree /\ RequestsAgree

Promise == INSTANCE Purchase WITH
  owed <- {[payment |-> p, order |-> payments[p].order] :
             p \in {q \in PaymentIds : payments[q].everApproved}},
  spent <- {p \in PaymentIds : grants[p] > 0},
  delivered <- {o \in Orders : Delivered(o)}

\* The shop keeps the promise of Purchase: no delivery without an approved
\* payment of that order, and no payment used twice.
PurchaseSpec == Promise!Spec

-----------------------------------------------------------------------------
(* What comments, tests and the README say, and the code does not do.      *)

\* "Marca el pedido segun el estado real" (payment_service.process_payment): an
\* order that was approved stays approved while the payments that were
\* approved for it still are.
PaidOrderStaysApproved ==
  [][\A o \in Orders :
       orders[o].status = "approved" /\ orders'[o].status # "approved"
         => \E p \in PaymentIds : payments[p].order = o /\ payments[p].status = "refunded"]_vars

\* "No se puede iniciar dos veces la renovacion del mismo certificado" (test of
\* the renewal guard): a renewal starts only if none is in progress.
RenewalStartsOnce ==
  [][\A p \in PaymentIds :
       grants'[p] > grants[p] /\ orders[payments[p].order].renewal
         => \A s \in OrderSeats(payments[p].order) :
              pending[s] # [status |-> "in_progress", renewal |-> TRUE]]_vars
=============================================================================
