--------------------------- MODULE PaymentsProofs ---------------------------
(***************************************************************************)
(* Theorems about Payments, for any number of students, courses, orders,   *)
(* payments and concurrent requests.  Everything rests on one inductive    *)
(* invariant, Payments!IInv: one lemma per action shows that the action    *)
(* preserves it, and the theorems at the end of the module read it off.    *)
(***************************************************************************)
EXTENDS Payments, TLAPS

USE DEF Seats, OrderStatus, PaymentStatus, CertStatus, PendingStatus, Unplaced,
        Unknown, NoPending, Idle

\* Every initial database satisfies the inductive invariant.
LEMMA InitIInv == Init => IInv
  BY ConstantsAssumption
  DEF Init, IInv, TypeOK, GrantedOnce, NoPaymentSwallowed, ApprovedMeansDelivered,
      PaymentsAgree, OrdersAgree, RequestsAgree, OrderRecord, PaymentRecord,
      PendingRecord, HandlerRecord

-----------------------------------------------------------------------------
(* Requests that leave the database alone.                                 *)

\* When only the table of requests changes, its own two conjuncts decide.
LEMMA OnlyRequestsChange ==
  ASSUME IInv, UNCHANGED <<payments, db>>,
         handlers' \in [Handlers -> HandlerRecord], RequestsAgree'
  PROVE  IInv'
<1>1. TypeOK' BY DEF IInv, TypeOK, db
<1>2. GrantedOnce' /\ PaymentsAgree' /\ OrdersAgree'
  BY DEF IInv, GrantedOnce, PaymentsAgree, OrdersAgree, db
<1>3. NoPaymentSwallowed' /\ ApprovedMeansDelivered'
  BY DEF IInv, NoPaymentSwallowed, ApprovedMeansDelivered, Delivered, db
<1> QED BY <1>1, <1>2, <1>3 DEF IInv

\* What a request must hold to be consistent with the gateway.
RequestAgrees(r) ==
  /\ r.pc = "loaded" => r.path = "poll" /\ r.order \in Orders
  /\ r.pc = "fetched" =>
       /\ r.payment \in PaymentIds
       /\ payments[r.payment].status # "unknown"
       /\ payments[r.payment].order = r.order
       /\ r.snapshot = "approved" => payments[r.payment].everApproved

\* Replacing one request by a consistent one preserves the invariant.
LEMMA OneRequestChanges ==
  ASSUME IInv, UNCHANGED <<payments, db>>, NEW h \in Handlers,
         NEW r \in HandlerRecord, RequestAgrees(r),
         handlers' = [handlers EXCEPT ![h] = r]
  PROVE  IInv'
<1>1. handlers' \in [Handlers -> HandlerRecord] BY DEF IInv, TypeOK
<1>2. RequestsAgree' BY DEF IInv, TypeOK, RequestsAgree, RequestAgrees
<1> QED BY <1>1, <1>2, OnlyRequestsChange

\* An idle request is a well-formed one that claims nothing.
LEMMA IdleAgrees == Idle \in HandlerRecord /\ RequestAgrees(Idle)
  BY DEF RequestAgrees, HandlerRecord

\* A notification leads to a snapshot of a payment the gateway knows.
LEMMA WebhookFetchIInv ==
  ASSUME IInv, NEW h \in Handlers, NEW p \in PaymentIds, WebhookFetch(h, p)
  PROVE  IInv'
<1> DEFINE r == [pc |-> "fetched", path |-> "webhook", order |-> payments[p].order,
                 payment |-> p, snapshot |-> payments[p].status]
<1>1. r \in HandlerRecord /\ RequestAgrees(r)
  BY DEF WebhookFetch, IInv, TypeOK, PaymentRecord, HandlerRecord, PaymentsAgree, RequestAgrees
<1>2. handlers' = [handlers EXCEPT ![h] = r] /\ UNCHANGED <<payments, db>>
  BY DEF WebhookFetch
<1> HIDE DEF r
<1> QED BY <1>1, <1>2, OneRequestChanges

\* A poll that has read its order claims nothing about payments yet.
LEMMA PollLoadIInv ==
  ASSUME IInv, NEW h \in Handlers, NEW o \in Orders, PollLoad(h, o)
  PROVE  IInv'
<1> DEFINE r == [Idle EXCEPT !.pc = "loaded", !.path = "poll", !.order = o]
<1>1. r \in HandlerRecord /\ RequestAgrees(r) BY DEF HandlerRecord, RequestAgrees
<1>2. handlers' = [handlers EXCEPT ![h] = r] /\ UNCHANGED <<payments, db>> BY DEF PollLoad
<1> HIDE DEF r
<1> QED BY <1>1, <1>2, OneRequestChanges

\* The search finds payments that are approved and belong to the order.
LEMMA PollSearchIInv ==
  ASSUME IInv, NEW h \in Handlers, PollSearch(h)
  PROVE  IInv'
<1>1. UNCHANGED <<payments, db>> BY DEF PollSearch
<1>2. CASE handlers' = [handlers EXCEPT ![h] = Idle]
  BY <1>1, <1>2, IdleAgrees, OneRequestChanges
<1>3. CASE \E p \in PaidFor(handlers[h].order) :
             handlers' = [handlers EXCEPT ![h].pc = "fetched", ![h].payment = p,
                                          ![h].snapshot = "approved"]
  <2>1. PICK p \in PaidFor(handlers[h].order) :
          handlers' = [handlers EXCEPT ![h].pc = "fetched", ![h].payment = p,
                                       ![h].snapshot = "approved"]
    BY <1>3
  <2> DEFINE r == [handlers[h] EXCEPT !.pc = "fetched", !.payment = p, !.snapshot = "approved"]
  <2>2. p \in PaymentIds /\ payments[p].order = handlers[h].order /\ payments[p].everApproved
        /\ payments[p].status = "approved"
    BY DEF PaidFor, IInv, PaymentsAgree
  <2>3. r \in HandlerRecord /\ RequestAgrees(r)
    <3>1. handlers[h] \in HandlerRecord BY DEF IInv, TypeOK
    <3>2. /\ r \in HandlerRecord
          /\ r.pc = "fetched" /\ r.payment = p /\ r.order = handlers[h].order
      BY <2>2, <3>1 DEF HandlerRecord
    <3> HIDE DEF r
    <3> QED BY <2>2, <3>2 DEF RequestAgrees
  <2>4. handlers' = [handlers EXCEPT ![h] = r] BY <2>1 DEF IInv, TypeOK
  <2> HIDE DEF r
  <2> QED BY <1>1, <2>3, <2>4, OneRequestChanges
<1> QED BY <1>2, <1>3 DEF PollSearch

\* A request that changes no row leaves the invariant as it was.
LEMMA SkipOrAbortIInv ==
  ASSUME IInv, NEW h \in Handlers, SkipProcessed(h) \/ Abort(h)
  PROVE  IInv'
<1>1. handlers' = [handlers EXCEPT ![h] = Idle] /\ UNCHANGED <<payments, db>>
  BY DEF SkipProcessed, Finish, Abort
<1> QED BY <1>1, IdleAgrees, OneRequestChanges

-----------------------------------------------------------------------------
(* Steps that leave the orders, the gateway, the events and the requests   *)
(* alone: only the types of the student's rows are at stake.               *)

\* Enrolments, progress, pending requests and certificates are not part of
\* what the invariant says of payments and orders.
LEMMA OnlySeatsChange ==
  ASSUME IInv, UNCHANGED <<orders, payments, events, handlers, grants>>,
         enrolled' \subseteq Seats, pending' \in [Seats -> PendingRecord],
         completed' \subseteq Seats, certs' \in [Seats -> CertStatus]
  PROVE  IInv'
<1>1. TypeOK' BY DEF IInv, TypeOK
<1>2. GrantedOnce' /\ PaymentsAgree' /\ OrdersAgree' /\ RequestsAgree'
  BY DEF IInv, GrantedOnce, PaymentsAgree, OrdersAgree, RequestsAgree
<1>3. NoPaymentSwallowed' /\ ApprovedMeansDelivered'
  BY DEF IInv, NoPaymentSwallowed, ApprovedMeansDelivered, Delivered
<1> QED BY <1>1, <1>2, <1>3 DEF IInv

\* Opening a renewal or a purchase writes well-formed rows.
LEMMA OpeningTypes ==
  ASSUME TypeOK, NEW seats \in SUBSET Seats, OpenRenewal(seats) \/ OpenPurchase(seats)
  PROVE  /\ enrolled' \subseteq Seats /\ completed' \subseteq Seats
         /\ pending' \in [Seats -> PendingRecord]
<1>1. enrolled' \subseteq Seats /\ completed' \subseteq Seats
  BY DEF TypeOK, OpenRenewal, OpenPurchase
<1>2. CASE OpenRenewal(seats) BY <1>1, <1>2 DEF TypeOK, OpenRenewal, PendingRecord
<1>3. CASE OpenPurchase(seats)
  <2>1. [status |-> "in_progress", renewal |-> FALSE] \in PendingRecord BY DEF PendingRecord
  <2>2. pending' \in [Seats -> PendingRecord] BY <1>3, <2>1, Zenon DEF TypeOK, OpenPurchase
  <2> QED BY <1>1, <2>2
<1> QED BY <1>2, <1>3

\* A free renewal changes seats only.
LEMMA FreeRenewalIInv ==
  ASSUME IInv, NEW s \in Seats, FreeRenewal(s)
  PROVE  IInv'
<1>1. TypeOK /\ {s} \in SUBSET Seats /\ OpenRenewal({s}) BY DEF IInv, FreeRenewal
<1>2. /\ enrolled' \subseteq Seats /\ completed' \subseteq Seats
      /\ pending' \in [Seats -> PendingRecord]
  BY ONLY <1>1, OpeningTypes
<1> QED BY <1>2, OnlySeatsChange DEF FreeRenewal, IInv, TypeOK

\* Reaching 100% changes seats only.
LEMMA CompleteCourseIInv ==
  ASSUME IInv, NEW s \in Seats, CompleteCourse(s)
  PROVE  IInv'
<1>1. enrolled' \subseteq Seats /\ completed' \subseteq Seats
  BY DEF CompleteCourse, IInv, TypeOK
<1>2. pending' \in [Seats -> PendingRecord]
  <2>1. pending \in [Seats -> PendingRecord] BY DEF IInv, TypeOK
  <2> QED BY <2>1 DEF CompleteCourse, PendingRecord
<1>3. certs' \in [Seats -> CertStatus] BY DEF CompleteCourse, IInv, TypeOK
<1> QED BY <1>1, <1>2, <1>3, OnlySeatsChange DEF CompleteCourse

\* The expiry of a certificate changes seats only.
LEMMA ExpireCertificateIInv ==
  ASSUME IInv, NEW s \in Seats, ExpireCertificate(s)
  PROVE  IInv'
<1>1. certs' \in [Seats -> CertStatus] BY DEF ExpireCertificate, IInv, TypeOK
<1> QED BY <1>1, OnlySeatsChange DEF ExpireCertificate, IInv, TypeOK

-----------------------------------------------------------------------------
(* Orders are placed and the gateway moves.                                *)

\* A new order is pending, and no payment refers to it yet.
LEMMA PlaceOrderIInv ==
  ASSUME IInv, NEW o \in Orders, NEW u \in Users, NEW items \in SUBSET Courses,
         NEW renewal \in BOOLEAN, PlaceOrder(o, u, items, renewal),
         UNCHANGED <<payments, events, enrolled, pending, completed, certs, handlers, grants>>
  PROVE  IInv'
<1>1. TypeOK' BY DEF PlaceOrder, IInv, TypeOK, OrderRecord
<1>2. GrantedOnce' /\ PaymentsAgree' /\ OrdersAgree' /\ RequestsAgree'
  BY DEF PlaceOrder, IInv, TypeOK, GrantedOnce, PaymentsAgree, OrdersAgree, RequestsAgree
<1>3. NoPaymentSwallowed' /\ ApprovedMeansDelivered'
  BY DEF PlaceOrder, IInv, TypeOK, NoPaymentSwallowed, ApprovedMeansDelivered, Delivered
<1> QED BY <1>1, <1>2, <1>3 DEF IInv

\* The gateway adds or moves one payment and never takes back that it was
\* approved; a payment keeps its order.
LEMMA GatewayIInv ==
  ASSUME IInv, NEW p \in PaymentIds, NEW r \in PaymentRecord,
         payments' = [payments EXCEPT ![p] = r],
         r.status # "unknown", r.order \in Orders, orders[r.order].status # "unplaced",
         r.status = "approved" => r.everApproved,
         payments[p].everApproved => r.everApproved,
         payments[p].status # "unknown" => r.order = payments[p].order,
         UNCHANGED <<orders, events, enrolled, pending, completed, certs, handlers, grants>>
  PROVE  IInv'
<1>1. TypeOK' BY DEF IInv, TypeOK
<1>2. PaymentsAgree' BY DEF IInv, TypeOK, PaymentsAgree
<1>3. GrantedOnce' /\ OrdersAgree' BY DEF IInv, GrantedOnce, OrdersAgree
<1>4. RequestsAgree' BY DEF IInv, TypeOK, RequestsAgree
<1>5. \A q \in PaymentIds : grants[q] > 0 => payments'[q].order = payments[q].order
  BY DEF IInv, TypeOK, PaymentsAgree
<1>6. \A o \in Orders : Delivered(o) => Delivered(o)' BY <1>5 DEF Delivered
<1>7. ApprovedMeansDelivered' BY <1>6 DEF IInv, ApprovedMeansDelivered
<1>8. NoPaymentSwallowed'
  <2> SUFFICES ASSUME NEW q \in events' PROVE Delivered(payments[q].order)'
    BY DEF NoPaymentSwallowed
  <2>1. q \in PaymentIds /\ Delivered(payments[q].order) BY DEF IInv, TypeOK, NoPaymentSwallowed
  <2>2. PICK d \in PaymentIds : payments[d].order = payments[q].order /\ grants[d] > 0
    BY <2>1 DEF Delivered
  <2>3. payments[d].order \in Orders BY <2>2 DEF IInv, TypeOK, PaymentsAgree
  <2>4. payments[q].status # "unknown"
    BY <2>1, <2>2, <2>3, ConstantsAssumption DEF IInv, PaymentsAgree
  <2>5. payments[q].order \in Orders /\ payments'[q].order = payments[q].order
    BY <2>1, <2>4 DEF IInv, TypeOK, PaymentsAgree
  <2> QED BY <2>1, <2>5, <1>6
<1> QED BY <1>1, <1>2, <1>3, <1>4, <1>7, <1>8 DEF IInv


\* A new payment belongs to an order that was placed.
LEMMA PaymentStartsIInv ==
  ASSUME IInv, NEW p \in PaymentIds, NEW o \in Orders, NEW status \in PaymentStatus,
         PaymentStarts(p, o, status)
  PROVE  IInv'
<1> DEFINE r == [status |-> status, order |-> o, everApproved |-> status = "approved"]
<1>1. r \in PaymentRecord BY DEF PaymentRecord
<1>2. /\ payments' = [payments EXCEPT ![p] = r]
      /\ r.status # "unknown" /\ r.order = o /\ orders[o].status # "unplaced"
      /\ r.everApproved = (r.status = "approved")
      /\ payments[p].status = "unknown" /\ payments[p].everApproved = FALSE
  BY DEF PaymentStarts
<1> HIDE DEF r
<1> QED BY <1>1, <1>2, GatewayIInv DEF PaymentStarts

\* A payment that was approved is remembered as such when it is refunded.
LEMMA PaymentMovesIInv ==
  ASSUME IInv, NEW p \in PaymentIds, NEW status \in PaymentStatus, PaymentMoves(p, status)
  PROVE  IInv'
<1> DEFINE r == [payments[p] EXCEPT !.status = status,
                                    !.everApproved = @ \/ status = "approved"]
<1>1. payments[p] \in PaymentRecord /\ payments[p].status # "unknown"
  BY DEF PaymentMoves, IInv, TypeOK
<1>2. /\ r \in PaymentRecord /\ r.status = status /\ r.order = payments[p].order
      /\ r.everApproved = (payments[p].everApproved \/ status = "approved")
  BY <1>1 DEF PaymentRecord
<1>3. payments' = [payments EXCEPT ![p] = r] BY <1>1 DEF PaymentMoves, IInv, TypeOK
<1>4. r.order \in Orders /\ orders[r.order].status # "unplaced"
  BY <1>1, <1>2 DEF IInv, PaymentsAgree
<1> HIDE DEF r
<1> QED BY <1>1, <1>2, <1>3, <1>4, GatewayIInv DEF PaymentMoves

-----------------------------------------------------------------------------
(* process_payment.                                                        *)

\* What a request about to open its transaction knows.
LEMMA FetchedFacts ==
  ASSUME IInv, NEW h \in Handlers, AnswersFor(h)
  PROVE  /\ handlers[h].payment \in PaymentIds /\ handlers[h].order \in Orders
         /\ payments[handlers[h].payment].order = handlers[h].order
         /\ payments[handlers[h].payment].status # "unknown"
         /\ orders[handlers[h].order].status # "unplaced"
         /\ handlers[h].snapshot = "approved" => payments[handlers[h].payment].everApproved
  BY DEF AnswersFor, IInv, RequestsAgree, PaymentsAgree

\* The request that ends becomes idle, the others stay as they are.
LEMMA FinishAgrees ==
  ASSUME IInv, NEW h \in Handlers, Finish(h), UNCHANGED payments
  PROVE  handlers' \in [Handlers -> HandlerRecord] /\ RequestsAgree'
<1>1. handlers' \in [Handlers -> HandlerRecord]
  BY IdleAgrees DEF Finish, IInv, TypeOK
<1>2. RequestsAgree' BY DEF Finish, IInv, TypeOK, RequestsAgree
<1> QED BY <1>1, <1>2

\* An event kept without a delivery is one of an order seen as approved,
\* which only a webhook, reading the locked row, can see.
LEMMA RecordRepeatedIInv ==
  ASSUME IInv, NEW h \in Handlers, RecordRepeated(h)
  PROVE  IInv'
<1> DEFINE p == handlers[h].payment
           o == handlers[h].order
<1>1. p \in PaymentIds /\ o \in Orders /\ payments[p].order = o
  BY FetchedFacts DEF RecordRepeated
<1>2. orders[o].status = "approved" BY DEF RecordRepeated, SeenStatus
<1>3. events' = events \union {p} /\ UNCHANGED <<orders, payments, enrolled, pending,
                                                 completed, certs, grants>>
  BY DEF RecordRepeated
<1>4. handlers' \in [Handlers -> HandlerRecord] /\ RequestsAgree'
  BY <1>3, FinishAgrees DEF RecordRepeated
<1> HIDE DEF p, o
<1>5. TypeOK' BY <1>1, <1>3, <1>4 DEF IInv, TypeOK
<1>6. GrantedOnce' /\ PaymentsAgree' /\ OrdersAgree' /\ ApprovedMeansDelivered'
  BY <1>3 DEF IInv, GrantedOnce, PaymentsAgree, OrdersAgree, ApprovedMeansDelivered, Delivered
<1>7. Delivered(payments[p].order) BY <1>1, <1>2 DEF IInv, ApprovedMeansDelivered
<1>8. NoPaymentSwallowed' BY <1>3, <1>7 DEF IInv, NoPaymentSwallowed, Delivered
<1> QED BY <1>4, <1>5, <1>6, <1>8 DEF IInv

\* A status that is overwritten by another one than approved promises nothing.
LEMMA OverwriteStatusIInv ==
  ASSUME IInv, NEW h \in Handlers, OverwriteStatus(h)
  PROVE  IInv'
<1> DEFINE o == handlers[h].order
           status == StatusFor(handlers[h].snapshot)
<1>1. o \in Orders /\ orders[o].status # "unplaced" BY FetchedFacts DEF OverwriteStatus
<1>2. status \in {"cancelled", "failed", "pending"} BY DEF StatusFor
<1>3. /\ orders' = [orders EXCEPT ![o].status = status]
      /\ UNCHANGED <<payments, events, enrolled, pending, completed, certs, grants>>
  BY DEF OverwriteStatus
<1>4. handlers' \in [Handlers -> HandlerRecord] /\ RequestsAgree'
  BY <1>3, FinishAgrees DEF OverwriteStatus
<1> HIDE DEF o, status
<1>5. TypeOK' BY <1>1, <1>2, <1>3, <1>4 DEF IInv, TypeOK, OrderRecord
<1>6. GrantedOnce' /\ NoPaymentSwallowed'
  BY <1>3 DEF IInv, GrantedOnce, NoPaymentSwallowed, Delivered
<1>7. PaymentsAgree' /\ OrdersAgree'
  BY <1>1, <1>2, <1>3 DEF IInv, TypeOK, PaymentsAgree, OrdersAgree
<1>8. ApprovedMeansDelivered'
  BY <1>1, <1>2, <1>3 DEF IInv, TypeOK, ApprovedMeansDelivered, Delivered
<1> QED BY <1>4, <1>5, <1>6, <1>7, <1>8 DEF IInv

\* The items of a placed order are seats.
LEMMA OrderSeatsTypes ==
  ASSUME IInv, NEW o \in Orders, orders[o].status # "unplaced"
  PROVE  OrderSeats(o) \in SUBSET Seats
  BY DEF IInv, TypeOK, OrdersAgree, OrderSeats, OrderRecord

\* A payment is materialised with its event, which no earlier one had.
LEMMA MaterialiseIInv ==
  ASSUME IInv, NEW h \in Handlers, Materialise(h)
  PROVE  IInv'
<1>1. PICK p \in PaymentIds, o \in Orders :
        /\ p = handlers[h].payment /\ o = handlers[h].order /\ payments[p].order = o
        /\ payments[p].everApproved /\ payments[p].status # "unknown"
        /\ orders[o].status # "unplaced"
  BY FetchedFacts DEF Materialise
<1>2. /\ orders' = [orders EXCEPT ![o].status = "approved"]
      /\ events' = events \union {p} /\ p \notin events
      /\ grants' = [grants EXCEPT ![p] = @ + 1]
      /\ UNCHANGED <<payments, certs>>
      /\ OpenRenewal(OrderSeats(o)) \/ OpenPurchase(OrderSeats(o))
  BY <1>1 DEF Materialise, IsNew
<1>3. handlers' \in [Handlers -> HandlerRecord] /\ RequestsAgree'
  BY <1>2, FinishAgrees DEF Materialise
<1>4. grants[p] = 0 /\ grants'[p] = 1
  BY <1>1, <1>2 DEF IInv, TypeOK, GrantedOnce, PaymentsAgree
<1>5. TypeOK'
  <2>1. OrderSeats(o) \in SUBSET Seats BY <1>1, OrderSeatsTypes
  <2>2. TypeOK BY DEF IInv
  <2>3. /\ enrolled' \subseteq Seats /\ completed' \subseteq Seats
        /\ pending' \in [Seats -> PendingRecord]
    BY ONLY <2>1, <2>2, <1>2, OpeningTypes
  <2>4. orders' \in [Orders -> OrderRecord]
    <3>1. orders \in [Orders -> OrderRecord] BY <2>2 DEF TypeOK
    <3>2. orders' = [orders EXCEPT ![o].status = "approved"] BY <1>2
    <3> QED BY <3>1, <3>2 DEF OrderRecord
  <2> QED BY <1>1, <1>2, <1>3, <2>3, <2>4 DEF IInv, TypeOK
<1>6. GrantedOnce' BY <1>1, <1>2, <1>4 DEF IInv, TypeOK, GrantedOnce
<1>7. PaymentsAgree' /\ OrdersAgree'
  <2>1. \A q \in Orders : orders'[q].user = orders[q].user
                           /\ (orders'[q].status # "unplaced" <=> orders[q].status # "unplaced")
    BY <1>1, <1>2 DEF IInv, TypeOK, OrderRecord
  <2>2. PaymentsAgree' BY <1>1, <1>2, <1>4, <2>1 DEF IInv, TypeOK, PaymentsAgree
  <2> QED BY <2>1, <2>2 DEF IInv, OrdersAgree
<1>8. Delivered(o)' BY <1>1, <1>2, <1>4 DEF Delivered
<1>9. \A q \in Orders : Delivered(q) => Delivered(q)' BY <1>1, <1>2, <1>4 DEF Delivered, IInv, TypeOK
<1>10. ApprovedMeansDelivered'
  BY <1>1, <1>2, <1>8, <1>9 DEF IInv, TypeOK, ApprovedMeansDelivered
<1>11. NoPaymentSwallowed'
  <2> SUFFICES ASSUME NEW q \in events' PROVE Delivered(payments[q].order)'
    BY DEF NoPaymentSwallowed
  <2>1. CASE q = p BY <2>1, <1>1, <1>2, <1>8
  <2>2. CASE q \in events
    BY <2>2, <1>1, <1>2, <1>4 DEF Delivered, IInv, TypeOK, NoPaymentSwallowed
  <2> QED BY <2>1, <2>2, <1>2
<1> QED BY <1>3, <1>5, <1>6, <1>7, <1>10, <1>11 DEF IInv


-----------------------------------------------------------------------------
(* The invariant.                                                          *)

\* Every step preserves the inductive invariant.
LEMMA NextIInv == IInv /\ [Next]_vars => IInv'
<1> SUFFICES ASSUME IInv, [Next]_vars PROVE IInv' OBVIOUS
<1>1. CASE UNCHANGED vars
  BY <1>1, OnlyRequestsChange DEF vars, db, IInv, TypeOK, RequestsAgree
<1>2. CASE Student
  <2>1. CASE \E o \in Orders, u \in Users, items \in SUBSET Courses : Checkout(o, u, items)
    BY <2>1, PlaceOrderIInv DEF Checkout
  <2>2. CASE \E o \in Orders, s \in Seats : RenewCheckout(o, s)
    <3>1. PICK o \in Orders, s \in Seats : RenewCheckout(o, s) BY <2>2
    <3>2. s[1] \in Users /\ {s[2]} \in SUBSET Courses OBVIOUS
    <3> QED BY <3>1, <3>2, PlaceOrderIInv DEF RenewCheckout
  <2>3. CASE \E s \in Seats : FreeRenewal(s) \/ CompleteCourse(s)
    BY <2>3, FreeRenewalIInv, CompleteCourseIInv
  <2> QED BY <1>2, <2>1, <2>2, <2>3 DEF Student
<1>3. CASE Gateway BY <1>3, PaymentStartsIInv, PaymentMovesIInv DEF Gateway
<1>4. CASE \E h \in Handlers : Request(h)
  <2>1. PICK h \in Handlers : Request(h) BY <1>4
  <2>2. CASE \/ \E p \in PaymentIds : WebhookFetch(h, p)
             \/ \E o \in Orders : PollLoad(h, o)
             \/ PollSearch(h) \/ Abort(h)
    BY <2>2, WebhookFetchIInv, PollLoadIInv, PollSearchIInv, SkipOrAbortIInv
  <2>3. CASE ProcessPayment(h)
    BY <2>3, SkipOrAbortIInv, RecordRepeatedIInv, MaterialiseIInv, OverwriteStatusIInv
    DEF ProcessPayment
  <2> QED BY <2>1, <2>2, <2>3 DEF Request
<1>5. CASE \E s \in Seats : ExpireCertificate(s) BY <1>5, ExpireCertificateIInv
<1> QED BY <1>1, <1>2, <1>3, <1>4, <1>5 DEF Next

\* The inductive invariant holds in every reachable state of the shop.
THEOREM Invariance == Spec => []IInv
  BY InitIInv, NextIInv, PTL DEF Spec

\* Every row keeps the values its column accepts.
THEOREM TypeCorrect == Spec => []TypeOK
<1>1. IInv => TypeOK BY DEF IInv
<1> QED BY <1>1, Invariance, PTL

\* However its notifications are repeated, reordered or lost, and although polls
\* work on a stale order, a payment is materialised at most once.
THEOREM PaymentGrantedOnce == Spec => []GrantedOnce
<1>1. IInv => GrantedOnce BY DEF IInv
<1> QED BY <1>1, Invariance, PTL

\* The event table never ticks off a payment whose order was not delivered.
THEOREM EventsAreDelivered == Spec => []NoPaymentSwallowed
<1>1. IInv => NoPaymentSwallowed BY DEF IInv
<1> QED BY <1>1, Invariance, PTL

\* An order is shown as approved only after its delivery.
THEOREM ApprovedIsDelivered == Spec => []ApprovedMeansDelivered
<1>1. IInv => ApprovedMeansDelivered BY DEF IInv
<1> QED BY <1>1, Invariance, PTL

-----------------------------------------------------------------------------
(* Payments implements Purchase.                                           *)

\* The two values the refinement mapping gives to the abstract variables that
\* change when a payment is materialised or approved.
Owed == {[payment |-> p, order |-> payments[p].order] :
           p \in {q \in PaymentIds : payments[q].everApproved}}
Spent == {p \in PaymentIds : grants[p] > 0}
DeliveredOrders == {o \in Orders : Delivered(o)}

\* A step that touches neither payments nor grants is a stutter of the promise.
LEMMA StutterOfPromise ==
  ASSUME UNCHANGED <<payments, grants>>
  PROVE  UNCHANGED Promise!purchaseVars
  BY DEF Promise!purchaseVars, Delivered

\* The gateway's moves owe at most one more payment.
LEMMA GatewayRefines ==
  ASSUME IInv, Gateway
  PROVE  [Promise!Next]_(Promise!purchaseVars)
<1>1. PICK p \in PaymentIds, status \in PaymentStatus :
        (\E o \in Orders : PaymentStarts(p, o, status)) \/ PaymentMoves(p, status)
  BY DEF Gateway
<1>2. /\ \A q \in PaymentIds \ {p} : payments'[q] = payments[q]
      /\ payments'[p].order \in Orders
      /\ payments[p].everApproved =>
           payments'[p].everApproved /\ payments'[p].order = payments[p].order
      /\ grants[p] > 0 => payments'[p].order = payments[p].order
      /\ grants' = grants
  <2>1. CASE PaymentMoves(p, status)
    BY <2>1 DEF PaymentMoves, IInv, TypeOK, PaymentsAgree, PaymentRecord
  <2>2. CASE \E o \in Orders : PaymentStarts(p, o, status)
    BY <2>2 DEF PaymentStarts, IInv, TypeOK, PaymentsAgree
  <2> QED BY <1>1, <2>1, <2>2
<1>3. Spent' = Spent BY <1>2 DEF Spent
<1>4. \A o \in Orders : Delivered(o)' <=> Delivered(o) BY <1>2 DEF Delivered, IInv, TypeOK
<1>5. DeliveredOrders' = DeliveredOrders BY <1>4 DEF DeliveredOrders
<1>6. CASE payments'[p].everApproved = payments[p].everApproved
  <2>1. Owed' = Owed BY <1>2, <1>6 DEF Owed
  <2> QED BY <1>3, <1>5, <2>1 DEF Promise!purchaseVars, Owed, Spent, DeliveredOrders
<1>7. CASE payments'[p].everApproved /\ ~payments[p].everApproved
  <2>1. PICK o \in Orders : o = payments'[p].order BY <1>2
  <2>2. Owed' = Owed \union {[payment |-> p, order |-> o]} BY <1>2, <1>7, <2>1 DEF Owed
  <2>3. \A e \in Owed : e.payment # p BY <1>7 DEF Owed
  <2>4. Promise!Approve(p, o)
    BY <1>3, <1>5, <2>2, <2>3 DEF Promise!Approve, Owed, Spent, DeliveredOrders
  <2> QED BY <1>1, <2>4 DEF Promise!Next
<1>8. payments'[p].everApproved \in BOOLEAN /\ payments[p].everApproved \in BOOLEAN
  <2>1. payments[p] \in PaymentRecord /\ payments'[p] \in PaymentRecord
    BY <1>1, PaymentStartsIInv, PaymentMovesIInv DEF IInv, TypeOK
  <2> QED BY <2>1 DEF PaymentRecord
<1> QED BY <1>2, <1>6, <1>7, <1>8

\* Materialising a payment is the delivery of its order, exactly once.
LEMMA MaterialiseRefines ==
  ASSUME IInv, NEW h \in Handlers, Materialise(h)
  PROVE  Promise!Next
<1>1. PICK p \in PaymentIds, o \in Orders :
        /\ p = handlers[h].payment /\ payments[p].order = o /\ payments[p].everApproved
  BY FetchedFacts DEF Materialise
<1>2. p \notin events /\ grants' = [grants EXCEPT ![p] = @ + 1] /\ payments' = payments
  BY <1>1 DEF Materialise, IsNew
<1>3. grants[p] = 0 /\ grants'[p] = 1 /\ \A q \in PaymentIds \ {p} : grants'[q] = grants[q]
  BY <1>1, <1>2 DEF IInv, TypeOK, GrantedOnce, PaymentsAgree
<1>4. Owed' = Owed /\ [payment |-> p, order |-> o] \in Owed BY <1>1, <1>2 DEF Owed
<1>5. p \notin Spent /\ Spent' = Spent \union {p} BY <1>3 DEF Spent
<1>6. \A q \in Orders : Delivered(q)' <=> Delivered(q) \/ q = o
  BY <1>1, <1>2, <1>3 DEF Delivered
<1>7. DeliveredOrders' = DeliveredOrders \union {o} BY <1>6 DEF DeliveredOrders
<1>8. Promise!Deliver(p, o)
  BY <1>4, <1>5, <1>7 DEF Promise!Deliver, Owed, Spent, DeliveredOrders
<1> QED BY <1>8 DEF Promise!Next

\* Every step is a step of Purchase, or changes nothing Purchase speaks of.
LEMMA NextRefines ==
  IInv /\ [Next]_vars => [Promise!Next]_(Promise!purchaseVars)
<1> SUFFICES ASSUME IInv, [Next]_vars
             PROVE  [Promise!Next]_(Promise!purchaseVars)
  OBVIOUS
<1>1. CASE Gateway BY <1>1, GatewayRefines
<1>2. CASE \E h \in Handlers : Materialise(h) BY <1>2, MaterialiseRefines
<1>3. CASE UNCHANGED <<payments, grants>> BY <1>3, StutterOfPromise
<1>4. ASSUME NEW h \in Handlers, Request(h), ~Materialise(h) PROVE UNCHANGED <<payments, grants>>
  BY <1>4 DEF Request, WebhookFetch, PollLoad, PollSearch, Abort, ProcessPayment,
              SkipProcessed, RecordRepeated, OverwriteStatus, db
<1>5. Student => UNCHANGED <<payments, grants>>
  BY DEF Student, Checkout, RenewCheckout, FreeRenewal, CompleteCourse
<1>6. (\E s \in Seats : ExpireCertificate(s)) => UNCHANGED <<payments, grants>>
  BY DEF ExpireCertificate
<1> QED BY <1>1, <1>2, <1>3, <1>4, <1>5, <1>6 DEF Next, vars

\* The shop implements the promise of Purchase: no order is delivered without an
\* approved payment of its own, and no payment pays twice.
THEOREM ImplementsPurchase == Spec => PurchaseSpec
<1>1. Init => Promise!Init
  BY DEF Init, Promise!Init, Delivered
<1> QED BY <1>1, NextRefines, Invariance, PTL DEF Spec, PurchaseSpec, Promise!Spec

-----------------------------------------------------------------------------
\* A student's progress in a course is only ever wiped by the start of a
\* renewal, and by a payment at most the first time it is processed.
THEOREM ProgressIsSafe == Spec => ProgressWipedByRenewalOnly
<1> DEFINE Wiped(s) ==
      \/ FreeRenewal(s)
      \/ \E p \in PaymentIds : /\ grants[p] = 0 /\ grants'[p] = 1
                                /\ orders[payments[p].order].renewal
                                /\ s \in OrderSeats(payments[p].order)
<1>1. ASSUME IInv, [Next]_vars, NEW s \in completed \ completed' PROVE Wiped(s)
  <2>1. CASE \E t \in Seats : FreeRenewal(t)
    <3>1. PICK t \in Seats : FreeRenewal(t) BY <2>1
    <3>2. s = t BY <1>1, <3>1 DEF FreeRenewal, OpenRenewal
    <3> QED BY <3>1, <3>2
  <2>2. CASE \E h \in Handlers : Materialise(h)
    <3>1. PICK h \in Handlers : Materialise(h) BY <2>2
    <3>2. PICK p \in PaymentIds, o \in Orders :
            p = handlers[h].payment /\ o = handlers[h].order /\ payments[p].order = o
      BY <1>1, <3>1, FetchedFacts DEF Materialise
    <3>3. grants[p] = 0 /\ grants'[p] = 1
      BY <1>1, <3>1, <3>2 DEF Materialise, IsNew, IInv, TypeOK, GrantedOnce, PaymentsAgree
    <3>4. orders[o].renewal /\ s \in OrderSeats(o)
      BY <1>1, <3>1, <3>2 DEF Materialise, OpenRenewal, OpenPurchase
    <3> QED BY <3>2, <3>3, <3>4
  <2>3. CASE UNCHANGED completed BY <1>1, <2>3
  <2>4. ASSUME NEW h \in Handlers, Request(h), ~Materialise(h) PROVE UNCHANGED completed
    BY <2>4 DEF Request, WebhookFetch, PollLoad, PollSearch, Abort, ProcessPayment,
                SkipProcessed, RecordRepeated, OverwriteStatus, db
  <2>5. CASE Student \/ Gateway \/ \E t \in Seats : ExpireCertificate(t)
    BY <1>1, <2>1, <2>5 DEF Student, Checkout, RenewCheckout, CompleteCourse, Gateway,
       PaymentStarts, PaymentMoves, ExpireCertificate
  <2> QED BY <1>1, <2>2, <2>3, <2>4, <2>5 DEF Next, vars
<1>2. IInv /\ [Next]_vars => [\A s \in completed \ completed' : Wiped(s)]_vars
  BY <1>1
<1> QED BY <1>2, Invariance, PTL DEF Spec, ProgressWipedByRenewalOnly

=============================================================================
