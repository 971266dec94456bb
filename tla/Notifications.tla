---------------------------- MODULE Notifications ----------------------------
(***************************************************************************)
(* How a payment that was approved comes to be delivered: the answers of   *)
(* POST /payments/webhook, which decide what the gateway sends again, and  *)
(* the polling of GET /payments/orders/{id}.  Mercado Pago repeats a       *)
(* notification until it is answered with 200.  The handler answers 500    *)
(* when the processing fails, and 200 both when it succeeds and when it    *)
(* could not ask the gateway about the payment ("ignored"): the latter is  *)
(* a notification that is lost for good.                                   *)
(***************************************************************************)
EXTENDS Payments

\* notices[p]: what became of the notification of the latest change of p.  A
\* payment never returns to an earlier status.  "none", "unanswered", "answered" (with 200
\* after its processing) or "ignored".
VARIABLE notices

noticeVars == <<vars, notices>>

NoticeInit == Init /\ notices = [p \in PaymentIds |-> "none"]

\* Fault of the definition below: an error of the processing is answered like a success.
Acknowledges_Always(done) == TRUE

\* The answer of a webhook is 200 once process_payment has committed, and 500
\* when it failed; a crash is no answer.
Acknowledges(done) == done

\* A request that holds what the latest notification of its payment is about
\* answers it.
IsAbout(h, p) ==
  /\ handlers[h].pc = "fetched" /\ handlers[h].path = "webhook"
  /\ handlers[h].payment = p
  /\ handlers[h].snapshot = payments[p].status

Answered(h, done) ==
  notices' = [p \in PaymentIds |->
    IF IsAbout(h, p) /\ notices[p] = "unanswered" /\ Acknowledges(done)
    THEN "answered" ELSE notices[p]]

\* The payment cannot be resolved (the gateway does not answer, or its answer is
\* no payment): logged, and acknowledged as "ignored".
IgnoreNotice(p) ==
  /\ notices[p] = "unanswered"
  /\ notices' = [notices EXCEPT ![p] = "ignored"]
  /\ UNCHANGED vars

\* The gateway notifies of every change.
GatewayNotifies ==
  /\ Gateway
  /\ notices' = [p \in PaymentIds |->
       IF payments'[p].status # payments[p].status THEN "unanswered" ELSE notices[p]]

Silent ==
  \/ Student
  \/ \E s \in Seats : ExpireCertificate(s)
  \/ \E h \in Handlers :
       \/ \E p \in PaymentIds : WebhookFetch(h, p)
       \/ \E o \in Orders : PollLoad(h, o)
       \/ PollSearch(h)

NoticeNext ==
  \/ GatewayNotifies
  \/ Silent /\ UNCHANGED notices
  \/ \E h \in Handlers : ProcessPayment(h) /\ Answered(h, TRUE)
  \/ \E h \in Handlers : Abort(h) /\ Answered(h, FALSE)
  \/ \E p \in PaymentIds : IgnoreNotice(p)

-----------------------------------------------------------------------------
(* Fairness.                                                               *)

\* The gateway repeats what was not answered, until it is.
RepeatedFetch(p) ==
  notices[p] = "unanswered" /\ (\E h \in Handlers : WebhookFetch(h, p)) /\ UNCHANGED notices

\* A processing that is tried again and again succeeds in the end: its errors
\* (crashes, lost connections, collisions) do not last.
ProcessBy(path, p) ==
  \E h \in Handlers : /\ handlers[h].path = path /\ handlers[h].payment = p
                      /\ ProcessPayment(h) /\ Answered(h, TRUE)

\* Neither does the gateway's search fail for ever.
SearchFor(o) ==
  \E h \in Handlers : handlers[h].order = o /\ PollSearch(h) /\ UNCHANGED notices

FairNotices ==
  /\ \A p \in PaymentIds : /\ SF_noticeVars(RepeatedFetch(p))
                           /\ \A path \in {"webhook", "poll"} : SF_noticeVars(ProcessBy(path, p))
  /\ \A o \in Orders : SF_noticeVars(SearchFor(o))

NoticeSpec == NoticeInit /\ [][NoticeNext]_noticeVars /\ FairNotices

-----------------------------------------------------------------------------
(* Properties.                                                             *)

\* A payment that stays approved ends in the delivery of its order, unless its
\* notification was ignored: whatever was processed before, rejected payments of
\* the same order, older snapshots, crashes and errors, and the retries after them.
NotifiedIsDelivered ==
  \A p \in PaymentIds :
    <>[](payments[p].status = "approved")
      => <>(Delivered(payments[p].order) \/ notices[p] = "ignored")

\* When it was ignored, the student's polling makes up for it: an order that is
\* asked for again and again while it is pending (get_order reconciles no other)
\* and for which a payment stays approved is delivered.
PolledIsDelivered ==
  \A o \in Orders :
    /\ []<>(\E h \in Handlers : handlers[h].pc = "loaded" /\ handlers[h].order = o)
    /\ <>[](\E p \in PaymentIds : payments[p].order = o /\ payments[p].status = "approved")
    => <>Delivered(o)
=============================================================================
