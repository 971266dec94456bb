-------------------------------- MODULE Billing --------------------------------
(***************************************************************************)
(* What organisations pay for the platform: tenant_billing_service and the *)
(* payment endpoints of admin_tenants.py, with the entry each of them      *)
(* leaves in security_audit in the same transaction.                       *)
(*                                                                         *)
(* A correction reads the payment, computes on what it read, and writes    *)
(* only the columns whose value differs from what it read; only if there   *)
(* is one does it take the row's lock.  Then it reads the row again, for   *)
(* its answer and for the audit.                                           *)
(***************************************************************************)
EXTENDS Naturals, FiniteSetsExt

CONSTANTS
  Customers,   \* tenants, without the platform's own
  Payments,    \* ids of tenant_payments, used once
  PayerOf,     \* the tenant each payment is of
  Plans,
  PlanMonths,  \* mensual 1, semestral 6, anual 12
  LastMonth,   \* bound on the calendar, which begins with month 0
  MonthDays,   \* days of each month
  Starts,      \* period_start a superuser may enter
  WarnDays,    \* 15
  Billers,     \* concurrent requests of superusers
  Null         \* null

\* A date is a month and a day.
Dates == {d \in (0 .. LastMonth) \X (1 .. 31) : d[2] <= MonthDays[d[1]]}

ASSUME BillingAssumption ==
  /\ PayerOf \in [Payments -> Customers]
  /\ PlanMonths \in [Plans -> Nat \ {0}]
  /\ LastMonth \in Nat
  /\ MonthDays \in [0 .. LastMonth -> 28 .. 31]
  /\ Starts \subseteq Dates
  /\ \A s \in Starts, p \in Plans : s[1] + PlanMonths[p] <= LastMonth
  /\ WarnDays \in Nat
  /\ Null \notin Plans /\ Null \notin Starts

Earlier(d, e) == d[1] < e[1] \/ (d[1] = e[1] /\ d[2] < e[2])
DaysBefore == [m \in 0 .. LastMonth |-> MapThenSumSet(LAMBDA n : MonthDays[n], 0 .. m - 1)]
DayNumber(d) == DaysBefore[d[1]] + d[2]

PaymentRow == [plan: Plans, start: Starts, end: Dates]
NoPayment == [plan |-> Null, start |-> Null, end |-> Null]

\* pc = "read": a payment was read, and is to be corrected or deleted; "flushed": it is
\* written, and locked if anything changed, and the commit is due.
\* plan, start: what is to be changed, or Null; row: what was read; after: what the audit
\* will say; late: the payment was changed since it was read; slack: it was changed since it
\* was read again for the audit (history).
BillerRecord ==
  [pc: {"idle", "read", "flushed"}, payment: Payments \union {Null}, deletes: BOOLEAN,
   plan: Plans \union {Null}, start: Starts \union {Null}, row: PaymentRow \union {NoPayment},
   after: PaymentRow \union {NoPayment}, locks: BOOLEAN, late: BOOLEAN, slack: BOOLEAN]
NoBiller ==
  [pc |-> "idle", payment |-> Null, deletes |-> FALSE, plan |-> Null, start |-> Null,
   row |-> NoPayment, after |-> NoPayment, locks |-> FALSE, late |-> FALSE, slack |-> FALSE]

VARIABLES
  payments,  \* tenant_payments
  entered,   \* payments that were recorded (bound)
  audited,   \* what the last entry of security_audit says of each payment
  billers,   \* the requests being served
  crossed,   \* payments two corrections crossed at (history)
  outdated   \* payments whose last entry is of a correction without changes that another one
             \* overtook (history)

billingVars == <<payments, entered, audited, billers, crossed, outdated>>

BillingInit ==
  /\ payments = [p \in Payments |-> NoPayment]
  /\ entered = {}
  /\ audited = [p \in Payments |-> NoPayment]
  /\ billers = [b \in Billers |-> NoBiller]
  /\ crossed = {}
  /\ outdated = {}

-----------------------------------------------------------------------------
(* The calendar.                                                           *)

\* Fault: the day is not looked at.
AddMonths_Overflow(d, n) == <<d[1] + n, d[2]>>

\* The same day of a later month, or its last.
AddMonths(d, n) ==
  <<d[1] + n, IF d[2] <= MonthDays[d[1] + n] THEN d[2] ELSE MonthDays[d[1] + n]>>

PeriodEnd(plan, start) == AddMonths(start, PlanMonths[plan])

-----------------------------------------------------------------------------
(* The operations.                                                         *)

\* Fault: the end of the period is not computed again when only the start is moved.
Recalculates_Plan(b) == billers[b].plan # Null

\* POST /admin/tenants/{id}/payments.
CreatePayment(p, plan, start) ==
  LET row == [plan |-> plan, start |-> start, end |-> PeriodEnd(plan, start)] IN
  /\ p \notin entered
  /\ payments' = [payments EXCEPT ![p] = row]
  /\ audited' = [audited EXCEPT ![p] = row]
  /\ entered' = entered \union {p}
  /\ UNCHANGED <<billers, crossed, outdated>>

\* PATCH and DELETE /admin/tenants/{id}/payments/{payment}.
ReadPayment(b, p, deletes, plan, start) ==
  /\ billers[b].pc = "idle"
  /\ payments[p] # NoPayment
  /\ deletes => plan = Null /\ start = Null
  /\ billers' = [billers EXCEPT ![b] =
       [NoBiller EXCEPT !.pc = "read", !.payment = p, !.deletes = deletes, !.plan = plan,
                        !.start = start, !.row = payments[p]]]
  /\ UNCHANGED <<payments, entered, audited, crossed, outdated>>

\* update_payment: an end of the period is computed if the plan or the start is given.
Recalculates(b) == billers[b].plan # Null \/ billers[b].start # Null
Corrected(b) ==
  LET plan == IF billers[b].plan = Null THEN billers[b].row.plan ELSE billers[b].plan
      start == IF billers[b].start = Null THEN billers[b].row.start ELSE billers[b].start
  IN [plan |-> plan, start |-> start,
      end |-> IF Recalculates(b) THEN PeriodEnd(plan, start) ELSE billers[b].row.end]

\* Only columns that differ from what was read are written over what is there.
Written(b) ==
  LET new == Corrected(b)
      old == billers[b].row
      now == payments[billers[b].payment]
  IN [plan |-> IF new.plan # old.plan THEN new.plan ELSE now.plan,
      start |-> IF new.start # old.start THEN new.start ELSE now.start,
      end |-> IF new.end # old.end THEN new.end ELSE now.end]

PaymentLocked(p) == \E b \in Billers : billers[b].payment = p /\ billers[b].locks

\* A correction fails if the payment is gone; a deletion does not mind.
FlushPayment(b) ==
  LET p == billers[b].payment
      locks == billers[b].deletes \/ Corrected(b) # billers[b].row
  IN
  /\ billers[b].pc = "read"
  /\ locks => ~PaymentLocked(p)
  /\ ~billers[b].deletes => payments[p] # NoPayment
  /\ billers' = [billers EXCEPT ![b].pc = "flushed", ![b].locks = locks,
       ![b].after = IF billers[b].deletes THEN NoPayment ELSE Written(b)]
  /\ UNCHANGED <<payments, entered, audited, crossed, outdated>>

CommitPayment(b) ==
  LET p == billers[b].payment
      new == IF billers[b].deletes THEN NoPayment
             ELSE IF billers[b].locks THEN Written(b) ELSE payments[p]
      changed == new # payments[p]
  IN
  /\ billers[b].pc = "flushed"
  /\ payments' = [payments EXCEPT ![p] = new]
  /\ audited' = [audited EXCEPT ![p] = billers[b].after]
  /\ crossed' = IF ~Recalculates(b) \/ billers[b].slack THEN crossed
                ELSE IF billers[b].late THEN crossed \union {p} ELSE crossed \ {p}
  /\ outdated' = IF billers[b].slack THEN outdated \union {p} ELSE outdated \ {p}
  /\ billers' = [c \in Billers |->
       IF c = b THEN NoBiller
       ELSE IF billers[c].payment # p THEN billers[c]
       ELSE [billers[c] EXCEPT !.late = @ \/ (changed /\ billers[c].pc = "read"),
                               !.slack = @ \/ (changed /\ billers[c].pc = "flushed")]]
  /\ UNCHANGED entered

\* A request dies or is refused.
FailPayment(b) ==
  /\ billers[b].pc # "idle"
  /\ billers' = [billers EXCEPT ![b] = NoBiller]
  /\ UNCHANGED <<payments, entered, audited, crossed, outdated>>

BillerStep(b) ==
  \/ \E p \in Payments, d \in BOOLEAN, plan \in Plans \union {Null}, s \in Starts \union {Null} :
       ReadPayment(b, p, d, plan, s)
  \/ FlushPayment(b)
  \/ CommitPayment(b)
  \/ FailPayment(b)

BillingNext ==
  \/ \E p \in Payments, plan \in Plans, s \in Starts : CreatePayment(p, plan, s)
  \/ \E b \in Billers : BillerStep(b)

-----------------------------------------------------------------------------
(* What is shown.                                                          *)

PaymentsOf(t) == {p \in Payments : PayerOf[p] = t /\ payments[p] # NoPayment}

\* The last day paid for; summaries takes the payment that ends last.
Latest(t) ==
  CHOOSE p \in PaymentsOf(t) : \A q \in PaymentsOf(t) : ~Earlier(payments[p].end, payments[q].end)

BillingStatus(t, today) ==
  IF PaymentsOf(t) = {} THEN "sin_registro"
  ELSE LET until == payments[Latest(t)].end IN
       IF Earlier(until, today) THEN "pendiente"
       ELSE IF DayNumber(until) < DayNumber(today) + WarnDays THEN "por_vencer"
       ELSE "al_dia"

-----------------------------------------------------------------------------
(* Properties.                                                             *)

BillingTypeOK ==
  /\ payments \in [Payments -> PaymentRow \union {NoPayment}]
  /\ entered \subseteq Payments
  /\ audited \in [Payments -> PaymentRow \union {NoPayment}]
  /\ billers \in [Billers -> BillerRecord]
  /\ crossed \subseteq Payments
  /\ outdated \subseteq Payments

\* The days on which a status may turn.
Turns == UNION {{payments[p].start, payments[p].end} : p \in {q \in Payments : payments[q] # NoPayment}}

PeriodsAgree ==
  \A p \in Payments \ crossed :
    payments[p] # NoPayment => payments[p].end = PeriodEnd(payments[p].plan, payments[p].start)
AuditAgrees == \A p \in Payments \ outdated : audited[p] = payments[p]

\* A payment covers what its plan buys from its start, unless two corrections of plan and
\* start crossed; a tenant with a payment that covers the day owes nothing; and the audit
\* ends with what the payment is, unless a correction that changes nothing was overtaken
\* (update_payment, summaries, record).
CoverageAgrees ==
  /\ PeriodsAgree
  /\ AuditAgrees
  /\ \A p \in Payments :
       payments[p] # NoPayment =>
         \A today \in Turns :
           ~Earlier(today, payments[p].start) /\ ~Earlier(payments[p].end, today)
             => BillingStatus(PayerOf[p], today) \in {"por_vencer", "al_dia"}

-----------------------------------------------------------------------------
(* The inductive invariant.                                                *)

\* What a request read is what there is, unless it was told of a change; whoever has the
\* lock has it alone, and nothing changes under it; what the audit will say was computed on
\* what there is.
BillersAgree ==
  \A b \in Billers :
    LET q == billers[b]
        now == payments[q.payment]
    IN
    /\ q.pc # "idle" => q.payment \in entered /\ q.row \in PaymentRow
    /\ q.deletes => q.plan = Null /\ q.start = Null
    /\ q.pc = "read" => ~q.slack /\ (~q.late => q.row = now)
    /\ q.pc = "flushed" =>
         /\ q.locks <=> q.deletes \/ Corrected(b) # q.row
         /\ ~q.slack => /\ ~q.late => q.row = now
                        /\ ~q.deletes => now # NoPayment
                        /\ q.after = IF q.deletes THEN NoPayment ELSE Written(b)
    /\ q.locks => /\ q.pc = "flushed" /\ ~q.slack
                  /\ \A c \in Billers \ {b} : billers[c].locks => billers[c].payment # q.payment

BillingIInv ==
  /\ BillingTypeOK
  /\ \A p \in Payments : payments[p] # NoPayment => p \in entered
  /\ BillersAgree
  /\ PeriodsAgree
  /\ AuditAgrees
=============================================================================
