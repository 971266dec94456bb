------------------------------ MODULE MCPlatform ------------------------------
(* Small instances of Platform for TLC. *)
EXTENDS Platform, TLC

CONSTANTS acme, p1, b1, b2, t1, t2, mail1, mail2, mailsecret, s1, s2, n1, n2, q1, q2

OneCustomer == {acme}
OnePayment == {p1}
PayerOfPayment == p1 :> acme
TwoPlans == {"mensual", "anual"}
MonthsOfPlan == "mensual" :> 1 @@ "anual" :> 12
DaysOfMonth ==
  [m \in 0 .. 13 |-> IF m % 12 = 1 THEN (IF m = 13 THEN 29 ELSE 28)
                     ELSE IF m % 12 \in {3, 5, 8, 10} THEN 30 ELSE 31]
EndsOfMonths == {<<0, 31>>, <<1, 28>>}
TwoBillers == {b1, b2}
TwoTenants == {t1, t2}
TwoForms == {mail1, mail2}
GroupOfForm == mail1 :> "email" @@ mail2 :> "email"
FieldsOfForm ==
  mail1 :> [smtp_host |-> mail1, smtp_password |-> mailsecret] @@
  mail2 :> [smtp_host |-> mail2]
ColumnValues == {Nothing, mail1, mail2, mailsecret}
OneSecret == {mailsecret}
TwoSavers == {s1, s2}
TwoNights == {n1, n2}
TwoNotices == {q1, q2}
ForcedIssue == {q2}
Symmetric == Permutations(TwoSavers) \union Permutations(TwoBillers)

\* The three share no state: their steps are explored one kind at a time.
Settled == SettingsInit /\ \A t \in Tenants : settings[t] = DefaultRow
MCNext ==
  \/ Settled /\ BackgroundInit /\ BillingStep
  \/ BillingInit /\ BackgroundInit /\ SettingsStep
  \/ BillingInit /\ Settled /\ BackgroundStep
MCSpec == Init /\ [][MCNext]_vars

\* The default tenant may begin without a row.
\* Two tenants with one kind of logo; or one tenant with two, or with forms.  Backups and
\* mails share no state either.
Forming ==
  \/ \E s \in FormSubjects : asked[s] # Nothing
  \/ \E h \in Savers : savers[h].form # Nothing
Quiet == second = 0 /\ \A n \in Nights : backups[n].pc = "queued"
Few ==
  /\ Quiet \/ \A q \in Notices : notices[q] = "idle"
  /\ settings[t2] # NoRow
  /\ \A h \in Savers : savers[h].form # Nothing => savers[h].tenant = t1
  /\ Forming => sharers["dark"] = {}
  /\ Forming \/ sharers["dark"] # {} => \A v \in Variants : sharers[v] \subseteq {t1}
=============================================================================
