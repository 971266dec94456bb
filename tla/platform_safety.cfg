\* A payment and two requests about it; two tenants, two forms and two requests about
\* settings; two backups, and two
\* requests with a mail, one of which commits itself.
CONSTANTS
  acme = acme  p1 = p1  b1 = b1  b2 = b2  t1 = t1  t2 = t2
  mail1 = mail1  mail2 = mail2  mailsecret = mailsecret
  s1 = s1  s2 = s2  n1 = n1  n2 = n2  q1 = q1  q2 = q2
  Customers <- OneCustomer
  Payments <- OnePayment
  PayerOf <- PayerOfPayment
  Plans <- TwoPlans
  PlanMonths <- MonthsOfPlan
  LastMonth = 13
  MonthDays <- DaysOfMonth
  Starts <- EndsOfMonths
  WarnDays = 15
  Billers <- TwoBillers
  Null = Null
  Tenants <- TwoTenants
  Forms <- TwoForms
  GroupOf <- GroupOfForm
  Fields <- FieldsOfForm
  Values <- ColumnValues
  Secrets <- OneSecret
  Savers <- TwoSavers
  Nothing = Nothing
  Nights <- TwoNights
  LastSecond = 1
  Notices <- TwoNotices
  SelfCommitted <- ForcedIssue
  Unknown = Unknown
SPECIFICATION MCSpec
SYMMETRY Symmetric
CONSTRAINT Few
CHECK_DEADLOCK FALSE
INVARIANTS TypeOK CoverageAgrees SettingsAreAsSaved RecordedAsItWas
