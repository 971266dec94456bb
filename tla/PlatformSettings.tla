---------------------------- MODULE PlatformSettings ----------------------------
(***************************************************************************)
(* A tenant's settings: platform_settings_service, its repository, and the *)
(* endpoints of configuration.py for the organisation, the mail server,    *)
(* payments and the two logos.  (Bound: the object storage is configured.) *)
(*                                                                         *)
(* There is one row of settings per tenant, made by whoever needs it       *)
(* first, but one object per logo for all tenants.  A request reads the    *)
(* row and writes the columns in which it differs from what it read.  The  *)
(* object storage takes part in no transaction.                            *)
(***************************************************************************)
EXTENDS Naturals, FiniteSets

CONSTANTS
  Tenants,
  Forms,      \* PUT requests: of the organisation, the mail server, the payments
  GroupOf,    \* which of these each form is of
  Fields,     \* the columns each form writes, with their values; a mail password that is
              \* left empty is not among them
  Values,     \* of these columns
  Secrets,    \* values of a password
  Savers,     \* concurrent requests
  Nothing     \* null

Variants == {"normal", "dark"}
FormColumns == UNION {DOMAIN Fields[f] : f \in Forms}
\* branding_logo_object_key and branding_logo_dark_object_key, as flags, by the name of
\* the variant; ink is branding_logo_is_dark.
Columns == Variants \union {"ink"} \union FormColumns

ASSUME SettingsAssumption ==
  /\ \A f \in Forms : \A c \in DOMAIN Fields[f] :
       c \notin Variants \union {"ink"} /\ Fields[f][c] \in Values
  /\ Secrets \subseteq Values
  /\ Nothing \in Values \ Secrets
  /\ Nothing \notin Tenants
  /\ \A f, g \in Forms :
       GroupOf[f] # GroupOf[g] => DOMAIN Fields[f] \intersect DOMAIN Fields[g] = {}

DefaultRow == [c \in Columns |-> IF c \in FormColumns THEN Nothing ELSE FALSE]
Rows ==
  {r \in [Columns -> Values \union BOOLEAN] :
     \A c \in Columns : r[c] \in IF c \in FormColumns THEN Values ELSE BOOLEAN}
NoRow == [c \in {} |-> Nothing]

\* A logo is known by the tenant that uploaded it and by whether its ink is dark, at which
\* only save_logo looks.
Logos == [of: Tenants, dark: BOOLEAN]
NoLogo == [of |-> Nothing, dark |-> FALSE]

\* What a request is about: a logo, which is nobody's own, or a form of one tenant.
LogoSubjects == {Nothing} \X Variants
FormSubjects == Tenants \X {GroupOf[f] : f \in Forms}
Subjects == LogoSubjects \union FormSubjects

NoSubject == <<Nothing, "none">>
NoFields == [c \in {} |-> Nothing]

\* What uploading and removing a logo write.
Flagged(v, dark) ==
  [c \in {v} \union (IF v = "normal" THEN {"ink"} ELSE {}) |->
     IF c = "ink" THEN dark ELSE TRUE]
Unflagged(v) == [c \in {v} |-> FALSE]
Writings ==
  {Flagged(v, dark) : v \in Variants, dark \in BOOLEAN} \union {Unflagged(v) : v \in Variants}
    \union {Fields[f] : f \in Forms} \union {NoFields}

\* pc = "uploaded": the new logo is in the bucket; "removing": the row was read and the logo
\* is to go; "read": the row was read and is to be written.
\* row: as it was read; inserts: it was not there; fields: what is written; form: the form;
\* met: another request about the same was served at the same time, or the bucket failed
\* (history).
NoSaver ==
  [pc |-> "idle", tenant |-> Nothing, subject |-> NoSubject, form |-> Nothing,
   fields |-> NoFields, row |-> DefaultRow, inserts |-> FALSE, met |-> FALSE]
SaverRecord ==
  [pc: {"idle", "uploaded", "removing", "read"}, tenant: Tenants \union {Nothing},
   subject: Subjects \union {NoSubject}, form: Forms \union {Nothing},
   fields: Writings, row: Rows, inserts: BOOLEAN, met: BOOLEAN]

VARIABLES
  settings,  \* platform_settings of each tenant
  logos,     \* objects in the bucket, by variant
  savers,    \* the requests being served
  asked,     \* the form of each kind that a tenant saved last (history)
  sharers,   \* tenants that uploaded or removed each logo (history)
  torn       \* subjects whose last requests met, failed or died half way (history)

settingsVars == <<settings, logos, savers, asked, sharers, torn>>

SettingsInit ==
  /\ settings \in [Tenants -> {NoRow, DefaultRow}]
  /\ logos = [v \in Variants |-> NoLogo]
  /\ savers = [h \in Savers |-> NoSaver]
  /\ asked = [s \in FormSubjects |-> Nothing]
  /\ sharers = [v \in Variants |-> {}]
  /\ torn = {}

\* get_or_create, as the request that calls it sees the row.
RowOf(t) == IF settings[t] = NoRow THEN DefaultRow ELSE settings[t]

\* A request begins; whoever is about the same has met.
BeginSaving(h, record) ==
  LET others == {g \in Savers : savers[g].subject = record.subject} IN
  /\ savers[h].pc = "idle"
  /\ savers' = [g \in Savers |->
       IF g = h THEN [record EXCEPT !.met = others # {}]
       ELSE IF g \in others THEN [savers[g] EXCEPT !.met = TRUE]
       ELSE savers[g]]

\* Any request that only reads makes the row.
Visit(t) ==
  /\ settings[t] = NoRow
  /\ settings' = [settings EXCEPT ![t] = DefaultRow]
  /\ UNCHANGED <<logos, savers, asked, sharers, torn>>

\* Fault: every column of the row is written.
Merged_All(read, fields, now) ==
  [c \in Columns |-> IF c \in DOMAIN fields THEN fields[c] ELSE read[c]]

\* POST .../email/logo and .../email/logo/dark: save_logo, save_dark_logo.
UploadLogo(h, t, v, dark) ==
  /\ BeginSaving(h, [NoSaver EXCEPT !.pc = "uploaded", !.tenant = t, !.subject = <<Nothing, v>>,
                                    !.fields = Flagged(v, dark)])
  /\ logos' = [logos EXCEPT ![v] = [of |-> t, dark |-> dark]]
  /\ sharers' = [sharers EXCEPT ![v] = @ \union {t}]
  /\ UNCHANGED <<settings, asked, torn>>

ReadToFlag(h) ==
  /\ savers[h].pc = "uploaded"
  /\ savers' = [savers EXCEPT ![h].pc = "read", ![h].row = RowOf(savers[h].tenant),
                              ![h].inserts = settings[savers[h].tenant] = NoRow]
  /\ UNCHANGED <<settings, logos, asked, sharers, torn>>

\* DELETE of the same: remove_logo, remove_dark_logo.
ReadToRemove(h, t, v) ==
  /\ BeginSaving(h, [NoSaver EXCEPT !.pc = "removing", !.tenant = t, !.subject = <<Nothing, v>>,
                                    !.fields = Unflagged(v), !.row = RowOf(t),
                                    !.inserts = settings[t] = NoRow])
  /\ sharers' = [sharers EXCEPT ![v] = @ \union {t}]
  /\ UNCHANGED <<settings, logos, asked, torn>>

\* An error of the bucket is logged and nothing else.
RemoveLogo(h, removed) ==
  /\ savers[h].pc = "removing"
  /\ logos' = IF removed THEN [logos EXCEPT ![savers[h].subject[2]] = NoLogo] ELSE logos
  /\ savers' = [savers EXCEPT ![h].pc = "read", ![h].met = @ \/ ~removed]
  /\ UNCHANGED <<settings, asked, sharers, torn>>

\* PUT /configuration/organization, /email, /payments.
ReadToSave(h, t, f) ==
  /\ BeginSaving(h, [NoSaver EXCEPT !.pc = "read", !.tenant = t, !.subject = <<t, GroupOf[f]>>,
                                    !.form = f, !.fields = Fields[f], !.row = RowOf(t),
                                    !.inserts = settings[t] = NoRow])
  /\ UNCHANGED <<settings, logos, asked, sharers, torn>>

\* The columns that differ from what was read, over what is there.  A password is
\* encrypted anew and always differs.
Merged(read, fields, now) ==
  [c \in Columns |->
     IF c \in DOMAIN fields /\ (fields[c] # read[c] \/ fields[c] \in Secrets)
     THEN fields[c] ELSE now[c]]

\* The flush of repository.update, and the commit.  One row to a tenant: the second that
\* is inserted is refused.
SaveSettings(h) ==
  LET t == savers[h].tenant
      s == savers[h].subject
  IN
  /\ savers[h].pc = "read"
  /\ savers[h].inserts => settings[t] = NoRow
  /\ settings' = [settings EXCEPT ![t] = Merged(savers[h].row, savers[h].fields, RowOf(t))]
  /\ asked' = IF s \in LogoSubjects THEN asked ELSE [asked EXCEPT ![s] = savers[h].form]
  /\ torn' = IF savers[h].met THEN torn \union {s} ELSE torn \ {s}
  /\ savers' = [savers EXCEPT ![h] = NoSaver]
  /\ UNCHANGED <<logos, sharers>>

\* The request dies or is refused; what it did in the bucket stays.
GiveUpSaving(h) ==
  /\ savers[h].pc # "idle"
  /\ savers' = [savers EXCEPT ![h] = NoSaver]
  /\ torn' = torn \union ({savers[h].subject} \intersect LogoSubjects)
  /\ UNCHANGED <<settings, logos, asked, sharers>>

SettingsNext ==
  \/ \E t \in Tenants : Visit(t)
  \/ \E h \in Savers :
       \/ \E t \in Tenants, dark \in BOOLEAN : UploadLogo(h, t, "normal", dark)
       \/ \E t \in Tenants : UploadLogo(h, t, "dark", TRUE)
       \/ \E t \in Tenants, v \in Variants : ReadToRemove(h, t, v)
       \/ \E t \in Tenants, f \in Forms : ReadToSave(h, t, f)
       \/ ReadToFlag(h)
       \/ \E removed \in BOOLEAN : RemoveLogo(h, removed)
       \/ SaveSettings(h)
       \/ GiveUpSaving(h)

-----------------------------------------------------------------------------
(* What is shown.                                                          *)

\* has_custom_logo and has_dark_logo of get_branding.
HasLogo(t, v) == RowOf(t)[v]

\* GET .../branding/logo, /branding/logo/dark and /public/logo do not ask the row.
ServedLogo(v) == logos[v]

\* The mails do: get_logo_bytes(row).
MailLogo(t) == IF HasLogo(t, "normal") THEN logos["normal"] ELSE NoLogo

-----------------------------------------------------------------------------
(* Properties.                                                             *)

SettingsTypeOK ==
  /\ settings \in [Tenants -> Rows \union {NoRow}]
  /\ logos \in [Variants -> Logos \union {NoLogo}]
  /\ savers \in [Savers -> SaverRecord]
  /\ asked \in [FormSubjects -> Forms \union {Nothing}]
  /\ sharers \in [Variants -> SUBSET Tenants]
  /\ torn \subseteq Subjects

\* The settings of a tenant say of a logo what the bucket holds.
LogoAgrees(t, v) ==
  /\ HasLogo(t, v) <=> ServedLogo(v) # NoLogo
  /\ HasLogo(t, v) => ServedLogo(v).of = t
  /\ v = "normal" => MailLogo(t) = ServedLogo(v)
  /\ v = "normal" /\ HasLogo(t, v) => settings[t].ink = ServedLogo(v).dark

\* The settings are what the last form about a subject said.
FormAgrees(s) ==
  asked[s] # Nothing =>
    \A c \in DOMAIN Fields[asked[s]] : settings[s[1]][c] = Fields[asked[s]][c]

\* A tenant that alone has a logo is shown its own where its settings say that there is one
\* and none where they do not, on pages and in mails, and its ink is what they say; and the
\* settings are what the last form of each kind said, whatever other forms and logos were
\* saved at the same time.  Unless two requests about the same met, or one failed half way.
SettingsAreAsSaved ==
  /\ \A t \in Tenants, v \in Variants :
       /\ sharers[v] \subseteq {t}
       /\ <<Nothing, v>> \notin torn \union {savers[h].subject : h \in Savers}
       => LogoAgrees(t, v)
  /\ \A s \in FormSubjects \ torn : FormAgrees(s)

-----------------------------------------------------------------------------
(* The inductive invariant.                                                *)

About(h, v) == savers[h].subject = <<Nothing, v>>
Serving(h) == savers[h].pc # "idle"

\* What a request is about decides what it writes.
SubjectsAgree ==
  \A h \in Savers :
    LET q == savers[h] IN
    IF ~Serving(h) THEN q.subject = NoSubject
    ELSE /\ q.tenant \in Tenants
         /\ \/ \E v \in Variants :
                /\ About(h, v)
                /\ q.tenant \in sharers[v]
                /\ q.fields = Unflagged(v) \/ \E dark \in BOOLEAN : q.fields = Flagged(v, dark)
            \/ /\ q.pc = "read" /\ q.form \in Forms
               /\ q.subject = <<q.tenant, GroupOf[q.form]>>
               /\ q.fields = Fields[q.form]

\* Two requests about the same have met.  One that met nobody writes over what it read, and
\* what it did in the bucket is what it is about to say.
MeetingsAgree ==
  \A h \in Savers :
    LET q == savers[h] IN
    Serving(h) /\ ~q.met =>
      /\ \A g \in Savers \ {h} : savers[g].subject # q.subject
      /\ q.pc # "uploaded" => \A c \in DOMAIN q.fields : q.row[c] = RowOf(q.tenant)[c]
      /\ \A v \in Variants :
           /\ About(h, v) /\ q.pc \in {"uploaded", "read"} =>
                \/ q.fields = Unflagged(v) /\ logos[v] = NoLogo
                \/ \E dark \in BOOLEAN :
                     q.fields = Flagged(v, dark) /\ logos[v] = [of |-> q.tenant, dark |-> dark]
           /\ About(h, v) /\ q.pc = "removing" => q.fields = Unflagged(v)

\* A form that was saved is of the kind that was asked.
FormsAgree ==
  \A s \in FormSubjects :
    asked[s] # Nothing => GroupOf[asked[s]] = s[2] /\ settings[s[1]] # NoRow

SettingsIInv ==
  SettingsTypeOK /\ SubjectsAgree /\ MeetingsAgree /\ FormsAgree /\ SettingsAreAsSaved
=============================================================================
