-------------------------------- MODULE Platform --------------------------------
(* The platform's own business, which shares no state: what tenants pay, their
   settings, and what happens in the background. *)
EXTENDS Billing, PlatformSettings, Background

vars == <<billingVars, settingsVars, backgroundVars>>

Init == BillingInit /\ SettingsInit /\ BackgroundInit

BillingStep == BillingNext /\ UNCHANGED <<settingsVars, backgroundVars>>
SettingsStep == SettingsNext /\ UNCHANGED <<billingVars, backgroundVars>>
BackgroundStep == BackgroundNext /\ UNCHANGED <<billingVars, settingsVars>>

Next == BillingStep \/ SettingsStep \/ BackgroundStep

Spec == Init /\ [][Next]_vars

\* Rows and requests have the values their columns and their code allow.
TypeOK == BillingTypeOK /\ SettingsTypeOK /\ BackgroundTypeOK
=============================================================================
