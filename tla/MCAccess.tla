----------------------------- MODULE MCAccess -------------------------------
(* A salon and its people: signing up, admin accounts and their tokens,    *)
(* the tenant of a request, specialists, locations and consents.  The      *)
(* components share no state; `focus` says which one a behaviour is about, *)
(* so that their states add up instead of multiplying.                     *)
EXTENDS SignUp, AdminSession, RefreshTokens, Tenancy, Staff, Location,
        Consent, TLC

CONSTANTS h1, h2, x1, x2, x3, l1, e1, e2

VARIABLE focus  \* the component a behaviour is about

\* The same business or the same admin signs up again.
MCApplications == {<<e1, e1>>, <<e1, e2>>}

MCSymmetry == Permutations({h1, h2}) \cup Permutations({x1, x2})


Components == {"SignUp", "AdminSession", "RefreshTokens", "Tenancy",
               "Staff", "Location", "Consent"}

Init ==
  /\ focus \in Components
  /\ SignUpInit
  /\ SessionInit
  /\ TokenInit
  /\ TenancyInit
  /\ StaffInit /\ (focus # "Staff" => login[Owner].specialist = NoSpecialist)
  /\ LocationInit /\ (focus # "Location" => site[x3].there)
  /\ ConsentInit

Next ==
  \/ focus = "SignUp" /\ SignUpNext /\ UNCHANGED <<focus, sessionVars,
       tokenVars, tenancyVars, staffVars, locationVars, consentVars>>
  \/ focus = "AdminSession" /\ SessionNext /\ UNCHANGED <<focus, signUpVars,
       tokenVars, tenancyVars, staffVars, locationVars, consentVars>>
  \/ focus = "RefreshTokens" /\ TokenNext /\ UNCHANGED <<focus, signUpVars,
       sessionVars, tenancyVars, staffVars, locationVars, consentVars>>
  \/ focus = "Tenancy" /\ TenancyNext /\ UNCHANGED <<focus, signUpVars,
       sessionVars, tokenVars, staffVars, locationVars, consentVars>>
  \/ focus = "Staff" /\ StaffNext /\ UNCHANGED <<focus, signUpVars,
       sessionVars, tokenVars, tenancyVars, locationVars, consentVars>>
  \/ focus = "Location" /\ LocationNext /\ UNCHANGED <<focus, signUpVars,
       sessionVars, tokenVars, tenancyVars, staffVars, consentVars>>
  \/ focus = "Consent" /\ ConsentNext /\ UNCHANGED <<focus, signUpVars,
       sessionVars, tokenVars, tenancyVars, staffVars, locationVars>>

Spec == Init /\ [][Next]_<<focus, signUpVars, sessionVars, tokenVars,
                          tenancyVars, staffVars, locationVars,
                          consentVars>>

\* The type invariants of the components.
TypeOK ==
  /\ SignUpTypeOK
  /\ SessionTypeOK
  /\ TokenTypeOK
  /\ TenancyTypeOK
  /\ StaffTypeOK
  /\ LocationTypeOK
  /\ ConsentTypeOK

\* Neither guessing nor refreshing gets more than the sign-in routes allow.
AccountIsGuarded == LockedAfterMaxAttempts /\ SessionsAreSignIns
=============================================================================
