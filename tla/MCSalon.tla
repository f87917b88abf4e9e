------------------------------ MODULE MCSalon -------------------------------
(* What a salon sells and how it is paid: its Stripe account, premium      *)
(* features, referrals, the catalogue, pictures, the till and the shop.    *)
(* The components share no state; `focus` says which one a behaviour is    *)
(* about, so that their states add up instead of multiplying.              *)
EXTENDS ConnectAccount, PremiumFeature, Referral, Catalogue,
        TerminalPayment, ShopOrder, Pictures, TLC

CONSTANTS h1, h2, x1, x2

VARIABLE focus  \* the component a behaviour is about

\* Two services of one name.
MCName == [i \in Items |-> CASE i = 1 -> 1 [] i \in {2, 3} -> 2 [] i = 4 -> 3]

MCSymmetry == Permutations({h1, h2}) \cup Permutations({x1, x2})

Components == {"ConnectAccount", "PremiumFeature", "Referral", "Catalogue",
               "TerminalPayment", "ShopOrder", "Pictures"}

Init ==
  /\ focus \in Components
  /\ ConnectInit
  /\ PremiumInit
  /\ ReferralInit
  /\ CatalogueInit /\ (focus # "Catalogue" => listed = {})
  /\ TerminalInit
  /\ ShopInit /\ (focus # "ShopOrder" => orderPayment = "none")
  /\ PictureInit /\ (focus # "Pictures" => kind = "about")

Next ==
  \/ focus = "ConnectAccount" /\ ConnectNext /\ UNCHANGED <<focus,
       premiumVars, referralVars, catalogueVars, terminalVars, shopVars,
       pictureVars>>
  \/ focus = "PremiumFeature" /\ PremiumNext /\ UNCHANGED <<focus,
       connectVars, referralVars, catalogueVars, terminalVars, shopVars,
       pictureVars>>
  \/ focus = "Referral" /\ ReferralNext /\ UNCHANGED <<focus, connectVars,
       premiumVars, catalogueVars, terminalVars, shopVars,
       pictureVars>>
  \/ focus = "Catalogue" /\ CatalogueNext /\ UNCHANGED <<focus, connectVars,
       premiumVars, referralVars, terminalVars, shopVars,
       pictureVars>>
  \/ focus = "TerminalPayment" /\ TerminalNext /\ UNCHANGED <<focus,
       connectVars, premiumVars, referralVars, catalogueVars, shopVars,
       pictureVars>>
  \/ focus = "ShopOrder" /\ ShopNext /\ UNCHANGED <<focus, connectVars,
       premiumVars, referralVars, catalogueVars, terminalVars,
       pictureVars>>
  \/ focus = "Pictures" /\ PictureNext /\ UNCHANGED <<focus, connectVars,
       premiumVars, referralVars, catalogueVars, terminalVars, shopVars>>

Spec == Init /\ [][Next]_<<focus, connectVars, premiumVars, referralVars,
                          catalogueVars, terminalVars, shopVars,
                          pictureVars>>

\* The type invariants of the components.
TypeOK ==
  /\ ConnectTypeOK
  /\ PremiumTypeOK
  /\ ReferralTypeOK
  /\ CatalogueTypeOK
  /\ TerminalTypeOK
  /\ ShopTypeOK
  /\ PictureTypeOK

\* A visitor of the shop window is shown all of it: every service of the list
\* but for equal names at a page's end, and pictures that are there.
WindowIsWhole == WalkIsComplete /\ ShownIsHosted
=============================================================================
