------------------------------ MODULE MCCards -------------------------------
(* A gift card and the letters about it and other documents, with the      *)
(* fairness of both.  GiftCard and Mail share no state here: what Mail     *)
(* needs to know of a card's sale is its own `sold`.  `focus` says which   *)
(* one a behaviour is about.  Nothing is symmetric, since TLC checks       *)
(* liveness.                                                               *)
EXTENDS GiftCard, Mail

VARIABLE focus  \* the component a behaviour is about

CardsInit ==
  /\ focus \in {"GiftCard", "Mail"}
  /\ Init
  /\ MailInit /\ (focus # "Mail" => topic = "card" /\ ~configured /\ ~scheduled)

CardsNext ==
  \/ focus = "GiftCard" /\ Next /\ UNCHANGED <<focus, mailVars>>
  \/ focus = "Mail" /\ MailStep /\ UNCHANGED <<focus, vars>>

\* The fairness of Spec and of MailSpec, each for the behaviours it is about.
CardsSpec ==
  /\ CardsInit /\ [][CardsNext]_<<focus, vars, mailVars>>
  /\ WF_vars(focus = "GiftCard" /\ Tick)
  /\ WF_mailVars(focus = "Mail" /\ FallsDue)
  /\ WF_mailVars(focus = "Mail" /\ \E h \in Senders : FindDue(h))
  /\ SF_mailVars(focus = "Mail" /\ \E h \in Senders : Deliver(h))
  /\ \A to \in {"purchaser", "salon", "recipient"} : SF_mailVars(focus = "Mail" /\ SentTo(to))

\* The type invariants of the components.
CardsTypeOK == TypeOK /\ MailTypeOK
=============================================================================
