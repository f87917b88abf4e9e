----------------------------- MODULE MCGiftCard -----------------------------
(* GiftCard alone for TLC: two handlers at a time, one appointment and a   *)
(* card of one unit, for the card that is paid for and stays cancelled.    *)
(* Its passing properties are checked in MCCards.                          *)
EXTENDS GiftCard
=============================================================================
