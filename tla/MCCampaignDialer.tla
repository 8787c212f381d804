--------------------------- MODULE MCCampaignDialer ---------------------------
(* Model checking of CampaignDialer on the contacts and requests of the cfg. *)
EXTENDS CampaignDialer

\* A negative one, none, and one call at a time (of each task).
SomeWidths == {-1, 0, 1}
===============================================================================
