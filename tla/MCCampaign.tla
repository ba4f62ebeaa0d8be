------------------------------ MODULE MCCampaign ------------------------------
(* A small campaign for TLC: every launch is of all its cells. *)
EXTENDS CampaignProperties
Launches == {Cells}
=============================================================================
