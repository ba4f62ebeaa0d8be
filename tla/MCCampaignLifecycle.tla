-------------------------- MODULE MCCampaignLifecycle --------------------------
(* Two models: one with two cells, so that it can be classified after results. *)
EXTENDS CampaignLifecycle
TwoAndOne == {<<1, 1>>, <<1, 2>>, <<2, 1>>}
=============================================================================
