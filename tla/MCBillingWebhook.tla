---------------------------- MODULE MCBillingWebhook ----------------------------
(* Instances of BillingWebhook for TLC: two plans on sale, one name the     *)
(* ladder does not know, one granted plan beside free.                      *)
EXTENDS BillingWebhook

CONSTANT LastInstant

MCTimes == 0..LastInstant
MCLadder == {"free", "founding", "solo", "team"}
MCGrants == {"free", "founding"}
MCSold == {"solo", "team", "retired"}
MCOnePlan == {"solo"}
=============================================================================
