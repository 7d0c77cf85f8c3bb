--------------------------- MODULE MCEmbargoTimer ---------------------------
(* Instances of EmbargoTimer for TLC.  The milestones and the default term *)
(* are scaled down to a few days, keeping their order: the last milestone  *)
(* is the default embargo, as 90 is in the code.                           *)
EXTENDS EmbargoTimer

MCTypes == {"vendor_contacted", "vendor_acknowledged", "embargo_extended"}
MCMilestones == {1, 2}
=============================================================================
