---------------------------- MODULE MCEmbargoTick ----------------------------
(* Instances of EmbargoTick for TLC.  Milestones of one and two days stand *)
(* for the ladder of five: a run has then two titles to go through in      *)
(* order, and both are within reach in three days.                         *)
EXTENDS EmbargoTick

MCTypes == {"vendor_contacted", "embargo_extended"}
MCMilestones == {1, 2}
=============================================================================
