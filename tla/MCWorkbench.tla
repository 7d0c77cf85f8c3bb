----------------------------- MODULE MCWorkbench -----------------------------
(* Instances of Workbench for TLC.                                         *)
EXTENDS Workbench, TLC

(* Engines leave records below the disclosure states.  An alias stands for *)
(* the records of older versions.                                          *)
MCInitial == {"reviewed", "harness_covered"}

MCEvents == {"vendor_contacted", "embargo_expired"}

(* A target that is granted, by its old name, one that is refused and one  *)
(* that is no claim state; none of them is a disclosure state.             *)
MCTargets == {"vulnerability_claim", "anchored", "published"}

MCSymmetry == Permutations(Reviewers)
=============================================================================
