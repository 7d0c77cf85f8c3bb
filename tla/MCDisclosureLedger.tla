------------------------ MODULE MCDisclosureLedger ------------------------
(* DisclosureLedger on small instances.  The writers and the events are    *)
(* model values and no definition tells two of them apart, so both sets    *)
(* are symmetric.                                                          *)
EXTENDS DisclosureLedger, TLC

MCSymmetry == Permutations(Writers) \cup Permutations(Events)

=============================================================================
