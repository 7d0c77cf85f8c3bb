-------------------------------- MODULE Absent ---------------------------------
(***************************************************************************)
(* The value the modules share for what is not there: Python's None, a     *)
(* file that does not exist, a command that is not under way.              *)
(***************************************************************************)
CONSTANT None

(* A mapping completed with defaults for the keys it lacks.                *)
Completed(f, defaults) ==
  [ k \in DOMAIN f \cup DOMAIN defaults |-> IF k \in DOMAIN f THEN f[k] ELSE defaults[k] ]

=============================================================================
