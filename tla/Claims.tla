------------------------------- MODULE Claims -------------------------------
(* The claim states of aegisgraph/constants.py and the transition rule of  *)
(* aegisgraph/claims.py, pure functions of state names.                    *)
EXTENDS Integers, Sequences, Functions

ClaimStateNames ==
  << "observed", "anchored", "scored", "validation_tasked", "reviewed",
     "reviewed_embargoed", "disclosed_public", "accepted", "limited", "retired" >>

ClaimStates == Range(ClaimStateNames)

ClaimStateOrder(s) == CHOOSE i \in DOMAIN ClaimStateNames : ClaimStateNames[i] = s

(* Names older records use, and one spelling.                              *)
V02V03ClaimStateMap ==
  [ candidate                   |-> "observed",
    static_supported            |-> "anchored",
    priority_validation         |-> "validation_tasked",
    harness_covered             |-> "reviewed",
    synthetic_dynamic_observed  |-> "reviewed",
    authorized_dynamic_observed |-> "reviewed",
    externally_correlated       |-> "reviewed",
    defensive_recommendation    |-> "accepted",
    vulnerability_claim         |-> "limited" ]

Aliases ==
  [s \in {"validation-tasked"} \cup DOMAIN V02V03ClaimStateMap |->
     IF s = "validation-tasked" THEN "validation_tasked" ELSE V02V03ClaimStateMap[s]]

Canonical(s) == IF s \in DOMAIN Aliases THEN Aliases[s] ELSE s

(* canonical_claim_state() raises on any other name.                       *)
KnownState(s) == Canonical(s) \in ClaimStates

TransitionAllowed(previous, next) ==
  LET prev == Canonical(previous)
      nxt  == Canonical(next)
  IN IF prev = "retired"
     THEN nxt = "retired"
     ELSE \/ ClaimStateOrder(nxt) >= ClaimStateOrder(prev)
          \/ nxt \in {"limited", "retired"}
=============================================================================
