--------------------------- MODULE PolicyDecision ----------------------------
(***************************************************************************)
(* What the policy engine promises (internal/policy/engine.go, the comment *)
(* of Evaluate), as a specification: one step from the request to the      *)
(* answer.                                                                 *)
(***************************************************************************)
EXTENDS Policies

CONSTANT Requests   \* authenticated, decoded requests to consider

ASSUME RequestsAssumption == Requests \subseteq Request

VARIABLES policies, request, verdict
decisionVars == <<policies, request, verdict>>

DecisionInit == /\ policies \in PolicySets
                /\ request \in Requests
                /\ verdict = Pending

\* A list over the cap is rejected outright, never truncated.
Reject == /\ verdict = Pending
          /\ Oversized(request)
          /\ verdict' = Rejected
          /\ UNCHANGED <<policies, request>>

Decide == /\ verdict = Pending
          /\ ~Oversized(request)
          /\ verdict' = Verdict(policies, request)
          /\ UNCHANGED <<policies, request>>

DecisionNext == Reject \/ Decide

DecisionSpec == DecisionInit /\ [][DecisionNext]_decisionVars
==============================================================================
