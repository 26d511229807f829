------------------------------ MODULE Policies -------------------------------
(***************************************************************************)
(* The operator's policies and the decision they give, as a definition:    *)
(* the decision is made from sets alone, so neither the order of the       *)
(* policies nor the order or repetition of the resources can matter.       *)
(*                                                                         *)
(* A compiled CEL condition is what Evaluate sees of it: a deterministic   *)
(* outcome for a caller (the issuer's verified claims) and one resource,   *)
(* which is true, false, or a run-time error.                              *)
(***************************************************************************)
EXTENDS Authority, Sequences, Functions

CONSTANTS Issuer,           \* configured OIDC issuers, by name
          Caller,           \* claim maps of verified callers
          Resource,         \* canonical resource strings
          PolicyName,
          MaxRepositories,  \* policy.maxRepositories
          PolicySets        \* operator configurations to consider

Outcome == {"true", "false", "error"}

Policy == [name    : PolicyName,
           outcome : [Caller \X Resource -> Outcome],
           grant   : PermissionMap]

ASSUME MaxRepositoriesAssumption == MaxRepositories \in Nat
ASSUME PolicySetsAssumption == PolicySets \subseteq [Issuer -> Seq(Policy)]

Request == [issuer    : Issuer,
            caller    : Caller,
            resources : Seq(Resource),
            required  : PermissionMap]
-----------------------------------------------------------------------------
(* The decision, as a function of the policies and the request.            *)

Evaluated(pols, rq) == Range(pols[rq.issuer])

Yields(pols, rq, r, o) ==
    {p \in Evaluated(pols, rq) : p.outcome[<<rq.caller, r>>] = o}

Held(pols, rq, r) ==
    UNION {Authority(p.grant) : p \in Yields(pols, rq, r, "true")}

Understood(required) ==
    \A k \in Present(required) : Catalog[k] # {} /\ required[k] \in Level

IsCovered(pols, rq, r) ==
    /\ Yields(pols, rq, r, "true") # {}
    /\ Understood(rq.required)
    /\ Authority(rq.required) \subseteq Held(pols, rq, r)

NamesYielding(pols, rq, o) ==
    {p.name : p \in UNION {Yields(pols, rq, r, o) : r \in Range(rq.resources)}}

UncoveredOf(pols, rq) ==
    {r \in Range(rq.resources) : ~IsCovered(pols, rq, r)}

Pending == [status |-> "pending"]
Rejected == [status |-> "rejected"]
Decided(allowed, uncovered, matched, skipped) ==
    [status |-> "decided", allowed |-> allowed, uncovered |-> uncovered,
     matched |-> matched, skipped |-> skipped]

Verdict(pols, rq) ==
    Decided(Range(rq.resources) # {} /\ UncoveredOf(pols, rq) = {},
            UncoveredOf(pols, rq),
            NamesYielding(pols, rq, "true"),
            NamesYielding(pols, rq, "error"))

Oversized(rq) == Len(rq.resources) > MaxRepositories
==============================================================================
