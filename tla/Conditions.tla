------------------------------ MODULE Conditions ------------------------------
(***************************************************************************)
(* The check of a policy condition at start-up (checkCondition, constrains *)
(* of engine.go) against what the condition then means to CEL.             *)
(*                                                                         *)
(* A condition is built from its leaves upwards, in post-order, on a stack.*)
(* Of each expression the stack keeps what the check finds in its tree and *)
(* the value CEL gives it in every environment, so a behaviour is a way of *)
(* writing conditions, and an entry stands for all trees that agree in     *)
(* both.                                                                   *)
(***************************************************************************)
EXTENDS Naturals, Sequences

CONSTANTS
    IssuerKind,     \* [preset : BOOLEAN, require : BOOLEAN]
    Environment,    \* a caller and a requested resource
    Leaves,         \* for each issuer kind, the expressions to begin with
    MaxLeaves,      \* bound on the size of a condition
    Named,          \* environments whose resource some comparison names
    Listed,         \* those whose resource a literal names
    Related         \* those whose caller is known or asks for its own owner

Truth == {"true", "false", "error"}

Expression == [allowed       : BOOLEAN,     \* breaks no rule on its own
               bindsResource : BOOLEAN,     \* constrains(e, boundsResource)
               bindsCaller   : BOOLEAN,     \* constrains(e, boundsCaller)
               value         : [Environment -> Truth]]

ASSUME KindAssumption == IssuerKind \subseteq [preset : BOOLEAN, require : BOOLEAN]
ASSUME LeavesAssumption ==
    Leaves \in [IssuerKind -> SUBSET Expression] /\ MaxLeaves \in Nat
ASSUME EnvironmentsAssumption ==
    /\ Named \subseteq Environment
    /\ Listed \subseteq Environment
    /\ Related \subseteq Environment
-----------------------------------------------------------------------------
(* CEL: && and || do not mind an error on one side if the other decides.   *)

AndValue(a, b) ==
    IF "false" \in {a, b} THEN "false" ELSE IF "error" \in {a, b} THEN "error" ELSE "true"

OrValue(a, b) ==
    IF "true" \in {a, b} THEN "true" ELSE IF "error" \in {a, b} THEN "error" ELSE "false"

NotValue(a) ==
    IF a = "error" THEN "error" ELSE IF a = "true" THEN "false" ELSE "true"

ChoiceValue(c, a, b) ==
    IF c = "error" THEN "error" ELSE IF c = "true" THEN a ELSE b

SameValue(a, b) ==
    IF "error" \in {a, b} THEN "error" ELSE IF a = b THEN "true" ELSE "false"
-----------------------------------------------------------------------------
(* constrains, by the operator at the root of an expression.               *)

And(l, r) ==
    [allowed       |-> l.allowed /\ r.allowed,
     bindsResource |-> l.bindsResource \/ r.bindsResource,
     bindsCaller   |-> l.bindsCaller \/ r.bindsCaller,
     value         |-> [e \in Environment |-> AndValue(l.value[e], r.value[e])]]

\* (Seeded error: one operand of || that constrains is enough.)
OrOfEither(l, r) ==
    [allowed       |-> l.allowed /\ r.allowed,
     bindsResource |-> l.bindsResource \/ r.bindsResource,
     bindsCaller   |-> l.bindsCaller \/ r.bindsCaller,
     value         |-> [e \in Environment |-> OrValue(l.value[e], r.value[e])]]

Or(l, r) ==
    [allowed       |-> l.allowed /\ r.allowed,
     bindsResource |-> l.bindsResource /\ r.bindsResource,
     bindsCaller   |-> l.bindsCaller /\ r.bindsCaller,
     value         |-> [e \in Environment |-> OrValue(l.value[e], r.value[e])]]

\* Every other expression does not constrain, whatever is in it.
Unbound(allowed, value) ==
    [allowed |-> allowed, bindsResource |-> FALSE, bindsCaller |-> FALSE, value |-> value]

Not(a) == Unbound(a.allowed, [e \in Environment |-> NotValue(a.value[e])])

\* c ? a : b
Choice(c, a, b) ==
    Unbound(c.allowed /\ a.allowed /\ b.allowed,
            [e \in Environment |-> ChoiceValue(c.value[e], a.value[e], b.value[e])])

\* Conditions compared with one another: a == b.
Same(l, r) ==
    Unbound(l.allowed /\ r.allowed,
            [e \in Environment |-> SameValue(l.value[e], r.value[e])])
-----------------------------------------------------------------------------
VARIABLES
    issuer,  \* the kind of the issuer whose policy is written; fixed
    stack,   \* the expressions built and not yet used in another
    size     \* history: the leaves so far

vars == <<issuer, stack, size>>

Init ==
    /\ issuer \in IssuerKind
    /\ stack = <<>>
    /\ size = 0

\* The n topmost expressions become operands of e.
Put(n, e) == stack' = Append(SubSeq(stack, 1, Len(stack) - n), e)

FromTop(n) == stack[Len(stack) + 1 - n]

Leaf ==
    /\ size < MaxLeaves
    /\ \E e \in Leaves[issuer] : Put(0, e)
    /\ size' = size + 1
    /\ UNCHANGED issuer

Conjoin ==
    /\ Len(stack) >= 2
    /\ Put(2, And(FromTop(2), FromTop(1)))
    /\ UNCHANGED <<issuer, size>>

Disjoin ==
    /\ Len(stack) >= 2
    /\ Put(2, Or(FromTop(2), FromTop(1)))
    /\ UNCHANGED <<issuer, size>>

Equate ==
    /\ Len(stack) >= 2
    /\ Put(2, Same(FromTop(2), FromTop(1)))
    /\ UNCHANGED <<issuer, size>>

Negate ==
    /\ Len(stack) >= 1
    /\ Put(1, Not(FromTop(1)))
    /\ UNCHANGED <<issuer, size>>

Choose ==
    /\ Len(stack) >= 3
    /\ Put(3, Choice(FromTop(3), FromTop(2), FromTop(1)))
    /\ UNCHANGED <<issuer, size>>

Next == Leaf \/ Conjoin \/ Disjoin \/ Equate \/ Negate \/ Choose

Spec == Init /\ [][Next]_vars
-----------------------------------------------------------------------------
\* (Seeded error: the caller must be constrained only if require is set.)
CallerBoundIfRequired(e) == issuer.require => e.bindsCaller

CallerIsBound(e) == issuer.require \/ e.bindsCaller

Accepted(e) == e.allowed /\ e.bindsResource /\ CallerIsBound(e)

TrueOnlyIn(e, environments) ==
    \A env \in Environment : e.value[env] = "true" => env \in environments

Conditions == {stack[n] : n \in DOMAIN stack}

\* What the check finds in e is true of e.
SaysTruly(iss, e) ==
    /\ e.bindsResource => TrueOnlyIn(e, Named)
    /\ ~iss.preset /\ e.allowed /\ e.bindsResource => TrueOnlyIn(e, Listed)
    /\ iss.preset /\ e.bindsCaller => TrueOnlyIn(e, Related)

LeavesSayTruly == \A iss \in IssuerKind : \A e \in Leaves[iss] : SaysTruly(iss, e)
-----------------------------------------------------------------------------
(* Types; an expression has at least one leaf.                             *)
TypeOK ==
    /\ issuer \in IssuerKind
    /\ stack \in Seq(Expression)
    /\ size \in 0 .. MaxLeaves
    /\ Len(stack) =< size

(* What constrains says of any part of a condition is so: no part for      *)
(* which it answers yes is true where no comparison accepted by bound      *)
(* holds, however deep || and && are nested and whatever errors they       *)
(* absorb.  So no policy applies to a resource that no comparison names.   *)
ConstrainsIsRight == \A e \in Conditions : SaysTruly(issuer, e)

(* For an issuer that is not a preset, a policy whose condition passes the *)
(* check applies only to resources that are written down in the condition, *)
(* not to any that claims could form, however its parts are mixed.         *)
OnlyListedResources ==
    ~issuer.preset => \A e \in Conditions : Accepted(e) => TrueOnlyIn(e, Listed)

(* For a preset without require, whose tokens anybody can get, it applies  *)
(* only to callers the operator has named, and beyond them to resources of *)
(* the caller's own owner.                                                 *)
StrangersStayAtHome ==
    issuer.preset /\ ~issuer.require =>
        \A e \in Conditions : Accepted(e) => TrueOnlyIn(e, Related)
=============================================================================
