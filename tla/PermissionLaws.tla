--------------------------- MODULE PermissionLaws ----------------------------
(***************************************************************************)
(* The operations of internal/perm against the authority they stand for.   *)
(* The state is a pair of maps; a step writes one entry of one of them, so *)
(* every pair of maps is reached.  "left" is what is asked for and "right" *)
(* what is held, as in Gaps(perms, ceiling) of githubapp.Mint.             *)
(***************************************************************************)
EXTENDS Authority

VARIABLES left, right
vars == <<left, right>>

Init == left = NoPermissions /\ right = NoPermissions

WriteLeft(k, e) == left' = [left EXCEPT ![k] = e] /\ UNCHANGED right
WriteRight(k, e) == right' = [right EXCEPT ![k] = e] /\ UNCHANGED left

Next == \E k \in Key, e \in Entry : WriteLeft(k, e) \/ WriteRight(k, e)

Spec == Init /\ [][Next]_vars
-----------------------------------------------------------------------------
\* Both maps are permission maps, and what Intersect makes of them, whatever
\* GitHub put in, holds known keys with known levels only.
TypeOK == /\ left \in PermissionMap /\ right \in PermissionMap
          /\ Intersect({left, right}) \in
                 {m \in PermissionMap : \A k \in Present(m) : ValidKey(k) /\ ValidLevel(m[k])}

\* Intersect gives exactly the authority that both maps give: never a key
\* one of them lacks, and never more nor less than the lower level.
IntersectIsMeet ==
    Authority(Intersect({left, right})) = Authority(left) \cap Authority(right)

\* Folding a grant into an accumulated grant (mergePermissions) gives exactly
\* the authority of the two together: the order in which the policies of an
\* issuer are listed cannot lower what an earlier one granted.
MergeIsJoin ==
    Authority(MergePermissions(Normalize(left), right))
        = Authority(left) \cup Authority(right)

\* Satisfies is inclusion of authority: holding one key at a high level
\* never makes up for another key.
SatisfiesIsInclusion ==
    Satisfies(left, right) <=> Authority(left) \subseteq Authority(right)

\* Gaps names exactly the keys on which some requested authority is not held,
\* so that "no gaps", on which Mint relies, means full coverage.
GapsNameTheShortfall ==
    Gaps(left, right) = {kl[1] : kl \in Authority(left) \ Authority(right)}

\* When Gaps finds nothing, the intersection Mint then computes is the
\* request itself: a token request is refused, never silently downgraded.
GapFreeIntersectIsRequest ==
    Gaps(left, right) = {} => Intersect({left, right}) = Normalize(left)
==============================================================================
