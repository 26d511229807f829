------------------------ MODULE PermissionLawsProofs -------------------------
(***************************************************************************)
(* The laws of PermissionLaws, for every set of keys and every catalog.    *)
(* Each law follows from the type of the two maps and one lemma.           *)
(***************************************************************************)
EXTENDS PermissionLaws, PermissionLemmas

\* The two maps are permission maps, and Intersect lets no unknown key or
\* level through.
THEOREM TypeCorrect == Spec => []TypeOK
PROOF
  <1> DEFINE Typed == left \in PermissionMap /\ right \in PermissionMap
  <1>1. Init => Typed
    BY DEF Init, NoPermissions, PermissionMap, Entry
  <1>2. Typed /\ [Next]_vars => Typed'
    BY DEF Next, WriteLeft, WriteRight, vars, PermissionMap
  <1>3. Typed => TypeOK
    <2> SUFFICES ASSUME Typed
                 PROVE  TypeOK
      OBVIOUS
    <2>1. Intersect({left, right}) \in [Key -> Level \cup {Absent}]
          /\ Intersect({left, right}) \in PermissionMap
          /\ \A k \in Present(Intersect({left, right})) : ValidKey(k)
      BY IntersectType
    <2> QED
      BY <2>1 DEF TypeOK, Present, ValidLevel
  <1> QED
    BY <1>1, <1>2, <1>3, PTL DEF Spec

\* Intersect is the meet: exactly the authority both maps give.
THEOREM IntersectIsAlwaysMeet == Spec => []IntersectIsMeet
PROOF
  <1>1. TypeOK => IntersectIsMeet
    BY IntersectAuthority DEF TypeOK, IntersectIsMeet
  <1> QED
    BY <1>1, TypeCorrect, PTL

\* Merging a grant is the join: exactly the authority of the two together.
THEOREM MergeIsAlwaysJoin == Spec => []MergeIsJoin
PROOF
  <1>1. TypeOK => MergeIsJoin
    BY MergeAuthority, NormalizeCanonical DEF TypeOK, MergeIsJoin
  <1> QED
    BY <1>1, TypeCorrect, PTL

\* Satisfies is inclusion of authority.
THEOREM SatisfiesIsAlwaysInclusion == Spec => []SatisfiesIsInclusion
PROOF
  <1>1. TypeOK => SatisfiesIsInclusion
    BY SatisfiesAuthority DEF TypeOK, SatisfiesIsInclusion
  <1> QED
    BY <1>1, TypeCorrect, PTL

\* Gaps names exactly the keys on which authority is missing.
THEOREM GapsAlwaysNameTheShortfall == Spec => []GapsNameTheShortfall
PROOF
  <1>1. TypeOK => GapsNameTheShortfall
    BY GapsAuthority DEF TypeOK, GapsNameTheShortfall
  <1> QED
    BY <1>1, TypeCorrect, PTL

\* Without gaps the intersection is the request: Mint never downgrades.
THEOREM GapFreeIntersectIsAlwaysRequest == Spec => []GapFreeIntersectIsRequest
PROOF
  <1>1. TypeOK => GapFreeIntersectIsRequest
    BY GapFreeIntersect DEF TypeOK, GapFreeIntersectIsRequest
  <1> QED
    BY <1>1, TypeCorrect, PTL
==============================================================================
