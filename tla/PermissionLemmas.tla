-------------------------- MODULE PermissionLemmas ---------------------------
(***************************************************************************)
(* What the operators of Permissions do to authority, for every set of     *)
(* keys, every catalog and any maps.  The proofs about the permission      *)
(* laws, the policy engine and the handlers cite these lemmas.             *)
(***************************************************************************)
EXTENDS Authority, TLAPS

\* Dropping the unknown yields a map of known levels.
LEMMA NormalizeType ==
    ASSUME NEW m \in PermissionMap
    PROVE  /\ Normalize(m) \in [Key -> Level \cup {Absent}]
           /\ Normalize(m) \in PermissionMap
  BY DEF Normalize, PermissionMap, Entry, Keeps, ValidLevel

\* The level that stays is the one with the fewest inclusions.
LEMMA LowestOfTwo ==
    ASSUME NEW a \in Level, NEW b \in Level
    PROVE  /\ Lowest({a, b}) \in {a, b}
           /\ Includes(Lowest({a, b})) = Includes(a) \cap Includes(b)
PROOF
  <1>1. \E l \in {a, b} : \A o \in {a, b} : LevelOrd(l) <= LevelOrd(o)
    BY DEF Level, LevelOrd
  <1>2. /\ Lowest({a, b}) \in {a, b}
        /\ \A o \in {a, b} : LevelOrd(Lowest({a, b})) <= LevelOrd(o)
    BY <1>1 DEF Lowest
  <1>3. Lowest({a, b}) = a \/ Lowest({a, b}) = b
    BY <1>2
  <1> QED
    BY <1>2, <1>3 DEF Level, LevelOrd, Includes

\* A level is at least another exactly when it includes all the other does.
LEMMA OrdIsInclusion ==
    ASSUME NEW a \in Level, NEW b \in Level
    PROVE  LevelOrd(a) <= LevelOrd(b) <=> Includes(a) \subseteq Includes(b)
  BY DEF Level, LevelOrd, Includes

\* What authority a map gives on one key, by what normalization keeps of it.
LEMMA AuthorityOfKey ==
    ASSUME NEW m \in PermissionMap, NEW k \in Key, NEW l \in Level
    PROVE  /\ <<k, l>> \in Authority(m) <=> l \in Includes(Normalize(m)[k])
           /\ <<k, l>> \in Authority(m) => Normalize(m)[k] = m[k] /\ m[k] \in Level
  BY DEF Authority, Normalize, Keeps, ValidKey, ValidLevel, Includes, Level, Absent,
         PermissionMap

\* Every level includes at least "read", and Absent includes nothing.
LEMMA IncludesSomething ==
    ASSUME NEW l \in Level \cup {Absent}
    PROVE  /\ l \in Level <=> "read" \in Includes(l)
           /\ l \notin Level => Includes(l) = {}
  BY DEF Includes, Level, Absent
-----------------------------------------------------------------------------
\* Intersect on one key: both inputs must have it, and the lower level wins.
LEMMA IntersectOfKey ==
    ASSUME NEW a \in PermissionMap, NEW b \in PermissionMap, NEW k \in Key
    PROVE  /\ Intersect({a, b})[k] \in Level \cup {Absent}
           /\ Includes(Intersect({a, b})[k])
                 = Includes(Normalize(a)[k]) \cap Includes(Normalize(b)[k])
PROOF
  <1> DEFINE na == Normalize(a)[k]
             nb == Normalize(b)[k]
  <1>1. na \in Level \cup {Absent} /\ nb \in Level \cup {Absent}
    BY NormalizeType
  <1>2. {Normalize(m)[k] : m \in {a, b}} = {na, nb}
    OBVIOUS
  <1>3. CASE na = Absent \/ nb = Absent
    <2>1. Intersect({a, b})[k] = Absent
      BY <1>3 DEF Intersect
    <2> QED
      BY <2>1, <1>3, IncludesSomething DEF Level, Absent
  <1>4. CASE na # Absent /\ nb # Absent
    <2>1. Intersect({a, b})[k] = Lowest({na, nb})
      BY <1>4, <1>2 DEF Intersect
    <2>2. na \in Level /\ nb \in Level
      BY <1>1, <1>4
    <2>3. Lowest({na, nb}) \in Level
          /\ Includes(Lowest({na, nb})) = Includes(na) \cap Includes(nb)
      BY <2>2, LowestOfTwo
    <2> QED
      BY <2>1, <2>3
  <1> QED
    BY <1>3, <1>4

LEMMA IntersectType ==
    ASSUME NEW a \in PermissionMap, NEW b \in PermissionMap
    PROVE  /\ Intersect({a, b}) \in [Key -> Level \cup {Absent}]
           /\ Intersect({a, b}) \in PermissionMap
           /\ \A k \in Present(Intersect({a, b})) : ValidKey(k)
PROOF
  <1>1. Intersect({a, b}) = [k \in Key |-> Intersect({a, b})[k]]
    BY DEF Intersect
  <1>2. Intersect({a, b}) \in [Key -> Level \cup {Absent}]
    BY <1>1, IntersectOfKey
  <1>3. ASSUME NEW k \in Present(Intersect({a, b}))
        PROVE  ValidKey(k)
    BY <1>3 DEF Present, Intersect, Normalize, Keeps
  <1> QED
    BY <1>2, <1>3 DEF PermissionMap, Entry

LEMMA IntersectAuthority ==
    ASSUME NEW a \in PermissionMap, NEW b \in PermissionMap
    PROVE  Authority(Intersect({a, b})) = Authority(a) \cap Authority(b)
PROOF
  <1> DEFINE c == Intersect({a, b})
  <1>1. c \in PermissionMap
    BY IntersectType
  <1> SUFFICES ASSUME NEW k \in Key, NEW l \in Level
               PROVE  <<k, l>> \in Authority(c)
                         <=> <<k, l>> \in Authority(a) /\ <<k, l>> \in Authority(b)
    BY DEF Authority
  <1>2. Normalize(c)[k] = c[k]
    BY IntersectType DEF Normalize, Keeps, ValidLevel, Present
  <1>3. <<k, l>> \in Authority(c) <=> l \in Includes(c[k])
    BY <1>1, <1>2, AuthorityOfKey
  <1> QED
    BY <1>3, IntersectOfKey, AuthorityOfKey
-----------------------------------------------------------------------------
\* Satisfies on one key, for levels that normalization kept.
LEMMA SufficesIsInclusion ==
    ASSUME NEW r \in Level, NEW g \in Level \cup {Absent}
    PROVE  /\ Suffices(g, r) <=> Includes(r) \subseteq Includes(g)
           /\ (Missing(g) \/ TooLow(g, r)) <=> ~Suffices(g, r)
  BY DEF Suffices, Missing, TooLow, Includes, LevelOrd, Level, Absent

LEMMA SatisfiesAuthority ==
    ASSUME NEW r \in PermissionMap, NEW g \in PermissionMap
    PROVE  Satisfies(r, g) <=> Authority(r) \subseteq Authority(g)
PROOF
  <1> DEFINE nr == Normalize(r)
             ng == Normalize(g)
  <1>1. nr \in [Key -> Level \cup {Absent}] /\ ng \in [Key -> Level \cup {Absent}]
    BY NormalizeType
  <1>2. Satisfies(r, g) <=> \A k \in Key : nr[k] \in Level => Suffices(ng[k], nr[k])
    BY <1>1 DEF Satisfies, Present, Level, Absent
  <1>3. ASSUME NEW k \in Key
        PROVE  (nr[k] \in Level => Suffices(ng[k], nr[k]))
                  <=> Includes(nr[k]) \subseteq Includes(ng[k])
    <2>1. CASE nr[k] \in Level
      BY <2>1, <1>1, SufficesIsInclusion
    <2>2. CASE nr[k] \notin Level
      BY <2>2, <1>1, IncludesSomething
    <2> QED
      BY <2>1, <2>2
  <1>4. Authority(r) \subseteq Authority(g)
           <=> \A k \in Key : Includes(nr[k]) \subseteq Includes(ng[k])
    <2>1. \A k \in Key : Includes(nr[k]) \subseteq Level
      BY DEF Includes
    <2>2. \A k \in Key, l \in Level :
             /\ <<k, l>> \in Authority(r) <=> l \in Includes(nr[k])
             /\ <<k, l>> \in Authority(g) <=> l \in Includes(ng[k])
      BY AuthorityOfKey
    <2>3. Authority(r) \subseteq Key \X Level
      BY DEF Authority
    <2>4. Authority(r) \subseteq Authority(g)
             <=> \A k \in Key, l \in Level :
                    <<k, l>> \in Authority(r) => <<k, l>> \in Authority(g)
      BY <2>3
    <2> QED
      BY <2>1, <2>2, <2>4
  <1> QED
    BY <1>2, <1>3, <1>4

LEMMA GapsAuthority ==
    ASSUME NEW r \in PermissionMap, NEW g \in PermissionMap
    PROVE  Gaps(r, g) = {kl[1] : kl \in Authority(r) \ Authority(g)}
PROOF
  <1> DEFINE nr == Normalize(r)
             ng == Normalize(g)
             short == Authority(r) \ Authority(g)
  <1>1. nr \in [Key -> Level \cup {Absent}] /\ ng \in [Key -> Level \cup {Absent}]
    BY NormalizeType
  <1>2. short \subseteq Key \X Level
    BY DEF Authority
  <1>3. ASSUME NEW k \in Key
        PROVE  k \in Gaps(r, g) <=> \E l \in Level : <<k, l>> \in short
    <2>1. k \in Gaps(r, g) <=> nr[k] \in Level /\ ~Suffices(ng[k], nr[k])
      <3>1. k \in Gaps(r, g)
               <=> nr[k] \in Level /\ (Missing(ng[k]) \/ TooLow(ng[k], nr[k]))
        BY <1>1 DEF Gaps, Present, Level, Absent
      <3> QED
        BY <3>1, <1>1, SufficesIsInclusion
    <2>2. nr[k] \in Level /\ ~Suffices(ng[k], nr[k])
             <=> ~(Includes(nr[k]) \subseteq Includes(ng[k]))
      BY <1>1, SufficesIsInclusion, IncludesSomething
    <2>3. Includes(nr[k]) \subseteq Level
      BY DEF Includes
    <2>4. \A l \in Level : <<k, l>> \in short
             <=> l \in Includes(nr[k]) /\ l \notin Includes(ng[k])
      BY AuthorityOfKey
    <2> QED
      BY <2>1, <2>2, <2>3, <2>4
  <1>4. Gaps(r, g) \subseteq Key
    BY DEF Gaps, Present
  <1>5. ASSUME NEW k \in Gaps(r, g)
        PROVE  k \in {kl[1] : kl \in short}
    <2>1. PICK l \in Level : <<k, l>> \in short
      BY <1>3, <1>4
    <2>2. <<k, l>>[1] = k
      OBVIOUS
    <2> QED
      BY <2>1, <2>2
  <1>6. ASSUME NEW kl \in short
        PROVE  kl[1] \in Gaps(r, g)
    <2>1. PICK k \in Key, l \in Level : kl = <<k, l>>
      BY <1>2
    <2> QED
      BY <2>1, <1>3
  <1> QED
    BY <1>5, <1>6

\* Levels that include the same are the same.
LEMMA IncludesIsInjective ==
    ASSUME NEW a \in Level \cup {Absent}, NEW b \in Level \cup {Absent},
           Includes(a) = Includes(b)
    PROVE  a = b
  BY DEF Includes, Level, Absent

LEMMA GapFreeIntersect ==
    ASSUME NEW r \in PermissionMap, NEW g \in PermissionMap, Gaps(r, g) = {}
    PROVE  Intersect({r, g}) = Normalize(r)
PROOF
  <1>1. ASSUME NEW k \in Key
        PROVE  Intersect({r, g})[k] = Normalize(r)[k]
    <2>1. Normalize(r)[k] \in Level \cup {Absent} /\ Normalize(g)[k] \in Level \cup {Absent}
      BY NormalizeType
    <2>2. Includes(Normalize(r)[k]) \subseteq Includes(Normalize(g)[k])
      <3>1. CASE Normalize(r)[k] = Absent
        BY <3>1, IncludesSomething DEF Level, Absent
      <3>2. CASE Normalize(r)[k] \in Level
        <4>1. k \in Present(Normalize(r))
          BY <3>2 DEF Present, Level, Absent
        <4>2. ~(Missing(Normalize(g)[k]) \/ TooLow(Normalize(g)[k], Normalize(r)[k]))
          BY <4>1 DEF Gaps
        <4> QED
          BY <4>2, <3>2, <2>1, SufficesIsInclusion
      <3> QED
        BY <3>1, <3>2, <2>1
    <2>3. Includes(Intersect({r, g})[k]) = Includes(Normalize(r)[k])
      <3>1. Includes(Intersect({r, g})[k])
               = Includes(Normalize(r)[k]) \cap Includes(Normalize(g)[k])
        BY IntersectOfKey
      <3> QED
        BY <3>1, <2>2
    <2> QED
      BY <2>1, <2>3, IntersectOfKey, IncludesIsInjective
  <1>2. Intersect({r, g}) = [k \in Key |-> Intersect({r, g})[k]]
    BY DEF Intersect
  <1>3. Normalize(r) = [k \in Key |-> Normalize(r)[k]]
    BY DEF Normalize
  <1> QED
    BY <1>1, <1>2, <1>3
-----------------------------------------------------------------------------
\* The maps that normalization leaves alone, as accumulated grants are.
Canonical == {m \in PermissionMap : \A k \in Present(m) : ValidKey(k) /\ m[k] \in Level}

LEMMA CanonicalOfKey ==
    ASSUME NEW m \in Canonical, NEW k \in Key
    PROVE  m[k] \in Level \cup {Absent} /\ Normalize(m)[k] = m[k]
  BY DEF Canonical, Present, Normalize, Keeps, ValidLevel

LEMMA NormalizeCanonical ==
    ASSUME NEW m \in PermissionMap
    PROVE  Normalize(m) \in Canonical /\ Authority(Normalize(m)) = Authority(m)
PROOF
  <1>1. Normalize(m) \in Canonical
    BY NormalizeType DEF Canonical, Present, Normalize, Keeps, ValidLevel
  <1>2. \A k \in Key, l \in Level :
           <<k, l>> \in Authority(Normalize(m)) <=> <<k, l>> \in Authority(m)
    BY <1>1, AuthorityOfKey, CanonicalOfKey DEF Canonical
  <1> QED
    BY <1>1, <1>2 DEF Authority

LEMMA NothingCanonical ==
    NoPermissions \in Canonical /\ Authority(NoPermissions) = {}
  BY DEF NoPermissions, Canonical, Present, PermissionMap, Entry, Authority, Includes, Absent, Level

\* Of two levels the merged one includes what either does.
LEMMA RaisesIsUnion ==
    ASSUME NEW d \in Level \cup {Absent}, NEW s \in Level
    PROVE  Includes(IF Raises(d, s) THEN s ELSE d) = Includes(d) \cup Includes(s)
  BY DEF Raises, Includes, LevelOrd, Level, Absent

LEMMA MergeAuthority ==
    ASSUME NEW d \in Canonical, NEW s \in PermissionMap
    PROVE  /\ MergePermissions(d, s) \in Canonical
           /\ Authority(MergePermissions(d, s)) = Authority(d) \cup Authority(s)
PROOF
  <1> DEFINE m == MergePermissions(d, s)
             ns == Normalize(s)
  <1>1. ns \in [Key -> Level \cup {Absent}]
    BY NormalizeType
  <1>2. ASSUME NEW k \in Key
        PROVE  /\ m[k] \in Level \cup {Absent}
               /\ m[k] # Absent => ValidKey(k)
               /\ Includes(m[k]) = Includes(d[k]) \cup Includes(ns[k])
    <2>1. d[k] \in Level \cup {Absent} /\ (d[k] # Absent => ValidKey(k))
      BY CanonicalOfKey DEF Canonical, Present
    <2>2. CASE ns[k] = Absent
      <3>1. m[k] = d[k]
        BY <2>2 DEF MergePermissions, Present
      <3> QED
        BY <3>1, <2>1, <2>2, IncludesSomething DEF Level, Absent
    <2>3. CASE ns[k] # Absent
      <3>1. ns[k] = s[k] /\ s[k] \in Level /\ ValidKey(k)
        BY <2>3 DEF Normalize, Keeps, ValidLevel
      <3>2. m[k] = IF Raises(d[k], s[k]) THEN s[k] ELSE d[k]
        BY <2>3 DEF MergePermissions, Present
      <3>3. Includes(m[k]) = Includes(d[k]) \cup Includes(s[k])
        BY <3>1, <3>2, <2>1, RaisesIsUnion
      <3> QED
        BY <3>1, <3>2, <3>3, <2>1
    <2> QED
      BY <2>2, <2>3
  <1>3. m \in Canonical
    BY <1>2 DEF Canonical, PermissionMap, Entry, Present, MergePermissions, Absent, Level
  <1>4. ASSUME NEW k \in Key, NEW l \in Level
        PROVE  <<k, l>> \in Authority(m)
                  <=> <<k, l>> \in Authority(d) \/ <<k, l>> \in Authority(s)
    <2>1. <<k, l>> \in Authority(m) <=> l \in Includes(m[k])
      BY <1>3, AuthorityOfKey, CanonicalOfKey DEF Canonical
    <2>2. <<k, l>> \in Authority(d) <=> l \in Includes(d[k])
      BY AuthorityOfKey, CanonicalOfKey DEF Canonical
    <2>3. <<k, l>> \in Authority(s) <=> l \in Includes(ns[k])
      BY AuthorityOfKey
    <2> QED
      BY <2>1, <2>2, <2>3, <1>2
  <1> QED
    BY <1>3, <1>4 DEF Authority
==============================================================================
