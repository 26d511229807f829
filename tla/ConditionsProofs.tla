--------------------------- MODULE ConditionsProofs ----------------------------
(***************************************************************************)
(* The check of a condition is right about every comparison and about      *)
(* every condition of whatever size and depth built from comparisons.      *)
(*                                                                         *)
(* First texts: FlattenSeq joins the parts of a chain, and the owner can   *)
(* be read off what is joined, up to the first slash.  Then comparisons,   *)
(* by their operands.  Then the operators, in an induction over the steps  *)
(* that write a condition.                                                 *)
(***************************************************************************)
EXTENDS Comparisons, SequenceTheorems, WellFoundedInduction, TLAPS

(* Induction over the naturals for a set: no theorem of the library with   *)
(* an operator for a parameter is needed.                                  *)

Less == OpToRel(<, Nat)

LEMMA LessIs == \A m, n \in Nat : <<m, n>> \in Less <=> m < n
  BY DEF Less, OpToRel

LEMMA LessWF == IsWellFoundedOn(Less, Nat)
  BY NatLessThanWellFounded DEF Less, OpToRel

LEMMA SetInduction ==
    ASSUME NEW S, 0 \in S, \A n \in Nat : n \in S => n + 1 \in S
    PROVE  Nat \subseteq S
PROOF
  <1> DEFINE T == Nat \ S
  <1> SUFFICES ASSUME T # {} PROVE FALSE
    OBVIOUS
  <1>1. PICK x \in T : \A y \in T : ~ (<<y, x>> \in Less)
    <2> T \subseteq Nat
      OBVIOUS
    <2> HIDE DEF T
    <2> QED
      BY LessWF, WFMin
  <1>2. x \in Nat /\ x # 0
    OBVIOUS
  <1>3. x - 1 \in Nat /\ x - 1 \notin S
    BY <1>2
  <1>4. <<x - 1, x>> \notin Less
    BY <1>1, <1>3
  <1> QED
    BY <1>2, <1>3, <1>4, LessIs

-----------------------------------------------------------------------------
(* What FlattenSeq returns.                                                *)

\* g joins the first k of the sequences s, one after the other.
Joins(g, s, k) == g = [i \in 1 .. k |-> IF i = 1 THEN s[i] ELSE g[i - 1] \o s[i]]

\* There is such a g, so that the recursion in FlattenSeq defines one.
LEMMA JoinsUpTo ==
    ASSUME NEW s, NEW n \in Nat
    PROVE  \E g : Joins(g, s, n)
PROOF
  <1> DEFINE T == {k \in Nat : \E g : Joins(g, s, k)}
  <1>1. 0 \in T
    <2> DEFINE none == [i \in 1 .. 0 |-> s[i]]
    <2>1. none = [i \in 1 .. 0 |-> IF i = 1 THEN s[i] ELSE none[i - 1] \o s[i]]
      OBVIOUS
    <2>2. Joins(none, s, 0)
      BY <2>1 DEF Joins
    <2> QED
      BY <2>2
  <1>2. ASSUME NEW k \in Nat, k \in T PROVE k + 1 \in T
    <2>1. PICK g : Joins(g, s, k)
      BY <1>2
    <2> DEFINE next == IF k + 1 = 1 THEN s[k + 1] ELSE g[k] \o s[k + 1]
               h == [i \in 1 .. k + 1 |-> IF i = k + 1 THEN next ELSE g[i]]
    <2>2. \A i \in 1 .. k : h[i] = g[i]
      OBVIOUS
    <2>3. \A i \in 1 .. k : g[i] = IF i = 1 THEN s[i] ELSE g[i - 1] \o s[i]
      BY <2>1 DEF Joins
    <2>4. ASSUME NEW i \in 1 .. k + 1
          PROVE  h[i] = IF i = 1 THEN s[i] ELSE h[i - 1] \o s[i]
      <3>1. CASE i = k + 1
        <4>1. h[i] = next
          BY <3>1
        <4>2. i # 1 => h[i - 1] = g[k]
          BY <3>1, <2>2
        <4> QED
          BY <3>1, <4>1, <4>2
      <3>2. CASE i # k + 1
        <4>1. i \in 1 .. k /\ (i # 1 => i - 1 \in 1 .. k)
          BY <3>2
        <4> HIDE DEF h
        <4> QED
          BY <4>1, <2>2, <2>3
      <3> QED
        BY <3>1, <3>2
    <2>5. h = [i \in 1 .. k + 1 |-> IF i = 1 THEN s[i] ELSE h[i - 1] \o s[i]]
      <3>1. h = [i \in 1 .. k + 1 |-> h[i]]
        OBVIOUS
      <3> HIDE DEF h
      <3> QED
        BY <3>1, <2>4
    <2>6. Joins(h, s, k + 1)
      BY <2>5 DEF Joins
    <2>7. \E j : Joins(j, s, k + 1)
      BY <2>6
    <2> QED
      BY <2>7
  <1>3. Nat \subseteq T
    <2> HIDE DEF T
    <2> QED
      BY <1>1, <1>2, SetInduction
  <1> QED
    BY <1>3

\* FlattenSeq is its last value.
LEMMA FlattenJoins ==
    ASSUME NEW s, Len(s) \in Nat \ {0}
    PROVE  \E g : Joins(g, s, Len(s)) /\ FlattenSeq(s) = g[Len(s)]
PROOF
  <1> DEFINE f == CHOOSE g : Joins(g, s, Len(s))
  <1>1. Joins(f, s, Len(s))
    BY JoinsUpTo
  <1>2. FlattenSeq(s) = f[Len(s)]
    BY DEF FlattenSeq, Joins
  <1> HIDE DEF f
  <1> QED
    BY <1>1, <1>2

Extends(g, s) == \A i \in 2 .. Len(s) : g[i] = g[i - 1] \o s[i]

\* Its values, one by one.
LEMMA JoinsAre ==
    ASSUME NEW S, NEW s \in Seq(Seq(S)), NEW g, Joins(g, s, Len(s)), Len(s) > 0
    PROVE  /\ g[1] = s[1]
           /\ Extends(g, s)
           /\ \A i \in 1 .. Len(s) : g[i] \in Seq(S)
PROOF
  <1>1. Len(s) \in Nat /\ \A i \in 1 .. Len(s) : s[i] \in Seq(S)
    BY ElementOfSeq
  <1>2. g[1] = s[1] /\ \A i \in 2 .. Len(s) : g[i] = g[i - 1] \o s[i]
    <2>1. \A i \in 1 .. Len(s) : g[i] = IF i = 1 THEN s[i] ELSE g[i - 1] \o s[i]
      BY DEF Joins
    <2>2. 1 \in 1 .. Len(s) /\ \A i \in 2 .. Len(s) : i \in 1 .. Len(s) /\ i # 1
      BY <1>1
    <2> QED
      BY <2>1, <2>2
  <1> DEFINE T == {k \in Nat : k + 1 =< Len(s) => g[k + 1] \in Seq(S)}
  <1>3. 0 \in T
    BY <1>1, <1>2
  <1>4. ASSUME NEW k \in Nat, k \in T PROVE k + 1 \in T
    <2> SUFFICES ASSUME k + 2 =< Len(s) PROVE g[k + 2] \in Seq(S)
      BY <1>4
    <2>1. g[k + 1] \in Seq(S)
      BY <1>1, <1>4
    <2>2. k + 2 \in 2 .. Len(s) /\ k + 2 \in 1 .. Len(s) /\ (k + 2) - 1 = k + 1
      BY <1>1, <1>4
    <2>3. g[k + 2] = g[k + 1] \o s[k + 2] /\ s[k + 2] \in Seq(S)
      BY <1>1, <1>2, <2>2
    <2> QED
      BY <2>1, <2>3, ConcatProperties
  <1>5. Nat \subseteq T
    <2> HIDE DEF T
    <2> QED
      BY <1>3, <1>4, SetInduction
  <1>6. ASSUME NEW i \in 1 .. Len(s) PROVE g[i] \in Seq(S)
    <2>1. i - 1 \in Nat /\ (i - 1) + 1 = i /\ i =< Len(s)
      BY <1>1
    <2> QED
      BY <1>5, <2>1
  <1>7. Extends(g, s)
    BY <1>2, Zenon DEF Extends
  <1> QED
    BY <1>2, <1>6, <1>7, Zenon

\* The sequence t begins with u.
Begins(t, u, S) == \E rest \in Seq(S) : t = u \o rest

LEMMA BeginsStill ==
    ASSUME NEW S, NEW u \in Seq(S), NEW v \in Seq(S), NEW t, Begins(t, u, S)
    PROVE  Begins(t \o v, u, S)
PROOF
  <1>1. PICK rest \in Seq(S) : t = u \o rest
    BY DEF Begins
  <1>2. t \o v = u \o (rest \o v) /\ rest \o v \in Seq(S)
    BY <1>1, ConcatAssociative, ConcatProperties
  <1> QED
    BY <1>2 DEF Begins

\* A text begins with what its first parts spell.
LEMMA JoinsBegin ==
    ASSUME NEW S, NEW s \in Seq(Seq(S)), NEW g, Joins(g, s, Len(s)), Len(s) > 0,
           NEW k \in 1 .. Len(s)
    PROVE  Begins(g[Len(s)], g[k], S)
PROOF
  <1>0. Len(s) \in Nat /\ k \in Nat /\ k =< Len(s) /\ k >= 1
    <2>1. Len(s) \in Nat
      BY LenProperties
    <2> QED
      BY <2>1
  <1>a. \A i \in 1 .. Len(s) : g[i] \in Seq(S)
    BY JoinsAre, Zenon
  <1>b. \A i \in 2 .. Len(s) : g[i] = g[i - 1] \o s[i]
    <2>1. Extends(g, s)
      BY JoinsAre, Zenon
    <2> QED
      BY <2>1, Zenon DEF Extends
  <1> DEFINE U == {d \in Nat : k + d =< Len(s) => Begins(g[k + d], g[k], S)}
  <1>1. 0 \in U
    <2>1. g[k] \in Seq(S) /\ k + 0 = k
      BY <1>0, <1>a
    <2>2. g[k + 0] = g[k] \o <<>> /\ <<>> \in Seq(S)
      BY <2>1, ConcatEmptySeq, EmptySeq
    <2>3. Begins(g[k + 0], g[k], S)
      BY <2>2 DEF Begins
    <2> QED
      BY <2>3
  <1>2. ASSUME NEW d \in Nat, d \in U PROVE d + 1 \in U
    <2>1. CASE k + (d + 1) =< Len(s)
      <3>1. /\ k + (d + 1) \in 2 .. Len(s) /\ k + (d + 1) \in 1 .. Len(s)
            /\ k + d \in 1 .. Len(s) /\ (k + (d + 1)) - 1 = k + d /\ k + d =< Len(s)
        BY <1>0, <2>1
      <3>2. Begins(g[k + d], g[k], S)
        BY <1>2, <3>1
      <3>4. g[k + (d + 1)] = g[k + d] \o s[k + (d + 1)] /\ s[k + (d + 1)] \in Seq(S)
        BY <3>1, <1>b, ElementOfSeq
      <3>5. g[k] \in Seq(S)
        BY <1>0, <1>a
      <3>8. Begins(g[k + (d + 1)], g[k], S)
        BY <3>2, <3>4, <3>5, BeginsStill
      <3> QED
        BY <3>8
    <2>2. CASE ~ (k + (d + 1) =< Len(s))
      BY <2>2
    <2> QED
      BY <2>1, <2>2
  <1>3. Nat \subseteq U
    <2> HIDE DEF U
    <2> QED
      BY <1>1, <1>2, SetInduction
  <1>4. Len(s) - k \in Nat /\ k + (Len(s) - k) = Len(s)
    BY <1>0
  <1>5. k + (Len(s) - k) =< Len(s) => Begins(g[k + (Len(s) - k)], g[k], S)
    BY <1>3, <1>4
  <1> QED
    BY <1>0, <1>4, <1>5

-----------------------------------------------------------------------------
(* Texts and the owners in them.                                           *)

\* Concatenation of texts.
LEMMA TextsJoined ==
    /\ \A x, y \in Text : x \o y \in Text
    /\ \A x, y, z \in Text : (x \o y) \o z = x \o (y \o z)
    /\ \A x \in Text : x \o <<>> = x
    /\ <<>> \in Text
PROOF
  <1>1. \A x, y \in Seq(Symbol) : x \o y \in Seq(Symbol)
    BY ConcatProperties
  <1>2. \A x, y, z \in Seq(Symbol) : (x \o y) \o z = x \o (y \o z)
    BY ConcatAssociative
  <1>3. \A x \in Seq(Symbol) : x \o <<>> = x
    BY ConcatEmptySeq
  <1>4. <<>> \in Seq(Symbol)
    BY EmptySeq
  <1> QED
    BY <1>1, <1>2, <1>3, <1>4 DEF Text

LEMMA Rejoined ==
    ASSUME NEW x \in Text, NEW y \in Text, NEW z \in Text
    PROVE  x \o (y \o z) = (x \o y) \o z
  BY TextsJoined, Zenon

LEMMA FourJoined ==
    ASSUME NEW a \in Text, NEW s \in Text, NEW v \in Text, NEW x \in Text
    PROVE  (a \o (s \o v)) \o x = (a \o s) \o (v \o x) /\ v \o x \in Text
PROOF
  <1>1. a \o s \in Text /\ v \o x \in Text
    BY TextsJoined, Zenon
  <1>2. a \o (s \o v) = (a \o s) \o v
    BY Rejoined, ZenonT(40)
  <1>3. (a \o s) \o (v \o x) = ((a \o s) \o v) \o x
    <2> DEFINE u == a \o s
    <2>1. u \in Text
      BY <1>1
    <2> HIDE DEF u
    <2>2. u \o (v \o x) = (u \o v) \o x
      BY <2>1, Rejoined, ZenonT(40)
    <2> QED
      BY <2>2, Zenon DEF u
  <1> QED
    BY <1>1, <1>2, <1>3, Zenon

\* What the prefix of a text is.
LEMMA TextStart ==
    ASSUME NEW p \in Symbol, NEW o \in Text, NEW x \in Text
    PROVE  /\ Len((<<p>> \o o) \o x) > 0
           /\ ((<<p>> \o o) \o x)[1] = p
PROOF
  <1>1. <<p>> \in Seq(Symbol) /\ Len(<<p>>) = 1 /\ <<p>>[1] = p
    OBVIOUS
  <1>2. o \in Seq(Symbol) /\ x \in Seq(Symbol)
    BY DEF Text
  <1>3. <<p>> \o o \in Seq(Symbol) /\ Len(<<p>> \o o) \in Nat \ {0} /\ (<<p>> \o o)[1] = p
    BY <1>1, <1>2, ConcatProperties
  <1> QED
    BY <1>2, <1>3, ConcatProperties

\* A value of the form of a resource of an owner: prefix, owner, slash, more.
OfOwner(t, p, owner) == \E x \in Text : t = ((<<p>> \o owner) \o <<"/">>) \o x

LEMMA SymbolTypes ==
    /\ Prefix \subseteq Symbol /\ "/" \in Symbol /\ NameSymbol \subseteq Symbol
    /\ \A p \in Prefix : <<p>> \in Text
    /\ <<"/">> \in Text
    /\ \A o \in Name : o \in Text /\ \A i \in 1 .. Len(o) : o[i] # "/" /\ o[i] \notin Prefix
    /\ "/" \notin Prefix
PROOF
  <1>1. Prefix \subseteq Symbol /\ "/" \in Symbol /\ NameSymbol \subseteq Symbol
    BY DEF Symbol
  <1>2. "/" \notin Prefix
    BY DEF Prefix
  <1>3. ASSUME NEW o \in Name
        PROVE  o \in Text /\ \A i \in 1 .. Len(o) : o[i] # "/" /\ o[i] \notin Prefix
    <2>1. o \in Text
      BY <1>1, SeqMonotonic DEF Name, Text
    <2>2. \A i \in 1 .. Len(o) : o[i] \in NameSymbol
      BY ElementOfSeq DEF Name
    <2> QED
      BY <2>1, <2>2, SymbolAssumption
  <1>4. \A s \in Symbol : <<s>> \in Seq(Symbol)
    OBVIOUS
  <1> QED
    BY <1>1, <1>2, <1>3, <1>4 DEF Text

Slashless(a) == \A i \in 1 .. Len(a) : a[i] # "/"

\* Of two equal texts, what is before the first slash is equal.
LEMMA FirstSlash ==
    ASSUME NEW a \in Text, NEW b \in Text, NEW x \in Text, NEW y \in Text,
           Slashless(a), Slashless(b), (a \o <<"/">>) \o x = (b \o <<"/">>) \o y
    PROVE  a = b
PROOF
  <1> DEFINE l == (a \o <<"/">>) \o x
             r == (b \o <<"/">>) \o y
  <1>0. a \in Seq(Symbol) /\ b \in Seq(Symbol) /\ x \in Seq(Symbol) /\ y \in Seq(Symbol)
    BY DEF Text
  <1>1. Len(a) \in Nat /\ Len(b) \in Nat
    BY <1>0
  <1>2. /\ \A i \in 1 .. Len(a) : l[i] = a[i]
        /\ l[Len(a) + 1] = "/"
    BY <1>0, SymbolTypes
  <1>3. /\ \A i \in 1 .. Len(b) : r[i] = b[i]
        /\ r[Len(b) + 1] = "/"
    BY <1>0, SymbolTypes
  <1>4. l = r
    OBVIOUS
  <1> HIDE DEF l, r
  <1>5. Len(a) = Len(b)
    <2>1. CASE Len(a) < Len(b)
      <3>1. Len(a) + 1 \in 1 .. Len(b)
        BY <1>1, <2>1
      <3> QED
        BY <3>1, <1>2, <1>3, <1>4 DEF Slashless
    <2>2. CASE Len(b) < Len(a)
      <3>1. Len(b) + 1 \in 1 .. Len(a)
        BY <1>1, <2>2
      <3> QED
        BY <3>1, <1>2, <1>3, <1>4 DEF Slashless
    <2> QED
      BY <1>1, <2>1, <2>2
  <1> QED
    BY <1>0, <1>1, <1>2, <1>3, <1>4, <1>5, SeqEqual
\* Which owner that is can be read off the value.
LEMMA OneOwner ==
    ASSUME NEW t, NEW p \in Prefix, NEW o \in Name, NEW q \in Prefix, NEW u \in Name,
           OfOwner(t, p, o), OfOwner(t, q, u)
    PROVE  p = q /\ o = u
PROOF
  <1> DEFINE a == <<p>> \o o
             b == <<q>> \o u
  <1>1. /\ a \in Seq(Symbol) /\ Len(a) = Len(o) + 1 /\ a[1] = p
        /\ \A i \in 1 .. Len(o) : a[i + 1] = o[i]
    <2>1. <<p>> \in Seq(Symbol) /\ o \in Seq(Symbol) /\ Len(<<p>>) = 1 /\ <<p>>[1] = p
      BY SymbolTypes DEF Text
    <2> QED
      BY <2>1, ConcatProperties
  <1>2. /\ b \in Seq(Symbol) /\ Len(b) = Len(u) + 1 /\ b[1] = q
        /\ \A i \in 1 .. Len(u) : b[i + 1] = u[i]
    <2>1. <<q>> \in Seq(Symbol) /\ u \in Seq(Symbol) /\ Len(<<q>>) = 1 /\ <<q>>[1] = q
      BY SymbolTypes DEF Text
    <2> QED
      BY <2>1, ConcatProperties
  <1>3. o \in Seq(Symbol) /\ u \in Seq(Symbol) /\ Len(o) \in Nat /\ Len(u) \in Nat
    BY SymbolTypes DEF Text
  <1>4. PICK x \in Seq(Symbol) : t = (a \o <<"/">>) \o x
    BY DEF OfOwner, Text
  <1>5. PICK y \in Seq(Symbol) : t = (b \o <<"/">>) \o y
    BY DEF OfOwner, Text
  <1> HIDE DEF a, b
  <1>6. \A i \in 1 .. Len(a) : a[i] # "/"
    <2> SUFFICES ASSUME NEW i \in 1 .. Len(a) PROVE a[i] # "/"
      OBVIOUS
    <2>1. CASE i = 1
      BY <2>1, <1>1, SymbolTypes
    <2>2. CASE i # 1
      <3>1. i - 1 \in 1 .. Len(o) /\ (i - 1) + 1 = i
        BY <2>2, <1>1, <1>3
      <3>2. a[(i - 1) + 1] = o[i - 1]
        BY <3>1, <1>1
      <3> QED
        BY <3>1, <3>2, SymbolTypes
    <2> QED
      BY <2>1, <2>2
  <1>7. \A i \in 1 .. Len(b) : b[i] # "/"
    <2> SUFFICES ASSUME NEW i \in 1 .. Len(b) PROVE b[i] # "/"
      OBVIOUS
    <2>1. CASE i = 1
      BY <2>1, <1>2, SymbolTypes
    <2>2. CASE i # 1
      <3>1. i - 1 \in 1 .. Len(u) /\ (i - 1) + 1 = i
        BY <2>2, <1>2, <1>3
      <3>2. b[(i - 1) + 1] = u[i - 1]
        BY <3>1, <1>2
      <3> QED
        BY <3>1, <3>2, SymbolTypes
    <2> QED
      BY <2>1, <2>2
  <1>8. a = b
    <2>1. (a \o <<"/">>) \o x = (b \o <<"/">>) \o y
      BY <1>4, <1>5
    <2> QED
      BY <2>1, <1>1, <1>2, <1>4, <1>5, <1>6, <1>7, FirstSlash DEF Slashless, Text
  <1>9. p = q /\ Len(o) = Len(u)
    BY <1>1, <1>2, <1>3, <1>8
  <1>10. \A i \in 1 .. Len(o) : o[i] = u[i]
    BY <1>1, <1>2, <1>8, <1>9
  <1> QED
    BY <1>3, <1>9, <1>10, SeqEqual

\* Resources as strings.
LEMMA ResourceParts ==
    ASSUME NEW p \in Prefix, NEW o \in Name, NEW n \in Name, NEW t,
           t = <<p>> \o o \o (IF p = "repo:" THEN <<"/">> \o n ELSE <<>>)
    PROVE  /\ t \in Text /\ Len(t) > 0 /\ t[1] = p
           /\ p = "repo:" => OfOwner(t, "repo:", o)
           /\ p # "repo:" => t = <<p>> \o o
PROOF
  <1> DEFINE rest == IF p = "repo:" THEN <<"/">> \o n ELSE <<>>
  <1>1. /\ <<p>> \in Text /\ o \in Text /\ n \in Text /\ <<"/">> \in Text /\ p \in Symbol
    BY SymbolTypes
  <1>2. <<"/">> \o n \in Text /\ <<>> \in Text
    BY <1>1, TextsJoined
  <1>3. rest \in Text
    BY <1>2
  <1>4. t = (<<p>> \o o) \o rest
    OBVIOUS
  <1>5. <<p>> \o o \in Text
    BY <1>1, TextsJoined
  <1>6. t \in Text /\ Len(t) > 0 /\ t[1] = p
    <2> HIDE DEF rest
    <2>1. (<<p>> \o o) \o rest \in Text
      BY <1>3, <1>5, TextsJoined
    <2>2. Len((<<p>> \o o) \o rest) > 0 /\ ((<<p>> \o o) \o rest)[1] = p
      BY <1>1, <1>3, TextStart
    <2> QED
      BY <1>4, <2>1, <2>2
  <1>7. ASSUME p = "repo:" PROVE OfOwner(t, "repo:", o)
    <2>1. rest = <<"/">> \o n
      BY <1>7
    <2>2. t = ((<<p>> \o o) \o <<"/">>) \o n
      <3> DEFINE a == <<p>> \o o
                 s == <<"/">>
      <3>1. a \in Text /\ s \in Text /\ n \in Text
        BY <1>1, <1>5
      <3> HIDE DEF rest, a, s
      <3>2. a \o (s \o n) = (a \o s) \o n
        BY <3>1, Rejoined, Zenon
      <3>3. t = a \o (s \o n)
        BY <1>4, <2>1 DEF a, s
      <3> QED
        BY <3>2, <3>3, Zenon DEF a, s
    <2>3. t = ((<<"repo:">> \o o) \o <<"/">>) \o n
      BY <1>7, <2>2
    <2> HIDE DEF rest
    <2> QED
      BY <1>1, <2>3, Zenon DEF OfOwner
  <1>8. ASSUME p # "repo:" PROVE t = <<p>> \o o
    <2>1. rest = <<>>
      BY <1>8
    <2> HIDE DEF rest
    <2> QED
      BY <1>4, <1>5, <2>1, TextsJoined
  <1> QED
    BY <1>6, <1>7, <1>8

LEMMA ResourceTypes ==
    ASSUME NEW r \in Resource
    PROVE  /\ r.prefix \in Prefix /\ r.owner \in Name /\ r.name \in Name
           /\ ResourceString(r) \in Text
           /\ Len(ResourceString(r)) > 0 /\ ResourceString(r)[1] = r.prefix
           /\ r.prefix = "repo:" => OfOwner(ResourceString(r), "repo:", r.owner)
           /\ r.prefix # "repo:" => ResourceString(r) = <<r.prefix>> \o r.owner
PROOF
  <1>1. r.prefix \in Prefix /\ r.owner \in Name /\ r.name \in Name
    BY TextsAssumption
  <1>2. ResourceString(r) =
          <<r.prefix>> \o r.owner \o (IF r.prefix = "repo:" THEN <<"/">> \o r.name ELSE <<>>)
    BY DEF ResourceString
  <1> HIDE DEF ResourceString
  <1> QED
    BY <1>1, <1>2, ResourceParts

-----------------------------------------------------------------------------
(* Chains.                                                                 *)

\* The texts of the parts of an operand, for one caller.
TextsOf(ch, caller) == [n \in DOMAIN ch |-> PieceText(ch[n], caller)]

\* The caller's token has every claim of the chain.
NoneMissing(ch, caller) ==
    \A n \in DOMAIN ch : ch[n].claim # "" => caller.claims[ch[n].claim] # NoClaim

LEMMA CallerTypes ==
    ASSUME NEW c \in Caller
    PROVE  /\ c.owner \in Name /\ c.name \in Name
           /\ c.claims \in [ClaimName -> Text]
           /\ c.claims["repository"] # NoClaim => c.claims["repository"] = c.owner \o <<"/">> \o c.name
           /\ c.claims["repository_owner"] # NoClaim => c.claims["repository_owner"] = c.owner
  BY TextsAssumption, CallerAssumption

LEMMA PieceTypes ==
    ASSUME NEW ch \in Chain, NEW n \in DOMAIN ch
    PROVE  /\ n \in 1 .. Len(ch)
           /\ ch[n].claim \in ClaimName \cup {""}
           /\ ch[n].text \in Text
PROOF
  <1>1. ch \in Seq(Piece)
    BY TextsAssumption
  <1>2. n \in 1 .. Len(ch) /\ ch[n] \in Piece
    BY <1>1, LenProperties, ElementOfSeq
  <1> QED
    BY <1>2 DEF Piece

LEMMA TextsTypes ==
    ASSUME NEW ch \in Chain, NEW caller \in Caller
    PROVE  /\ Len(ch) \in Nat /\ DOMAIN ch = 1 .. Len(ch)
           /\ TextsOf(ch, caller) \in Seq(Text)
           /\ Len(TextsOf(ch, caller)) = Len(ch)
           /\ \A n \in 1 .. Len(ch) : TextsOf(ch, caller)[n] = PieceText(ch[n], caller)
PROOF
  <1>1. Len(ch) \in Nat /\ DOMAIN ch = 1 .. Len(ch)
    <2>1. ch \in Seq(Piece)
      BY TextsAssumption
    <2> QED
      BY <2>1, LenProperties
  <1>2. \A n \in 1 .. Len(ch) : PieceText(ch[n], caller) \in Text
    BY <1>1, PieceTypes, CallerTypes DEF PieceText
  <1>3. TextsOf(ch, caller) = [n \in 1 .. Len(ch) |-> PieceText(ch[n], caller)]
    BY <1>1 DEF TextsOf
  <1>4. TextsOf(ch, caller) \in Seq(Text) /\ Len(TextsOf(ch, caller)) = Len(ch)
    BY <1>1, <1>2, <1>3
  <1> QED
    BY <1>1, <1>3, <1>4

\* The text of an operand begins with its first part, or its first two or three.
LEMMA ChainTextBegins ==
    ASSUME NEW ch \in Chain, NEW caller \in Caller, Len(ch) > 0
    PROVE  LET t == TextsOf(ch, caller)
               text == ChainText(ch, caller)
           IN  /\ Len(ch) = 1 => text = t[1]
               /\ Len(ch) = 2 => text = t[1] \o t[2]
               /\ Len(ch) >= 2 => Begins(text, t[1] \o t[2], Symbol)
               /\ Len(ch) >= 3 => Begins(text, (t[1] \o t[2]) \o t[3], Symbol)
PROOF
  <1> DEFINE t == TextsOf(ch, caller)
             text == ChainText(ch, caller)
  <1>1. /\ t \in Seq(Seq(Symbol)) /\ Len(t) = Len(ch) /\ Len(ch) \in Nat
        /\ text = FlattenSeq(t)
    BY TextsTypes DEF TextsOf, ChainText, Text
  <1> HIDE DEF t, text
  <1>2. PICK g : Joins(g, t, Len(t)) /\ text = g[Len(t)]
    BY <1>1, FlattenJoins
  <1>3. g[1] = t[1] /\ \A i \in 2 .. Len(t) : g[i] = g[i - 1] \o t[i]
    <2>1. Len(t) > 0
      BY <1>1, Zenon
    <2>2. g[1] = t[1] /\ Extends(g, t)
      BY <1>1, <1>2, <2>1, JoinsAre, Zenon
    <2> QED
      BY <2>2, Zenon DEF Extends
  <1>4. ASSUME Len(ch) >= 2 PROVE g[2] = t[1] \o t[2] /\ Begins(text, g[2], Symbol)
    <2>1. 2 \in 2 .. Len(t) /\ 2 \in 1 .. Len(t)
      <3>1. Len(t) \in Nat /\ Len(t) >= 2
        BY <1>1, <1>4, Zenon
      <3> QED
        BY <3>1
    <2>2. g[2] = t[1] \o t[2]
      <3>1. g[2] = g[2 - 1] \o t[2]
        BY <1>3, <2>1, Zenon
      <3>2. 2 - 1 = 1
        OBVIOUS
      <3> QED
        BY <1>3, <3>1, <3>2, Zenon
    <2>3. Begins(g[Len(t)], g[2], Symbol)
      BY <1>1, <1>2, <2>1, JoinsBegin
    <2> QED
      BY <1>2, <2>2, <2>3
  <1>5. ASSUME Len(ch) >= 3 PROVE g[3] = (t[1] \o t[2]) \o t[3] /\ Begins(text, g[3], Symbol)
    <2>1. 3 \in 2 .. Len(t) /\ 3 \in 1 .. Len(t) /\ Len(ch) >= 2
      <3>1. Len(t) \in Nat /\ Len(t) >= 3 /\ Len(ch) = Len(t)
        BY <1>1, <1>5, Zenon
      <3> QED
        BY <3>1
    <2>2. g[3] = g[2] \o t[3]
      <3>1. g[3] = g[3 - 1] \o t[3]
        BY <1>3, <2>1, Zenon
      <3>2. 3 - 1 = 2
        OBVIOUS
      <3> QED
        BY <3>1, <3>2, Zenon
    <2>3. Begins(g[Len(t)], g[3], Symbol)
      BY <1>1, <1>2, <2>1, JoinsBegin
    <2> QED
      BY <1>2, <1>4, <2>1, <2>2, <2>3
  <1>6. Len(ch) = 1 => text = t[1]
    BY <1>1, <1>2, <1>3
  <1>7. Len(ch) = 2 => text = t[1] \o t[2]
    BY <1>1, <1>2, <1>4
  <1> QED
    BY <1>4, <1>5, <1>6, <1>7 DEF t, text

LEMMA Prepended ==
    ASSUME NEW s \in Symbol, NEW x \in Text
    PROVE  /\ <<s>> \o x \in Text /\ Len(x) \in Nat /\ Len(<<s>> \o x) = Len(x) + 1
           /\ (<<s>> \o x)[1] = s
           /\ \A i \in 1 .. Len(x) : (<<s>> \o x)[i + 1] = x[i]
PROOF
  <1>1. <<s>> \in Seq(Symbol) /\ Len(<<s>>) = 1 /\ <<s>>[1] = s
    OBVIOUS
  <1>2. x \in Seq(Symbol)
    BY DEF Text
  <1> DEFINE h == <<s>>
  <1>3. h \in Seq(Symbol) /\ Len(h) = 1 /\ h[1] = s
    BY <1>1
  <1> HIDE DEF h
  <1>4. /\ h \o x \in Seq(Symbol) /\ Len(x) \in Nat /\ Len(h \o x) = Len(x) + 1
        /\ (h \o x)[1] = s
    <2>1. /\ h \o x \in Seq(Symbol) /\ Len(x) \in Nat
          /\ Len(h \o x) = Len(h) + Len(x)
      BY <1>2, <1>3, ConcatProperties, LenProperties, Zenon
    <2>2. \A j \in 1 .. Len(h) + Len(x) :
             (h \o x)[j] = IF j =< Len(h) THEN h[j] ELSE x[j - Len(h)]
      BY <1>2, <1>3, ConcatProperties
    <2>3. 1 \in 1 .. Len(h) + Len(x) /\ 1 =< Len(h)
      BY <1>3, <2>1
    <2> QED
      BY <1>3, <2>1, <2>2, <2>3, SMTT(20)
  <1>5. \A i \in 1 .. Len(x) : (h \o x)[i + 1] = x[i]
    <2> SUFFICES ASSUME NEW i \in 1 .. Len(x) PROVE (h \o x)[i + 1] = x[i]
      OBVIOUS
    <2>1. \A j \in 1 .. Len(h) + Len(x) : (h \o x)[j] = IF j =< Len(h) THEN h[j] ELSE x[j - Len(h)]
      BY <1>2, <1>3, ConcatProperties
    <2>2. i + 1 \in 1 .. Len(h) + Len(x) /\ ~ (i + 1 =< Len(h)) /\ (i + 1) - Len(h) = i
      BY <1>3, <1>4
    <2> QED
      BY <2>1, <2>2
  <1>6. h \o x \in Text
    BY <1>4 DEF Text
  <1> QED
    BY <1>4, <1>5, <1>6, Zenon DEF h

\* A string of an owner's that is a resource is a repository of this owner.
LEMMA OwnerIsRead ==
    ASSUME NEW t, NEW o \in Name, NEW r \in Resource,
           OfOwner(t, "repo:", o), t = ResourceString(r)
    PROVE  r.prefix = "repo:" /\ r.owner = o
PROOF
  <1>1. PICK x \in Text : t = ((<<"repo:">> \o o) \o <<"/">>) \o x
    BY DEF OfOwner
  <1>2. "repo:" \in Prefix /\ "repo:" \in Symbol
    BY DEF Prefix, Symbol
  <1>3. t = (<<"repo:">> \o o) \o (<<"/">> \o x) /\ <<"/">> \o x \in Text
    <2> DEFINE a == <<"repo:">> \o o
               s == <<"/">>
    <2>1. a \in Text /\ s \in Text /\ t = (a \o s) \o x
      BY <1>1, <1>2, SymbolTypes, TextsJoined
    <2>2. t = a \o (s \o x) /\ s \o x \in Text
      <3> HIDE DEF a, s
      <3> QED
        BY <2>1, TextsJoined
    <2> QED
      BY <2>2
  <1>4. t[1] = "repo:"
    <2>1. \A z \in Text : ((<<"repo:">> \o o) \o z)[1] = "repo:"
      BY <1>2, SymbolTypes, TextStart
    <2> QED
      BY <1>3, <2>1
  <1>5. r.prefix = "repo:" /\ r.owner \in Name /\ OfOwner(ResourceString(r), "repo:", r.owner)
    BY <1>4, ResourceTypes
  <1> QED
    BY <1>2, <1>5, OneOwner

\* It is of this owner if its beginning is.
LEMMA Begun ==
    ASSUME NEW t, NEW u \in Text, NEW o \in Name, NEW v \in Text,
           u = (<<"repo:">> \o o) \o (<<"/">> \o v), Begins(t, u, Symbol)
    PROVE  OfOwner(t, "repo:", o)
PROOF
  <1>1. PICK x \in Text : t = u \o x
    BY DEF Begins, Text
  <1>2. o \in Text /\ <<"repo:">> \in Text /\ <<"/">> \in Text
    BY SymbolTypes DEF Prefix
  <1> DEFINE a == <<"repo:">> \o o
             s == <<"/">>
  <1>3. a \in Text /\ s \in Text
    BY <1>2, TextsJoined
  <1>4. t = (a \o (s \o v)) \o x
    BY <1>1
  <1>5. t = (a \o s) \o (v \o x) /\ v \o x \in Text
    <2>1. \A b, c \in Text :
             (b \o (c \o v)) \o x = (b \o c) \o (v \o x) /\ v \o x \in Text
      BY FourJoined, Zenon
    <2> QED
      BY <1>3, <1>4, <2>1, Zenon
  <1> QED
    BY <1>5 DEF OfOwner

LEMMA SlashFirst ==
    ASSUME NEW t \in Text, t # <<>>, t[1] = "/"
    PROVE  \E v \in Text : t = <<"/">> \o v
PROOF
  <1>1. t \in Seq(Symbol) /\ t # <<>>
    BY DEF Text
  <1>2. /\ Tail(t) \in Seq(Symbol) /\ Len(Tail(t)) = Len(t) - 1 /\ Len(t) \in Nat \ {0}
        /\ \A i \in 1 .. Len(Tail(t)) : Tail(t)[i] = t[i + 1]
    BY <1>1, HeadTailProperties, EmptySeq
  <1> DEFINE v == Tail(t)
  <1> HIDE DEF v
  <1>3. v \in Seq(Symbol) /\ Len(v) = Len(t) - 1 /\ \A i \in 1 .. Len(v) : v[i] = t[i + 1]
    BY <1>2 DEF v
  <1>4. /\ <<"/">> \o v \in Text /\ Len(v) \in Nat /\ Len(<<"/">> \o v) = Len(v) + 1
        /\ (<<"/">> \o v)[1] = "/"
        /\ \A i \in 1 .. Len(v) : (<<"/">> \o v)[i + 1] = v[i]
    <2>1. "/" \in Symbol /\ v \in Text
      BY <1>3, SymbolTypes DEF Text
    <2> QED
      BY <2>1, Prepended
  <1>5. <<"/">> \o v \in Seq(Symbol) /\ Len(<<"/">> \o v) = Len(t)
    <2>1. Len(v) + 1 = Len(t)
      BY <1>2, <1>3
    <2> QED
      BY <2>1, <1>4 DEF Text
  <1>6. \A i \in 1 .. Len(t) : (<<"/">> \o v)[i] = t[i]
    <2> SUFFICES ASSUME NEW i \in 1 .. Len(t) PROVE (<<"/">> \o v)[i] = t[i]
      OBVIOUS
    <2>1. CASE i = 1
      BY <2>1, <1>4
    <2>2. CASE i # 1
      <3>1. i - 1 \in 1 .. Len(v) /\ (i - 1) + 1 = i
        BY <2>2, <1>2, <1>3
      <3>2. v[i - 1] = t[(i - 1) + 1]
        BY <3>1, <1>3
      <3>3. (<<"/">> \o v)[(i - 1) + 1] = v[i - 1]
        BY <3>1, <1>4
      <3> QED
        BY <3>1, <3>2, <3>3
    <2> QED
      BY <2>1, <2>2
  <1>7. <<"/">> \o v = t
    BY <1>1, <1>5, <1>6, SeqEqual
  <1> QED
    BY <1>3, <1>7 DEF Text

LEMMA OrgIsRead ==
    ASSUME NEW o \in Name, NEW r \in Resource, ResourceString(r) = <<"org:">> \o o
    PROVE  r.prefix = "org:" /\ r.owner = o
PROOF
  <1>1. "org:" \in Symbol /\ o \in Text
    BY SymbolTypes DEF Prefix
  <1>2. r.owner \in Text /\ r.owner \in Name
    BY ResourceTypes, SymbolTypes
  <1>3. ResourceString(r)[1] = "org:"
    <2>1. <<"org:">> \in Seq(Symbol) /\ Len(<<"org:">>) = 1 /\ <<"org:">>[1] = "org:"
      BY <1>1
    <2>2. o \in Seq(Symbol)
      BY <1>1 DEF Text
    <2> QED
      BY <2>1, <2>2, ConcatProperties
  <1>4. r.prefix = "org:" /\ ResourceString(r) = <<"org:">> \o r.owner
    BY <1>3, ResourceTypes
  <1>5. \A x, y \in Text : <<"org:">> \o x = <<"org:">> \o y => x = y
    <2>1. <<"org:">> \in Seq(Symbol)
      BY <1>1
    <2> QED
      BY <2>1, ConcatSimplifications DEF Text
  <1> QED
    BY <1>1, <1>2, <1>4, <1>5

\* callerAnchored: a chain it accepts spells only resources of the caller's owner.
LEMMA AnchoredAtHome ==
    ASSUME NEW ch \in Chain, NEW caller \in Caller, NEW r \in Resource,
           CallerAnchored(ch), NoneMissing(ch, caller),
           ChainText(ch, caller) = ResourceString(r)
    PROVE  OwnersAgree(caller, r)
PROOF
  <1> DEFINE t == TextsOf(ch, caller)
             text == ChainText(ch, caller)
  <1>0. Len(ch) \in Nat
    BY TextsTypes
  <1>1. \A n \in 1 .. Len(ch) : n \in DOMAIN ch /\ t[n] = PieceText(ch[n], caller)
    BY TextsTypes
  <1>2. /\ caller.owner \in Name /\ caller.name \in Name
        /\ caller.owner \in Text /\ caller.name \in Text
    BY CallerTypes, SymbolTypes
  <1>3. ASSUME NEW n \in Nat \ {0}, LiteralAt(ch, n) # <<>>
        PROVE  n =< Len(ch) /\ t[n] = LiteralAt(ch, n) /\ t[n] \in Text
    <2>0. n =< Len(ch)
      BY <1>3 DEF LiteralAt
    <2>1. ch[n].claim = "" /\ LiteralAt(ch, n) = ch[n].text
      BY <1>3 DEF LiteralAt
    <2>2. n \in 1 .. Len(ch)
      BY <1>0, <2>0
    <2> HIDE DEF t
    <2>3. t[n] = ch[n].text /\ ch[n].text \in Text
      BY <1>1, <2>1, <2>2, PieceTypes DEF PieceText
    <2> QED
      BY <2>0, <2>1, <2>3
  <1>4. ASSUME NEW name \in {"repository", "repository_owner"}, ClaimAt(ch, 2) = name
        PROVE  Len(ch) >= 2 /\ t[2] = caller.claims[name] /\ caller.claims[name] # NoClaim
    <2>0. Len(ch) >= 2
      BY <1>0, <1>4 DEF ClaimAt
    <2>1. ch[2].claim = name /\ name # ""
      BY <1>0, <1>4 DEF ClaimAt
    <2>2. 2 \in 1 .. Len(ch)
      BY <1>0, <2>0
    <2> HIDE DEF t
    <2>3. t[2] = caller.claims[name] /\ caller.claims[name] # NoClaim
      BY <1>1, <2>1, <2>2 DEF PieceText, NoneMissing
    <2> QED
      BY <2>0, <2>3
  <1>5. /\ Len(ch) = 2 => text = t[1] \o t[2]
        /\ Len(ch) >= 2 => Begins(text, t[1] \o t[2], Symbol)
        /\ Len(ch) >= 3 => Begins(text, (t[1] \o t[2]) \o t[3], Symbol)
    <2>1. CASE Len(ch) > 0
      BY <2>1, ChainTextBegins, Zenon
    <2>2. CASE ~ (Len(ch) > 0)
      <3>1. ~ (Len(ch) = 2) /\ ~ (Len(ch) >= 2) /\ ~ (Len(ch) >= 3)
        BY <1>0, <2>2
      <3> QED
        BY <3>1, Zenon
    <2> QED
      BY <2>1, <2>2
  <1> HIDE DEF t, text
  <1>8. text = ResourceString(r)
    BY DEF text
  <1> DEFINE head == <<"repo:">>
             slash == <<"/">>
  <1>9. head \in Text /\ slash \in Text /\ head # <<>> /\ <<"org:">> # <<>>
    BY SymbolTypes DEF Prefix
  <1>a. CASE LiteralAt(ch, 1) = head /\ ClaimAt(ch, 2) = "repository"
    <2> DEFINE o == caller.owner
               m == caller.name
    <2> HIDE DEF head
    <2>1. t[1] = head
      BY <1>a, <1>3, <1>9
    <2>2. t[2] = (o \o slash) \o m /\ Len(ch) >= 2
      <3>1. t[2] = caller.claims["repository"] /\ caller.claims["repository"] # NoClaim /\ Len(ch) >= 2
        BY <1>a, <1>4
      <3>2. t[2] = caller.owner \o <<"/">> \o caller.name
        BY <3>1, CallerTypes
      <3> QED
        BY <3>1, <3>2
    <2>3. o \in Text /\ m \in Text /\ o \in Name
      BY <1>2
    <2> HIDE DEF o, m, slash
    <2>4. slash \o m \in Text
      BY <1>9, <2>3, TextsJoined
    <2>5. t[1] \o t[2] = (head \o o) \o (slash \o m) /\ t[1] \o t[2] \in Text
      <3> DEFINE u == slash \o m
      <3>0. o \o u = (o \o slash) \o m
        BY <2>3, <1>9, Rejoined, Zenon
      <3>1. u \in Text /\ t[2] = o \o u
        BY <2>2, <2>4, <3>0, Zenon
      <3> HIDE DEF u
      <3>2. head \o (o \o u) = (head \o o) \o u /\ o \o u \in Text
        BY <3>1, <2>3, <1>9, TextsJoined
      <3>3. head \o (o \o u) \in Text
        BY <3>2, <1>9, TextsJoined
      <3> QED
        BY <2>1, <3>1, <3>2, <3>3 DEF u
    <2>6. OfOwner(text, "repo:", o)
      BY <2>2, <2>3, <2>5, <1>5, Begun DEF head, slash
    <2>7. r.prefix = "repo:" /\ r.owner = o
      BY <2>3, <2>6, <1>8, OwnerIsRead
    <2> QED
      BY <2>7 DEF o, OwnersAgree
  <1>b. CASE /\ LiteralAt(ch, 1) = head /\ ClaimAt(ch, 2) = "repository_owner"
             /\ LiteralAt(ch, 3) # <<>> /\ LiteralAt(ch, 3)[1] = "/"
    <2> DEFINE o == caller.owner
    <2> HIDE DEF head
    <2>1. t[1] = head
      BY <1>b, <1>3, <1>9
    <2>2. t[2] = o
      <3>1. t[2] = caller.claims["repository_owner"] /\ caller.claims["repository_owner"] # NoClaim
        BY <1>b, <1>4
      <3> QED
        BY <3>1, CallerTypes
    <2>3. Len(ch) >= 3 /\ t[3] \in Text /\ t[3] # <<>> /\ t[3][1] = "/"
      <3>1. 3 =< Len(ch) /\ t[3] = LiteralAt(ch, 3) /\ t[3] \in Text
        BY <1>b, <1>3
      <3> QED
        BY <3>1, <1>0, <1>b
    <2>4. PICK v \in Text : t[3] = slash \o v
      BY <2>3, SlashFirst
    <2>5. o \in Text /\ o \in Name
      BY <1>2
    <2> HIDE DEF o, slash
    <2>6. (t[1] \o t[2]) \o t[3] = (head \o o) \o (slash \o v)
      BY <2>1, <2>2, <2>4
    <2>7. (t[1] \o t[2]) \o t[3] \in Text
      BY <2>1, <2>2, <2>3, <2>5, <1>9, TextsJoined
    <2>8. OfOwner(text, "repo:", o)
      BY <2>3, <2>4, <2>5, <2>6, <2>7, <1>5, Begun DEF head, slash
    <2>9. r.prefix = "repo:" /\ r.owner = o
      BY <2>5, <2>8, <1>8, OwnerIsRead
    <2> QED
      BY <2>9 DEF o, OwnersAgree
  <1>c. CASE LiteralAt(ch, 1) = <<"org:">> /\ ClaimAt(ch, 2) = "repository_owner" /\ Len(ch) = 2
    <2>1. t[1] = <<"org:">>
      BY <1>c, <1>3, <1>9
    <2>2. t[2] = caller.owner
      <3>1. t[2] = caller.claims["repository_owner"] /\ caller.claims["repository_owner"] # NoClaim
        BY <1>c, <1>4
      <3> QED
        BY <3>1, CallerTypes
    <2>3. ResourceString(r) = <<"org:">> \o caller.owner
      BY <2>1, <2>2, <1>c, <1>5, <1>8
    <2>4. r.prefix = "org:" /\ r.owner = caller.owner
      BY <2>3, <1>2, OrgIsRead
    <2> QED
      BY <2>4 DEF OwnersAgree
  <1> QED
    BY <1>a, <1>b, <1>c DEF CallerAnchored

-----------------------------------------------------------------------------
(* Operands and comparisons.                                               *)

LEMMA OperandParts ==
    ASSUME NEW o \in Operand
    PROVE  /\ o.kind \in {"resource", "resources", "chain", "list"}
           /\ o.kind = "chain" =>
                 DOMAIN o.chains = {1} /\ o.chains[1] \in Chain /\ o.chains = <<o.chains[1]>>
           /\ o.kind = "list" => o.chains \in Seq(Chain)
           /\ \A n \in DOMAIN o.chains : o.chains[n] \in Chain /\ o.chains[n] \in Chains
           /\ ReadsRequest(o) <=> o.kind \notin {"chain", "list"}
           /\ IsList(o) <=> o.kind \notin {"chain", "resource"}
PROOF
  <1>1. CASE o \in {RequestResource, RequestResources}
    <2>1. o.chains = <<>> /\ o.kind \in {"resource", "resources"}
      BY <1>1 DEF RequestResource, RequestResources
    <2>2. DOMAIN o.chains = {}
      BY <2>1
    <2> QED
      BY <2>1, <2>2 DEF ReadsRequest, IsList
  <1>2. CASE o \in ChainOperand
    <2>1. PICK ch \in Chain : o.chains = <<ch>> /\ o.kind = "chain"
      BY <1>2 DEF ChainOperand
    <2>2. DOMAIN o.chains = {1} /\ o.chains[1] = ch
      BY <2>1
    <2>3. ch \in ToSet(o.chains)
      BY <2>2 DEF ToSet
    <2>4. ch \in Chains
      BY <2>3 DEF Chains
    <2> QED
      BY <2>1, <2>2, <2>4 DEF ReadsRequest, IsList
  <1>3. CASE o \in ListOperand
    <2>1. o.chains \in ListOf /\ o.kind = "list"
      BY <1>3 DEF ListOperand
    <2>2. o.chains \in Seq(Chain)
      BY <2>1, TextsAssumption
    <2>3. \A n \in DOMAIN o.chains : o.chains[n] \in Chain
      BY <2>2, LenProperties
    <2>4. \A n \in DOMAIN o.chains : o.chains[n] \in Chains
      BY DEF Chains, ToSet
    <2> QED
      BY <2>1, <2>2, <2>3, <2>4 DEF ReadsRequest, IsList
  <1> QED
    BY <1>1, <1>2, <1>3 DEF Operand

LEMMA PieceOf ==
    ASSUME NEW o, NEW ch \in ToSet(o.chains), NEW n \in DOMAIN ch
    PROVE  ch[n] \in PiecesOf(o)
PROOF
  <1> DEFINE pieces == {ch[m] : m \in DOMAIN ch}
  <1>1. ch[n] \in pieces
    OBVIOUS
  <1>2. pieces \in {{c[m] : m \in DOMAIN c} : c \in ToSet(o.chains)}
    OBVIOUS
  <1> QED
    BY <1>1, <1>2 DEF PiecesOf

LEMMA One ==
    /\ \A t : \A n \in DOMAIN <<t>> : <<t>>[n] = t
    /\ \A t : Len(t) = 1 => 1 \in 1 .. Len(t) /\ Len(t) > 0
PROOF
  <1>1. ASSUME NEW t, NEW n \in DOMAIN <<t>> PROVE <<t>>[n] = t
    <2>1. n = 1
      OBVIOUS
    <2> QED
      BY <2>1
  <1>2. ASSUME NEW t, Len(t) = 1 PROVE 1 \in 1 .. Len(t) /\ Len(t) > 0
    BY <1>2
  <1> QED
    BY <1>1, <1>2

LEMMA ComparisonParts ==
    ASSUME NEW cmp \in Comparison
    PROVE  /\ cmp.op \in {"==", "in"}
           /\ cmp.left \in Operand /\ cmp.right \in Operand
           /\ cmp.op = "==" => IsList(cmp.left) = IsList(cmp.right)
           /\ cmp.op = "in" => ~IsList(cmp.left) /\ IsList(cmp.right)
  BY DEF Comparison

LEMMA TrueComparison ==
    ASSUME NEW cmp \in Comparison, NEW env \in CallerAndResource,
           ComparisonValue(cmp)[env] = "true"
    PROVE  ~Fails(cmp.left, env) /\ ~Fails(cmp.right, env) /\ Holds(cmp, env)
  BY DEF ComparisonValue

\* Compared with what does not read the request, the resource is spelled by a chain.
LEMMA ResourceIsSpelled ==
    ASSUME NEW cmp \in Comparison, NEW env \in CallerAndResource,
           NEW ref, NEW other, <<ref, other>> \in Sides(cmp),
           ReadsRequest(ref), ~ReadsRequest(other), Holds(cmp, env)
    PROVE  \E n \in DOMAIN other.chains :
               ChainText(other.chains[n], env[1]) = ResourceString(env[2])
PROOF
  <1> DEFINE s == ResourceString(env[2])
  <1>1. Texts(ref, env) = <<s>>
    BY DEF Texts
  <1>2. Texts(other, env) = [n \in DOMAIN other.chains |-> ChainText(other.chains[n], env[1])]
    BY DEF Texts
  <1>3. \/ ref = cmp.left /\ other = cmp.right
        \/ ref = cmp.right /\ other = cmp.left
    BY DEF Sides
  <1>4. other \in Operand
    BY <1>3, ComparisonParts
  <1> HIDE DEF s
  <1>5. CASE cmp.op = "=="
    <2>1. Texts(other, env) = <<s>>
      BY <1>1, <1>3, <1>5 DEF Holds
    <2>2. DOMAIN other.chains = DOMAIN <<s>> /\ <<s>>[1] = s /\ 1 \in DOMAIN <<s>>
      BY <1>2, <2>1
    <2>3. 1 \in DOMAIN other.chains /\ ChainText(other.chains[1], env[1]) = s
      BY <1>2, <2>1, <2>2
    <2> QED
      BY <2>3 DEF s
  <1>6. CASE cmp.op = "in" /\ ref = cmp.left /\ other = cmp.right
    <2>1. <<s>>[1] \in ToSet(Texts(other, env))
      BY <1>1, <1>6 DEF Holds
    <2>2. PICK n \in DOMAIN Texts(other, env) : s = Texts(other, env)[n]
      BY <2>1 DEF ToSet
    <2> QED
      BY <1>2, <2>2 DEF s
  <1>7. CASE cmp.op = "in" /\ ref = cmp.right /\ other = cmp.left
    <2>1. other.kind = "chain"
      BY <1>4, <1>7, ComparisonParts, OperandParts
    <2>2. 1 \in DOMAIN other.chains
      BY <1>4, <2>1, OperandParts
    <2>3. Texts(other, env)[1] \in ToSet(<<s>>)
      BY <1>1, <1>7 DEF Holds
    <2>4. Texts(other, env)[1] = s
      BY <2>3 DEF ToSet
    <2> QED
      BY <1>2, <2>2, <2>4 DEF s
  <1> QED
    BY <1>3, <1>5, <1>6, <1>7, ComparisonParts

\* bindsResource: the resource is named.
LEMMA BoundIsNamed ==
    ASSUME NEW cmp \in Comparison, NEW env \in CallerAndResource,
           ResourceIsBound(cmp), ComparisonValue(cmp)[env] = "true"
    PROVE  env \in NamedIn(Chains)
PROOF
  <1>1. PICK ref, other : /\ <<ref, other>> \in Sides(cmp)
                          /\ ReadsRequest(ref) /\ ~ReadsRequest(other)
    BY DEF ResourceIsBound, BoundsResource, IsResourceRef, Sides
  <1>2. PICK n \in DOMAIN other.chains :
            ChainText(other.chains[n], env[1]) = ResourceString(env[2])
    BY <1>1, TrueComparison, ResourceIsSpelled
  <1>3. other \in Operand
    BY <1>1, ComparisonParts DEF Sides
  <1>4. other.chains[n] \in Chains
    BY <1>3, OperandParts
  <1> QED
    BY <1>2, <1>4 DEF NamedIn

LEMMA LiteralChain ==
    ASSUME NEW ch \in Chain, ch \in Chains, IsStringLiteral(ch)
    PROVE  ch \in LiteralChains
PROOF
  <1>1. ch \in Seq(Piece)
    BY TextsAssumption
  <1>2. DOMAIN ch = 1 .. 1
    BY <1>1, LenProperties DEF IsStringLiteral
  <1>3. ch[1].claim = ""
    BY DEF IsStringLiteral
  <1>4. \A n \in 1 .. 1 : n = 1
    OBVIOUS
  <1>5. \A n \in DOMAIN ch : ch[n].claim = ""
    BY <1>2, <1>3, <1>4, Zenon
  <1> QED
    BY <1>5 DEF LiteralChains

\* bindsResource without a preset: the resource is listed.
LEMMA AllowedIsListed ==
    ASSUME NEW cmp \in Comparison, NEW env \in CallerAndResource,
           ResourceIsBound(cmp), ComparedToLiteral(cmp), ComparisonValue(cmp)[env] = "true"
    PROVE  env \in NamedIn(LiteralChains)
PROOF
  <1>1. PICK ref, other : /\ <<ref, other>> \in Sides(cmp)
                          /\ ReadsRequest(ref) /\ ~ReadsRequest(other)
    BY DEF ResourceIsBound, BoundsResource, IsResourceRef, Sides
  <1>2. PICK n \in DOMAIN other.chains :
            ChainText(other.chains[n], env[1]) = ResourceString(env[2])
    BY <1>1, TrueComparison, ResourceIsSpelled
  <1>3. /\ ref \in Operand /\ other \in Operand
        /\ {cmp.left, cmp.right} = {ref, other}
        /\ cmp.right.kind = "list" => other = cmp.right
    BY <1>1, ComparisonParts DEF Sides, ReadsRequest
  <1>4. IsStringLiteral(other.chains[n])
    <2>1. CASE cmp.op = "=="
      <3>1. PICK l, r \in {cmp.left, cmp.right} :
                r.kind = "chain" /\ IsStringLiteral(r.chains[1])
        BY <2>1 DEF ComparedToLiteral
      <3>2. r = other
        BY <1>1, <1>3, <3>1 DEF ReadsRequest
      <3>3. n = 1
        BY <1>3, <3>1, <3>2, OperandParts
      <3> QED
        BY <3>1, <3>2, <3>3
    <2>2. CASE cmp.op = "in"
      <3>1. cmp.right.kind = "list" /\ \A ch \in ToSet(cmp.right.chains) : IsStringLiteral(ch)
        BY <2>2 DEF ComparedToLiteral
      <3> QED
        BY <1>3, <3>1 DEF ToSet
    <2> QED
      BY <2>1, <2>2, ComparisonParts
  <1>5. other.chains[n] \in Chain /\ other.chains[n] \in Chains
    BY <1>3, OperandParts
  <1>6. other.chains[n] \in LiteralChains
    BY <1>4, <1>5, LiteralChain
  <1> QED
    BY <1>2, <1>6 DEF NamedIn

\* A single claim is its own text.
LEMMA ClaimText ==
    ASSUME NEW o \in Operand, NEW caller \in Caller, CallerClaim(o) # ""
    PROVE  /\ o.kind = "chain" /\ DOMAIN o.chains = {1}
           /\ ChainText(o.chains[1], caller) = caller.claims[CallerClaim(o)]
           /\ CallerClaim(o) \in ClaimsIn(o)
PROOF
  <1> DEFINE ch == o.chains[1]
             name == CallerClaim(o)
  <1>0. Len(ch) = 1
    BY DEF CallerClaim
  <1>1. o.kind = "chain" /\ ch[1].claim = name /\ name # ""
    BY DEF CallerClaim
  <1>2. DOMAIN o.chains = {1} /\ ch \in Chain
    BY <1>1, OperandParts
  <1> HIDE DEF ch, name
  <1>3. 1 \in 1 .. Len(ch) /\ Len(ch) > 0
    BY <1>0, One, Zenon
  <1>4. 1 \in DOMAIN ch /\ TextsOf(ch, caller)[1] = caller.claims[name]
    BY <1>1, <1>2, <1>3, TextsTypes DEF PieceText
  <1>5. ChainText(ch, caller) = TextsOf(ch, caller)[1]
    BY <1>0, <1>2, <1>3, ChainTextBegins, Zenon
  <1>6. name \in ClaimsIn(o)
    <2>1. ch \in ToSet(o.chains)
      BY <1>2 DEF ToSet, ch
    <2>2. ch[1] \in PiecesOf(o)
      BY <1>4, <2>1, PieceOf
    <2> QED
      BY <1>1, <2>2 DEF ClaimsIn
  <1> QED
    BY <1>1, <1>2, <1>4, <1>5, <1>6 DEF ch, name

LEMMA NoneMissingIn ==
    ASSUME NEW o \in Operand, NEW env \in CallerAndResource, ~Fails(o, env),
           NEW n \in DOMAIN o.chains
    PROVE  NoneMissing(o.chains[n], env[1])
PROOF
  <1> SUFFICES ASSUME NEW k \in DOMAIN o.chains[n], o.chains[n][k].claim # ""
               PROVE  env[1].claims[o.chains[n][k].claim] # NoClaim
    BY DEF NoneMissing
  <1>1. o.chains[n] \in ToSet(o.chains)
    BY DEF ToSet
  <1>2. o.chains[n][k] \in PiecesOf(o)
    BY <1>1, PieceOf
  <1>3. o.chains[n][k].claim \in ClaimsIn(o)
    BY <1>2 DEF ClaimsIn
  <1> QED
    BY <1>3 DEF Fails

\* An identity claim compared with what reads no claim: the caller is known.
LEMMA ClaimBindsKnown ==
    ASSUME NEW cmp \in Comparison, NEW env \in CallerAndResource,
           NEW ref, NEW other, <<ref, other>> \in Sides(cmp),
           CallerClaim(ref) # "", CallerClaim(ref) \in IdentityClaim, ~ReadsCaller(other),
           Holds(cmp, env)
    PROVE  Known(env[1])
PROOF
  <1> DEFINE text == env[1].claims[CallerClaim(ref)]
  <1>0. env[1] \in Caller /\ env[2] \in Resource
    BY DEF CallerAndResource
  <1>1. /\ ref \in Operand /\ other \in Operand
        /\ \/ ref = cmp.left /\ other = cmp.right
           \/ ref = cmp.right /\ other = cmp.left
    BY ComparisonParts DEF Sides
  <1>2. /\ ref.kind = "chain" /\ DOMAIN ref.chains = {1}
        /\ ChainText(ref.chains[1], env[1]) = text
    BY <1>0, <1>1, ClaimText
  <1>3. Texts(ref, env) = [n \in {1} |-> text]
    BY <1>2 DEF Texts, ReadsRequest
  <1> HIDE DEF text
  <1>4. \E n \in DOMAIN Texts(other, env) : Texts(other, env)[n] = text
    <2>1. CASE cmp.op = "=="
      <3>1. Texts(other, env) = Texts(ref, env)
        BY <1>1, <2>1 DEF Holds
      <3>2. 1 \in DOMAIN Texts(other, env) /\ Texts(other, env)[1] = text
        BY <1>3, <3>1
      <3> QED
        BY <3>2
    <2>2. CASE cmp.op = "in"
      <3>1. ref = cmp.left /\ other = cmp.right
        BY <1>1, <1>2, <2>2, ComparisonParts, OperandParts
      <3>2. Texts(ref, env)[1] \in ToSet(Texts(other, env))
        BY <2>2, <3>1 DEF Holds
      <3>3. Texts(ref, env)[1] = text
        BY <1>3
      <3> QED
        BY <3>2, <3>3 DEF ToSet
    <2> QED
      BY <2>1, <2>2, ComparisonParts
  <1>5. PICK n \in DOMAIN Texts(other, env) : Texts(other, env)[n] = text
    BY <1>4
  <1>6. ~ReadsRequest(other)
    <2> SUFFICES ASSUME ReadsRequest(other) PROVE FALSE
      OBVIOUS
    <2>1. Texts(other, env) = <<ResourceString(env[2])>>
      BY DEF Texts
    <2>2. text = ResourceString(env[2])
      <3> DEFINE s == ResourceString(env[2])
      <3> HIDE DEF s
      <3> QED
        BY <1>5, <2>1, One, Zenon DEF s
    <2> QED
      BY <1>0, <2>2, IdentityAssumption DEF text
  <1>7. n \in DOMAIN other.chains /\ ChainText(other.chains[n], env[1]) = text
    BY <1>5, <1>6 DEF Texts
  <1>8. other.chains[n] \in LiteralChains
    <2>1. other.chains[n] \in Chains /\ other.chains[n] \in ToSet(other.chains)
      BY <1>1, <1>7, OperandParts DEF ToSet
    <2>2. \A k \in DOMAIN other.chains[n] : other.chains[n][k] \in PiecesOf(other)
      BY <2>1, PieceOf
    <2>3. \A k \in DOMAIN other.chains[n] : other.chains[n][k].claim = ""
      BY <2>2 DEF ReadsCaller, ClaimsIn
    <2> QED
      BY <2>1, <2>3 DEF LiteralChains
  <1> QED
    BY <1>7, <1>8 DEF Known, text

\* bindsCaller: the caller is known or asks for what is its owner's.
LEMMA BoundIsRelated ==
    ASSUME NEW cmp \in Comparison, NEW env \in CallerAndResource,
           CallerIsBoundBy(cmp, IdentityClaim), ComparisonValue(cmp)[env] = "true"
    PROVE  env \in KnownOrAtHome
PROOF
  <1>0. env[1] \in Caller /\ env[2] \in Resource
    BY DEF CallerAndResource
  <1>1. PICK ref, other : /\ <<ref, other>> \in Sides(cmp)
                          /\ BoundsCaller(ref, other, IdentityClaim)
    BY DEF CallerIsBoundBy, Sides
  <1>2. other \in Operand /\ ~Fails(other, env) /\ Holds(cmp, env)
    BY <1>1, TrueComparison, ComparisonParts DEF Sides
  <1>3. CASE CallerClaim(ref) # ""
    <2>1. CallerClaim(ref) \in IdentityClaim /\ ~ReadsCaller(other)
      BY <1>1, <1>3 DEF BoundsCaller
    <2>2. Known(env[1])
      BY <1>1, <1>2, <1>3, <2>1, ClaimBindsKnown
    <2> QED
      BY <2>2 DEF KnownOrAtHome
  <1>4. CASE CallerClaim(ref) = ""
    <2>1. /\ ReadsRequest(ref) /\ ~ReadsRequest(other)
          /\ \A ch \in ToSet(other.chains) : CallerAnchored(ch)
      BY <1>1, <1>4 DEF BoundsCaller, IsResourceRef
    <2>2. PICK n \in DOMAIN other.chains :
              ChainText(other.chains[n], env[1]) = ResourceString(env[2])
      BY <1>1, <1>2, <2>1, ResourceIsSpelled
    <2>3. /\ CallerAnchored(other.chains[n]) /\ other.chains[n] \in Chain
          /\ NoneMissing(other.chains[n], env[1])
      BY <1>2, <2>1, OperandParts, NoneMissingIn DEF ToSet
    <2>4. OwnersAgree(env[1], env[2])
      BY <1>0, <2>2, <2>3, AnchoredAtHome
    <2> QED
      BY <2>4 DEF KnownOrAtHome
  <1> QED
    BY <1>3, <1>4

\* Whatever operands a comparison has, what checkCondition finds in it is so: if it
\* constrains the resource it is true only for a resource it names, if moreover it
\* is allowed without a preset only for one in a literal, and if it constrains the
\* caller it is true only for known callers and for their own owners' resources.
THEOREM ComparisonsSayTruly == LeavesSayTruly
PROOF
  <1> SUFFICES ASSUME NEW iss \in IssuerKind, NEW e \in Leaves[iss]
               PROVE  SaysTruly(iss, e)
    BY DEF LeavesSayTruly
  <1>1. e \in {Compare(iss, cmp) : cmp \in Comparison} \cup Opaque
    BY ComparisonsAssumption DEF ComparisonLeaves
  <1>2. CASE e \in Opaque
    BY <1>2 DEF Opaque, SaysTruly
  <1>3. CASE e \in {Compare(iss, cmp) : cmp \in Comparison}
    <2>1. PICK cmp \in Comparison : e = Compare(iss, cmp)
      BY <1>3
    <2>2. /\ e.bindsResource = ResourceIsBound(cmp)
          /\ e.bindsCaller = CallerIsBoundBy(cmp, Identity(iss))
          /\ e.value = ComparisonValue(cmp)
          /\ e.allowed => \/ iss.preset
                          \/ ~ReadsRequest(cmp.left) /\ ~ReadsRequest(cmp.right)
                          \/ ComparedToLiteral(cmp)
      BY <2>1 DEF Compare
    <2>3. ResourceIsBound(cmp) => ReadsRequest(cmp.left) \/ ReadsRequest(cmp.right)
      BY DEF ResourceIsBound, Sides, BoundsResource, IsResourceRef
    <2>4. ASSUME e.bindsResource PROVE TrueOnlyIn(e, Named)
      BY <2>2, <2>4, BoundIsNamed, ComparisonsAssumption DEF TrueOnlyIn
    <2>5. ASSUME ~iss.preset, e.allowed, e.bindsResource PROVE TrueOnlyIn(e, Listed)
      BY <2>2, <2>3, <2>5, AllowedIsListed, ComparisonsAssumption DEF TrueOnlyIn
    <2>6. ASSUME iss.preset, e.bindsCaller PROVE TrueOnlyIn(e, Related)
      BY <2>2, <2>6, BoundIsRelated, ComparisonsAssumption DEF TrueOnlyIn, Identity
    <2> QED
      BY <2>4, <2>5, <2>6 DEF SaysTruly
  <1> QED
    BY <1>1, <1>2, <1>3
-----------------------------------------------------------------------------
(* Conditions made of them.                                                *)

LEMMA LeafTypes ==
    ASSUME NEW iss \in IssuerKind, NEW e \in Leaves[iss]
    PROVE  e \in Expression
  BY LeavesAssumption

\* The operators of CEL return truth values and are true only if an operand is.
LEMMA AndOfTruth ==
    ASSUME NEW a \in Truth, NEW b \in Truth
    PROVE  /\ AndValue(a, b) \in Truth
           /\ AndValue(a, b) = "true" => a = "true" /\ b = "true"
  BY DEF AndValue, Truth

LEMMA OrOfTruth ==
    ASSUME NEW a \in Truth, NEW b \in Truth
    PROVE  /\ OrValue(a, b) \in Truth
           /\ OrValue(a, b) = "true" => a = "true" \/ b = "true"
  BY DEF OrValue, Truth

LEMMA OtherTruth ==
    ASSUME NEW a \in Truth, NEW b \in Truth
    PROVE  /\ NotValue(a) \in Truth
           /\ SameValue(a, b) \in Truth
           /\ \A c \in Truth : ChoiceValue(c, a, b) \in Truth
  BY DEF NotValue, SameValue, ChoiceValue, Truth

LEMMA ExpressionFields ==
    ASSUME NEW e \in Expression
    PROVE  /\ e.allowed \in BOOLEAN
           /\ e.bindsResource \in BOOLEAN
           /\ e.bindsCaller \in BOOLEAN
           /\ e.value \in [Environment -> Truth]
  BY DEF Expression
-----------------------------------------------------------------------------
(* Each operator makes expressions of expressions.                         *)

LEMMA AndType ==
    ASSUME NEW l \in Expression, NEW r \in Expression
    PROVE  And(l, r) \in Expression
PROOF
  <1>1. [e \in Environment |-> AndValue(l.value[e], r.value[e])] \in [Environment -> Truth]
    BY ExpressionFields, AndOfTruth
  <1> QED
    BY <1>1, ExpressionFields DEF And, Expression

LEMMA OrType ==
    ASSUME NEW l \in Expression, NEW r \in Expression
    PROVE  Or(l, r) \in Expression
PROOF
  <1>1. [e \in Environment |-> OrValue(l.value[e], r.value[e])] \in [Environment -> Truth]
    BY ExpressionFields, OrOfTruth
  <1> QED
    BY <1>1, ExpressionFields DEF Or, Expression

LEMMA UnboundType ==
    ASSUME NEW allowed \in BOOLEAN, NEW value \in [Environment -> Truth]
    PROVE  /\ Unbound(allowed, value) \in Expression
           /\ \A iss : SaysTruly(iss, Unbound(allowed, value))
  BY DEF Unbound, Expression, SaysTruly

LEMMA NotKeeps ==
    ASSUME NEW a \in Expression
    PROVE  /\ Not(a) \in Expression
           /\ \A iss : SaysTruly(iss, Not(a))
PROOF
  <1>1. [e \in Environment |-> NotValue(a.value[e])] \in [Environment -> Truth]
    BY ExpressionFields, OtherTruth
  <1> QED
    BY <1>1, ExpressionFields, UnboundType DEF Not

LEMMA SameKeeps ==
    ASSUME NEW l \in Expression, NEW r \in Expression
    PROVE  /\ Same(l, r) \in Expression
           /\ \A iss : SaysTruly(iss, Same(l, r))
PROOF
  <1>1. [e \in Environment |-> SameValue(l.value[e], r.value[e])] \in [Environment -> Truth]
    BY ExpressionFields, OtherTruth
  <1>2. (l.allowed /\ r.allowed) \in BOOLEAN
    OBVIOUS
  <1> QED
    BY <1>1, <1>2, UnboundType DEF Same

LEMMA ChoiceKeeps ==
    ASSUME NEW c \in Expression, NEW a \in Expression, NEW b \in Expression
    PROVE  /\ Choice(c, a, b) \in Expression
           /\ \A iss : SaysTruly(iss, Choice(c, a, b))
PROOF
  <1>1. [e \in Environment |-> ChoiceValue(c.value[e], a.value[e], b.value[e])]
           \in [Environment -> Truth]
    BY ExpressionFields, OtherTruth
  <1>2. (c.allowed /\ a.allowed /\ b.allowed) \in BOOLEAN
    OBVIOUS
  <1> QED
    BY <1>1, <1>2, UnboundType DEF Choice
-----------------------------------------------------------------------------
(* What && and || keep to: one operand of && suffices, || needs both.      *)

LEMMA AndWithin ==
    ASSUME NEW l \in Expression, NEW r \in Expression, NEW environments,
           TrueOnlyIn(l, environments) \/ TrueOnlyIn(r, environments)
    PROVE  TrueOnlyIn(And(l, r), environments)
PROOF
  <1> SUFFICES ASSUME NEW env \in Environment, And(l, r).value[env] = "true"
               PROVE  env \in environments
    BY DEF TrueOnlyIn
  <1>1. l.value[env] \in Truth /\ r.value[env] \in Truth
    BY ExpressionFields
  <1>2. AndValue(l.value[env], r.value[env]) = "true"
    BY DEF And
  <1> QED
    BY <1>1, <1>2, AndOfTruth DEF TrueOnlyIn

LEMMA OrWithin ==
    ASSUME NEW l \in Expression, NEW r \in Expression, NEW environments,
           TrueOnlyIn(l, environments), TrueOnlyIn(r, environments)
    PROVE  TrueOnlyIn(Or(l, r), environments)
PROOF
  <1> SUFFICES ASSUME NEW env \in Environment, Or(l, r).value[env] = "true"
               PROVE  env \in environments
    BY DEF TrueOnlyIn
  <1>1. l.value[env] \in Truth /\ r.value[env] \in Truth
    BY ExpressionFields
  <1>2. OrValue(l.value[env], r.value[env]) = "true"
    BY DEF Or
  <1> QED
    BY <1>1, <1>2, OrOfTruth DEF TrueOnlyIn

LEMMA AndKeeps ==
    ASSUME NEW l \in Expression, NEW r \in Expression, NEW iss,
           SaysTruly(iss, l), SaysTruly(iss, r)
    PROVE  SaysTruly(iss, And(l, r))
PROOF
  <1>1. /\ And(l, r).allowed = (l.allowed /\ r.allowed)
        /\ And(l, r).bindsResource = (l.bindsResource \/ r.bindsResource)
        /\ And(l, r).bindsCaller = (l.bindsCaller \/ r.bindsCaller)
    BY DEF And
  <1>2. And(l, r).bindsResource => TrueOnlyIn(And(l, r), Named)
    BY <1>1, AndWithin DEF SaysTruly
  <1>3. ASSUME ~iss.preset, And(l, r).allowed, And(l, r).bindsResource
        PROVE  TrueOnlyIn(And(l, r), Listed)
    BY <1>1, <1>3, AndWithin DEF SaysTruly
  <1>4. ASSUME iss.preset, And(l, r).bindsCaller
        PROVE  TrueOnlyIn(And(l, r), Related)
    BY <1>1, <1>4, AndWithin DEF SaysTruly
  <1> QED
    BY <1>2, <1>3, <1>4 DEF SaysTruly

LEMMA OrKeeps ==
    ASSUME NEW l \in Expression, NEW r \in Expression, NEW iss,
           SaysTruly(iss, l), SaysTruly(iss, r)
    PROVE  SaysTruly(iss, Or(l, r))
PROOF
  <1>1. /\ Or(l, r).allowed = (l.allowed /\ r.allowed)
        /\ Or(l, r).bindsResource = (l.bindsResource /\ r.bindsResource)
        /\ Or(l, r).bindsCaller = (l.bindsCaller /\ r.bindsCaller)
    BY DEF Or
  <1>2. Or(l, r).bindsResource => TrueOnlyIn(Or(l, r), Named)
    BY <1>1, OrWithin DEF SaysTruly
  <1>3. ASSUME ~iss.preset, Or(l, r).allowed, Or(l, r).bindsResource
        PROVE  TrueOnlyIn(Or(l, r), Listed)
    BY <1>1, <1>3, OrWithin DEF SaysTruly
  <1>4. ASSUME iss.preset, Or(l, r).bindsCaller
        PROVE  TrueOnlyIn(Or(l, r), Related)
    BY <1>1, <1>4, OrWithin DEF SaysTruly
  <1> QED
    BY <1>2, <1>3, <1>4 DEF SaysTruly
-----------------------------------------------------------------------------
(* Both parts of the invariant, for what a step puts on the stack.         *)

Good(e) == e \in Expression /\ SaysTruly(issuer, e)

IInv == TypeOK /\ ConstrainsIsRight

LEMMA StackIsGood ==
    ASSUME IInv, NEW n \in 1 .. Len(stack)
    PROVE  Good(stack[n])
  BY DEF IInv, TypeOK, ConstrainsIsRight, Conditions, Good

LEMMA PutKeeps ==
    ASSUME IInv, issuer' = issuer, size' \in 0 .. MaxLeaves,
           NEW n \in 0 .. Len(stack), NEW e, Good(e), Put(n, e),
           Len(stack) - n + 1 =< size'
    PROVE  IInv'
PROOF
  <1> DEFINE rest == SubSeq(stack, 1, Len(stack) - n)
  <1>1. stack \in Seq(Expression) /\ Len(stack) \in Nat /\ n \in Nat
    BY DEF IInv, TypeOK
  <1>2. /\ rest \in Seq(Expression)
        /\ Len(rest) = Len(stack) - n
        /\ \A m \in 1 .. Len(rest) : rest[m] = stack[m]
    BY <1>1
  <1>3. stack' = Append(rest, e)
    BY DEF Put
  <1>4. /\ stack' \in Seq(Expression)
        /\ Len(stack') = Len(stack) - n + 1
        /\ \A m \in 1 .. Len(rest) : stack'[m] = stack[m]
        /\ stack'[Len(rest) + 1] = e
    <2> HIDE DEF rest
    <2> QED
      BY <1>1, <1>2, <1>3, AppendProperties DEF Good
  <1>5. TypeOK'
    BY <1>4 DEF IInv, TypeOK
  <1>6. ASSUME NEW m \in 1 .. Len(stack')
        PROVE  SaysTruly(issuer, stack'[m])
    <2>1. CASE m \in 1 .. Len(rest)
      <3>1. m \in 1 .. Len(stack)
        BY <2>1, <1>1, <1>2
      <3> QED
        BY <2>1, <3>1, <1>4, StackIsGood DEF Good
    <2>2. CASE m = Len(rest) + 1
      BY <2>2, <1>4 DEF Good
    <2>3. m \in 1 .. Len(rest) \/ m = Len(rest) + 1
      <3>1. Len(rest) \in Nat /\ m \in 1 .. Len(rest) + 1
        BY <1>1, <1>2, <1>4
      <3> HIDE DEF rest
      <3> QED
        BY <3>1
    <2> QED
      BY <2>1, <2>2, <2>3
  <1>7. DOMAIN stack' = 1 .. Len(stack')
    BY <1>4
  <1>8. ConstrainsIsRight'
    BY <1>6, <1>7 DEF ConstrainsIsRight, Conditions, SaysTruly, TrueOnlyIn
  <1> QED
    BY <1>5, <1>8 DEF IInv

\* The operands of an operator.
LEMMA OperandsAreGood ==
    ASSUME IInv, NEW n \in 1 .. 3, Len(stack) >= n
    PROVE  Good(FromTop(n))
PROOF
  <1>1. Len(stack) + 1 - n \in 1 .. Len(stack)
    BY DEF IInv, TypeOK
  <1> QED
    BY <1>1, StackIsGood DEF FromTop
-----------------------------------------------------------------------------
LEMMA InvariantStarts == Init => IInv
  BY LeavesAssumption DEF Init, IInv, TypeOK, ConstrainsIsRight, Conditions

LEMMA StepKeeps == LeavesSayTruly /\ IInv /\ [Next]_vars => IInv'
PROOF
  <1> SUFFICES ASSUME LeavesSayTruly, IInv, [Next]_vars PROVE IInv'
    OBVIOUS
  <1>0. /\ issuer \in IssuerKind
        /\ stack \in Seq(Expression) /\ Len(stack) \in Nat
        /\ size \in 0 .. MaxLeaves /\ MaxLeaves \in Nat /\ Len(stack) =< size
    BY LeavesAssumption DEF IInv, TypeOK
  <1>1. CASE Leaf
    <2>1. PICK e \in Leaves[issuer] : Put(0, e)
      BY <1>1 DEF Leaf
    <2>2. Good(e)
      BY <1>0, LeafTypes DEF LeavesSayTruly, Good
    <2>3. size' = size + 1 /\ issuer' = issuer /\ size < MaxLeaves
      BY <1>1 DEF Leaf
    <2>4. size' \in 0 .. MaxLeaves /\ 0 \in 0 .. Len(stack) /\ Len(stack) - 0 + 1 =< size'
      BY <1>0, <2>3
    <2> QED
      BY <2>1, <2>2, <2>3, <2>4, PutKeeps
  <1>2. CASE Conjoin
    <2>1. /\ Len(stack) >= 2 /\ Put(2, And(FromTop(2), FromTop(1)))
          /\ issuer' = issuer /\ size' = size
      BY <1>2 DEF Conjoin
    <2>2. Good(FromTop(1)) /\ Good(FromTop(2))
      BY <1>0, <2>1, OperandsAreGood
    <2>3. Good(And(FromTop(2), FromTop(1)))
      BY <2>2, AndType, AndKeeps DEF Good
    <2>4. 2 \in 0 .. Len(stack) /\ Len(stack) - 2 + 1 =< size' /\ size' \in 0 .. MaxLeaves
      BY <1>0, <2>1
    <2> QED
      BY <2>1, <2>3, <2>4, PutKeeps
  <1>3. CASE Disjoin
    <2>1. /\ Len(stack) >= 2 /\ Put(2, Or(FromTop(2), FromTop(1)))
          /\ issuer' = issuer /\ size' = size
      BY <1>3 DEF Disjoin
    <2>2. Good(FromTop(1)) /\ Good(FromTop(2))
      BY <1>0, <2>1, OperandsAreGood
    <2>3. Good(Or(FromTop(2), FromTop(1)))
      BY <2>2, OrType, OrKeeps DEF Good
    <2>4. 2 \in 0 .. Len(stack) /\ Len(stack) - 2 + 1 =< size' /\ size' \in 0 .. MaxLeaves
      BY <1>0, <2>1
    <2> QED
      BY <2>1, <2>3, <2>4, PutKeeps
  <1>4. CASE Equate
    <2>1. /\ Len(stack) >= 2 /\ Put(2, Same(FromTop(2), FromTop(1)))
          /\ issuer' = issuer /\ size' = size
      BY <1>4 DEF Equate
    <2>2. Good(FromTop(1)) /\ Good(FromTop(2))
      BY <1>0, <2>1, OperandsAreGood
    <2>3. Good(Same(FromTop(2), FromTop(1)))
      BY <2>2, SameKeeps DEF Good
    <2>4. 2 \in 0 .. Len(stack) /\ Len(stack) - 2 + 1 =< size' /\ size' \in 0 .. MaxLeaves
      BY <1>0, <2>1
    <2> QED
      BY <2>1, <2>3, <2>4, PutKeeps
  <1>5. CASE Negate
    <2>1. /\ Len(stack) >= 1 /\ Put(1, Not(FromTop(1)))
          /\ issuer' = issuer /\ size' = size
      BY <1>5 DEF Negate
    <2>2. Good(FromTop(1))
      BY <1>0, <2>1, OperandsAreGood
    <2>3. Good(Not(FromTop(1)))
      BY <2>2, NotKeeps DEF Good
    <2>4. 1 \in 0 .. Len(stack) /\ Len(stack) - 1 + 1 =< size' /\ size' \in 0 .. MaxLeaves
      BY <1>0, <2>1
    <2> QED
      BY <2>1, <2>3, <2>4, PutKeeps
  <1>6. CASE Choose
    <2>1. /\ Len(stack) >= 3 /\ Put(3, Choice(FromTop(3), FromTop(2), FromTop(1)))
          /\ issuer' = issuer /\ size' = size
      BY <1>6 DEF Choose
    <2>2. Good(FromTop(1)) /\ Good(FromTop(2)) /\ Good(FromTop(3))
      BY <1>0, <2>1, OperandsAreGood
    <2>3. Good(Choice(FromTop(3), FromTop(2), FromTop(1)))
      BY <2>2, ChoiceKeeps DEF Good
    <2>4. 3 \in 0 .. Len(stack) /\ Len(stack) - 3 + 1 =< size' /\ size' \in 0 .. MaxLeaves
      BY <1>0, <2>1
    <2> QED
      BY <2>1, <2>3, <2>4, PutKeeps
  <1>7. CASE UNCHANGED vars
    BY <1>7 DEF vars, IInv, TypeOK, ConstrainsIsRight, Conditions, SaysTruly, TrueOnlyIn
  <1> QED
    BY <1>1, <1>2, <1>3, <1>4, <1>5, <1>6, <1>7 DEF Next
-----------------------------------------------------------------------------
\* Every condition that can be written has its types; the check reads them.
LEMMA TypeCorrect == Spec => []TypeOK
PROOF
  <1>1. IInv => TypeOK
    BY DEF IInv
  <1>2. IInv /\ [Next]_vars => IInv'
    BY StepKeeps, ComparisonsSayTruly
  <1> QED
    BY <1>1, <1>2, InvariantStarts, PTL DEF Spec

\* constrains answers yes only for expressions that are true only where a
\* comparison accepted by bound holds, however they are put together.
THEOREM ConstrainsIsAlwaysRight == Spec => []ConstrainsIsRight
PROOF
  <1>1. IInv => ConstrainsIsRight
    BY DEF IInv
  <1>2. IInv /\ [Next]_vars => IInv'
    BY StepKeeps, ComparisonsSayTruly
  <1> QED
    BY <1>1, <1>2, InvariantStarts, PTL DEF Spec

\* A condition that checkCondition accepts for an issuer that is no preset is true
\* only for resources that are written down.
THEOREM OnlyListedResourcesAlways == Spec => []OnlyListedResources
PROOF
  <1>1. IInv => OnlyListedResources
    BY DEF IInv, ConstrainsIsRight, SaysTruly, OnlyListedResources, Accepted
  <1>2. IInv /\ [Next]_vars => IInv'
    BY StepKeeps, ComparisonsSayTruly
  <1> QED
    BY <1>1, <1>2, InvariantStarts, PTL DEF Spec

\* One that it accepts for a preset without require is true only for callers known
\* to the operator and for callers that ask for what is their owner's.
THEOREM StrangersAlwaysStayAtHome == Spec => []StrangersStayAtHome
PROOF
  <1>1. IInv => StrangersStayAtHome
    BY DEF IInv, ConstrainsIsRight, SaysTruly, StrangersStayAtHome, Accepted, CallerIsBound
  <1>2. IInv /\ [Next]_vars => IInv'
    BY StepKeeps, ComparisonsSayTruly
  <1> QED
    BY <1>1, <1>2, InvariantStarts, PTL DEF Spec
=============================================================================
